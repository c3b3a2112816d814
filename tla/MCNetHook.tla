----------------------------- MODULE MCNetHook -----------------------------
(***************************************************************************)
(* NetHook on small instances.                                             *)
(***************************************************************************)
EXTENDS NetHook, TLC

CONSTANTS r1, r2

\* The daemon reads the first and not the second.
Partial == [Default EXCEPT !["trust"] = "", !["spoofchk"] = "bad", !["qos"] = "5"]

Broken == [Default EXCEPT !["trust"] = "on", !["max_tx_rate"] = "bad"]

Good == [source |-> "pci", alias |-> "hostdev", tags |-> 1, plain |-> TRUE,
         managed |-> TRUE, mac |-> "ours"]
Trunk == [Good EXCEPT !.tags = 2, !.plain = FALSE]

SomeMetadata == {Partial, Broken, NoMetadata}
OldMetadata == {Partial}
Two == <<Good, Trunk>>
One == <<Good>>
AnyAdversity == [x \in Adversity |-> 1]
NoAdversity == [x \in Adversity |-> 0]
\* One adversity in all.
Once == spent'["fault"] + spent'["misread"] <= 1
=============================================================================
