----------------------------- MODULE MCDomainRpc -----------------------------
(***************************************************************************)
(* DomainRpc on small instances: which request may be which operation, and *)
(* how often each adversity strikes.                                       *)
(***************************************************************************)
EXTENDS DomainRpc, TLC

CONSTANTS r1, r2

OneBackup == r1 :> {"MakeBackup"}
AnyTwo == (r1 :> Op) @@ (r2 :> Op)
BackupAndPower == (r1 :> {"MakeBackup"}) @@ (r2 :> {"Start", "Shutdown"})

\* The plan of AnyTwo tells r1 and r2 not apart.
Interchangeable == Permutations({r1, r2})

AtMost(n, kinds) == [a \in Adversity |-> IF a \in kinds THEN n ELSE 0]

AnyAdversity == AtMost(1, Adversity)
Delays == AtMost(2, {"stall", "off", "abort"})
OnePowerOff == AtMost(1, {"off"})
=============================================================================
