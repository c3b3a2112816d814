---------------------------- MODULE MCInfoReport ----------------------------
(***************************************************************************)
(* InfoReport, and with it Snapshots, on small instances.                  *)
(***************************************************************************)
EXTENDS InfoReport, TLC

CONSTANTS r1, r2, a, b

AnyTwo == [r \in Req |-> Op]
DifferentNames == (a :> a) @@ (b :> b)

(***************************************************************************)
(* The report begins when one other request, or none, is about to change   *)
(* snapshots and goes on whatever that does; it meets no backup and crash. *)
(* Power and parameters change while it reads them (its second half is     *)
(* about snapshots and followed if the first was not disturbed).  Both     *)
(* requests run, with backups and crashes, while there is no report.  One  *)
(* adversity strikes in all.                                               *)
(***************************************************************************)
FirstHalf == {"active", "persistent", "now", "config", "count"}

Apart ==
  /\ ipc \notin {"ok", "error"}
  /\ ipc = "idle" /\ ipc' # "idle" =>
       raced = {} /\ \A r \in Req : pc[r] \in {"idle", "create", "delete", "revert"}
  /\ ipc' # "idle" =>
       /\ \E r \in Req : \A q \in Req \ {r} : pc'[q] = "idle"
       /\ \A r \in Req : pc[r] = "idle" => pc'[r] = "idle"
       /\ image' = "base" /\ spent'["crash"] = 0
  /\ ipc = "list" => seen = "nothing"
  /\ ipc \notin FirstHalf => stored' = stored
  /\ ipc \notin FirstHalf \union {"idle"} => on' = on \/ pc' # pc
  /\ spent'["fault"] + spent'["misread"] + spent'["crash"] <= 1

AnyAdversity == [x \in Adversity |-> 1]

Either == Permutations({r1, r2}) \union Permutations({a, b})
=============================================================================
