-------------------------------- MODULE Gate --------------------------------
(***************************************************************************)
(* What an RPC handler is promised by isLockedAndMakeLock (mutex.go), as   *)
(* its callers in jrpc.go use it: a call on a key is answered once, with   *)
(* the verdict the lock table gives at some instant between the call and   *)
(* its answer.  "admitted" lets the handler run, "refused" makes it return *)
(* the error "thread safety lock, function is temporarily unavailable".    *)
(*                                                                         *)
(* The table itself may change at any time: entries come and go by Lock,   *)
(* UnLock and by the gate's own temporary entries.  The gate promises      *)
(* nothing about two admitted calls excluding each other.                  *)
(***************************************************************************)
EXTENDS Naturals

CONSTANTS
  Key,      \* domain names, volume keys and "Local Hypervisor"
  Call,     \* RPC calls in flight
  NoKey     \* the key of a call that is not at the gate

VARIABLES
  locked,   \* the keys that have an entry in the table
  asked,    \* asked[c]: the key call c asked for
  verdict   \* verdict[c]: "none", "pending", "admitted" or "refused"

vars == <<locked, asked, verdict>>

Init ==
  /\ locked = {}
  /\ asked = [c \in Call |-> NoKey]
  /\ verdict = [c \in Call |-> "none"]

(***************************************************************************)
(* A call that finds no entry is admitted at once and leaves one behind; a *)
(* call that finds one has to wait.                                        *)
(***************************************************************************)
Arrive(c) ==
  /\ verdict[c] = "none"
  /\ \E k \in Key :
       /\ asked' = [asked EXCEPT ![c] = k]
       /\ locked' = locked \union {k}
       /\ verdict' = [verdict EXCEPT ![c] =
                        IF k \in locked THEN "pending" ELSE "admitted"]

\* A waiting call that finds its key free is let through.
Admit(c) ==
  /\ verdict[c] = "pending"
  /\ asked[c] \notin locked
  /\ verdict' = [verdict EXCEPT ![c] = "admitted"]
  /\ UNCHANGED <<locked, asked>>

\* A waiting call that finds its key taken may be turned away.
Refuse(c) ==
  /\ verdict[c] = "pending"
  /\ asked[c] \in locked
  /\ verdict' = [verdict EXCEPT ![c] = "refused"]
  /\ UNCHANGED <<locked, asked>>

\* The handler returns to its client.
Leave(c) ==
  /\ verdict[c] \in {"admitted", "refused"}
  /\ verdict' = [verdict EXCEPT ![c] = "none"]
  /\ asked' = [asked EXCEPT ![c] = NoKey]
  /\ UNCHANGED locked

\* Lock, UnLock and the removal of temporary entries.
TableChange ==
  /\ \E k \in Key : locked' \in {locked \union {k}, locked \ {k}}
  /\ UNCHANGED <<asked, verdict>>

Decide(c) == Admit(c) \/ Refuse(c)

Next ==
  \/ \E c \in Call : Arrive(c) \/ Decide(c) \/ Leave(c)
  \/ TableChange

Safe == Init /\ [][Next]_vars

Spec == Safe /\ \A c \in Call : WF_vars(Decide(c)) /\ WF_vars(Leave(c))
=============================================================================
