--------------------------- MODULE LockTableProofs ---------------------------
(***************************************************************************)
(* The safety properties of LockTable, for any keys, any number of         *)
(* goroutines and any polling counts.                                      *)
(***************************************************************************)
EXTENDS LockTable, TLAPS

(***************************************************************************)
(* The inductive invariant, in named parts.                                *)
(***************************************************************************)

\* A waiting goroutine has a poll left; whoever is at the gate has a key.
GateOK ==
  \A c \in Call :
    /\ pc[c] = "wait" => left[c] > 0
    /\ pc[c] \in AtGate => hash[c] \in Key

\* A blocked call waits, or gives up, on an entry that still stands.
BlockedOK ==
  /\ manual \subseteq isLocked
  /\ \A c \in blocked : pc[c] \in {"wait", "denied"} /\ hash[c] \in manual

\* What a Range has collected so far, and what it has still to look at.
ListOK ==
  \A c \in Call :
    /\ pc[c] = "ranging" =>
         /\ steady[c] \subseteq isLocked
         /\ isLocked \subseteq ever[c]
         /\ steady[c] \subseteq found[c] \union todo[c]
         /\ found[c] \subseteq ever[c]
    /\ pc[c] = "listed" => steady[c] \subseteq found[c] /\ found[c] \subseteq ever[c]
    /\ pc[c] \notin {"ranging", "listed"} => found[c] = {}

IInv == TypeOK /\ GateOK /\ TemporaryLockHasHolder /\ BlockedOK /\ ListOK

-----------------------------------------------------------------------------
(***************************************************************************)
(* The values of all variables after each kind of step are as typed.       *)
(***************************************************************************)
LEMMA TypeStep == TypeOK /\ GateOK /\ [Next]_vars => TypeOK'
<1> SUFFICES ASSUME TypeOK, GateOK, [Next]_vars PROVE TypeOK'
  OBVIOUS
<1> USE DEF TypeOK, AtGate, Answering, Goto, gateVars, listVars, historyVars
<1>1. CASE UNCHANGED vars
  BY <1>1 DEF vars
<1>2. ASSUME NEW c \in Call, LoadOrStore(c) PROVE TypeOK'
  BY <1>2, CountsAssumption DEF LoadOrStore, StoreEntry, Watch
<1>3. ASSUME NEW c \in Call, Poll(c) PROVE TypeOK'
  BY <1>3 DEF Poll, PollFree, PollTaken, GateOK
<1>4. ASSUME NEW c \in Call, DeferredDelete(c) PROVE TypeOK'
  BY <1>4 DEF DeferredDelete, DeleteEntry, Watch
<1>5. ASSUME NEW c \in Call, AddLock(c) PROVE TypeOK'
  BY <1>5 DEF AddLock, StoreEntry, Watch
<1>6. ASSUME NEW c \in Call, RemoveLock(c) PROVE TypeOK'
  BY <1>6 DEF RemoveLock, DeleteEntry, Watch
<1>7. ASSUME NEW c \in Call, ListBegin(c) PROVE TypeOK'
  BY <1>7 DEF ListBegin
<1>8. ASSUME NEW c \in Call, ListVisit(c) PROVE TypeOK'
  BY <1>8 DEF ListVisit
<1>9. ASSUME NEW c \in Call, ListEnd(c) PROVE TypeOK'
  BY <1>9 DEF ListEnd
<1>10. ASSUME NEW c \in Call, Reply(c) PROVE TypeOK'
  BY <1>10 DEF Reply
<1>11. QED
  BY <1>1, <1>2, <1>3, <1>4, <1>5, <1>6, <1>7, <1>8, <1>9, <1>10
  DEF Next, Request, Continue

(***************************************************************************)
(* Polling stops before the count is used up, and a request's key does not *)
(* change while it is at the gate.                                         *)
(***************************************************************************)
LEMMA GateStep == TypeOK /\ GateOK /\ [Next]_vars => GateOK'
<1> SUFFICES ASSUME TypeOK, GateOK, [Next]_vars PROVE GateOK'
  OBVIOUS
<1> USE DEF TypeOK, AtGate, Answering, Goto, gateVars, listVars, historyVars, GateOK
<1>1. CASE UNCHANGED vars
  BY <1>1 DEF vars
<1>2. ASSUME NEW c \in Call, LoadOrStore(c) PROVE GateOK'
  BY <1>2, CountsAssumption DEF LoadOrStore, StoreEntry, Watch
<1>3. ASSUME NEW c \in Call, Poll(c) PROVE GateOK'
  BY <1>3 DEF Poll, PollFree, PollTaken
<1>4. ASSUME NEW c \in Call, DeferredDelete(c) PROVE GateOK'
  BY <1>4 DEF DeferredDelete, DeleteEntry, Watch
<1>5. ASSUME NEW c \in Call, AddLock(c) PROVE GateOK'
  BY <1>5 DEF AddLock, StoreEntry, Watch
<1>6. ASSUME NEW c \in Call, RemoveLock(c) PROVE GateOK'
  BY <1>6 DEF RemoveLock, DeleteEntry, Watch
<1>7. ASSUME NEW c \in Call, ListBegin(c) PROVE GateOK'
  BY <1>7 DEF ListBegin
<1>8. ASSUME NEW c \in Call, ListVisit(c) PROVE GateOK'
  BY <1>8 DEF ListVisit
<1>9. ASSUME NEW c \in Call, ListEnd(c) PROVE GateOK'
  BY <1>9 DEF ListEnd
<1>10. ASSUME NEW c \in Call, Reply(c) PROVE GateOK'
  BY <1>10 DEF Reply
<1>11. QED
  BY <1>1, <1>2, <1>3, <1>4, <1>5, <1>6, <1>7, <1>8, <1>9, <1>10
  DEF Next, Request, Continue

(***************************************************************************)
(* Whoever deletes a key deletes it for all its holders at once, so an     *)
(* entry cannot outlive the call that put it.                              *)
(***************************************************************************)
LEMMA HolderStep == TypeOK /\ GateOK /\ TemporaryLockHasHolder /\ [Next]_vars => TemporaryLockHasHolder'
<1> SUFFICES ASSUME TypeOK, GateOK, TemporaryLockHasHolder, [Next]_vars PROVE TemporaryLockHasHolder'
  OBVIOUS
<1> USE DEF TypeOK, AtGate, Answering, Goto, gateVars, listVars, historyVars, GateOK, TemporaryLockHasHolder
<1>1. CASE UNCHANGED vars
  BY <1>1 DEF vars
<1>2. ASSUME NEW c \in Call, LoadOrStore(c) PROVE TemporaryLockHasHolder'
  BY <1>2 DEF LoadOrStore, StoreEntry, Watch
<1>3. ASSUME NEW c \in Call, Poll(c) PROVE TemporaryLockHasHolder'
  BY <1>3 DEF Poll, PollFree, PollTaken
<1>4. ASSUME NEW c \in Call, DeferredDelete(c) PROVE TemporaryLockHasHolder'
  BY <1>4 DEF DeferredDelete, DeleteEntry, Watch
<1>5. ASSUME NEW c \in Call, AddLock(c) PROVE TemporaryLockHasHolder'
  BY <1>5 DEF AddLock, StoreEntry, Watch
<1>6. ASSUME NEW c \in Call, RemoveLock(c) PROVE TemporaryLockHasHolder'
  BY <1>6 DEF RemoveLock, DeleteEntry, Watch
<1>7. ASSUME NEW c \in Call, ListBegin(c) PROVE TemporaryLockHasHolder'
  BY <1>7 DEF ListBegin
<1>8. ASSUME NEW c \in Call, ListVisit(c) PROVE TemporaryLockHasHolder'
  BY <1>8 DEF ListVisit
<1>9. ASSUME NEW c \in Call, ListEnd(c) PROVE TemporaryLockHasHolder'
  BY <1>9 DEF ListEnd
<1>10. ASSUME NEW c \in Call, Reply(c) PROVE TemporaryLockHasHolder'
  BY <1>10 DEF Reply
<1>11. QED
  BY <1>1, <1>2, <1>3, <1>4, <1>5, <1>6, <1>7, <1>8, <1>9, <1>10
  DEF Next, Request, Continue

(***************************************************************************)
(* A call blocked by an operator's lock is unblocked only by a deletion of *)
(* that entry, its own giving up included.                                 *)
(***************************************************************************)
LEMMA BlockedStep == TypeOK /\ GateOK /\ BlockedOK /\ [Next]_vars => BlockedOK'
<1> SUFFICES ASSUME TypeOK, GateOK, BlockedOK, [Next]_vars PROVE BlockedOK'
  OBVIOUS
<1> USE DEF TypeOK, AtGate, Answering, Goto, gateVars, listVars, historyVars, GateOK, BlockedOK
<1>1. CASE UNCHANGED vars
  BY <1>1 DEF vars
<1>2. ASSUME NEW c \in Call, LoadOrStore(c) PROVE BlockedOK'
  BY <1>2 DEF LoadOrStore, StoreEntry, Watch
<1>3. ASSUME NEW c \in Call, Poll(c) PROVE BlockedOK'
  BY <1>3 DEF Poll, PollFree, PollTaken
<1>4. ASSUME NEW c \in Call, DeferredDelete(c) PROVE BlockedOK'
  BY <1>4 DEF DeferredDelete, DeleteEntry, Watch
<1>5. ASSUME NEW c \in Call, AddLock(c) PROVE BlockedOK'
  BY <1>5 DEF AddLock, StoreEntry, Watch
<1>6. ASSUME NEW c \in Call, RemoveLock(c) PROVE BlockedOK'
  BY <1>6 DEF RemoveLock, DeleteEntry, Watch
<1>7. ASSUME NEW c \in Call, ListBegin(c) PROVE BlockedOK'
  BY <1>7 DEF ListBegin
<1>8. ASSUME NEW c \in Call, ListVisit(c) PROVE BlockedOK'
  BY <1>8 DEF ListVisit
<1>9. ASSUME NEW c \in Call, ListEnd(c) PROVE BlockedOK'
  BY <1>9 DEF ListEnd
<1>10. ASSUME NEW c \in Call, Reply(c) PROVE BlockedOK'
  BY <1>10 DEF Reply
<1>11. QED
  BY <1>1, <1>2, <1>3, <1>4, <1>5, <1>6, <1>7, <1>8, <1>9, <1>10
  DEF Next, Request, Continue

(***************************************************************************)
(* A Range keeps between what has been locked throughout and what has been *)
(* locked at some time, one visited key after another.                     *)
(***************************************************************************)
LEMMA ListStep == TypeOK /\ ListOK /\ [Next]_vars => ListOK'
<1> SUFFICES ASSUME TypeOK, ListOK, [Next]_vars PROVE ListOK'
  OBVIOUS
<1> USE DEF TypeOK, AtGate, Answering, Goto, gateVars, listVars, historyVars, ListOK
<1>1. CASE UNCHANGED vars
  BY <1>1 DEF vars
<1>2. ASSUME NEW c \in Call, LoadOrStore(c) PROVE ListOK'
  BY <1>2 DEF LoadOrStore, StoreEntry, Watch
<1>3. ASSUME NEW c \in Call, Poll(c) PROVE ListOK'
  BY <1>3 DEF Poll, PollFree, PollTaken
<1>4. ASSUME NEW c \in Call, DeferredDelete(c) PROVE ListOK'
  BY <1>4 DEF DeferredDelete, DeleteEntry, Watch
<1>5. ASSUME NEW c \in Call, AddLock(c) PROVE ListOK'
  BY <1>5 DEF AddLock, StoreEntry, Watch
<1>6. ASSUME NEW c \in Call, RemoveLock(c) PROVE ListOK'
  BY <1>6 DEF RemoveLock, DeleteEntry, Watch
<1>7. ASSUME NEW c \in Call, ListBegin(c) PROVE ListOK'
  BY <1>7 DEF ListBegin
<1>8. ASSUME NEW c \in Call, ListVisit(c) PROVE ListOK'
  BY <1>8 DEF ListVisit
<1>9. ASSUME NEW c \in Call, ListEnd(c) PROVE ListOK'
  BY <1>9 DEF ListEnd
<1>10. ASSUME NEW c \in Call, Reply(c) PROVE ListOK'
  BY <1>10 DEF Reply
<1>11. QED
  BY <1>1, <1>2, <1>3, <1>4, <1>5, <1>6, <1>7, <1>8, <1>9, <1>10
  DEF Next, Request, Continue

-----------------------------------------------------------------------------
(***************************************************************************)
(* IInv holds throughout every behaviour.                                  *)
(***************************************************************************)
LEMMA Invariance == Safe => []IInv
<1>1. Init => IInv
  BY DEF Init, IInv, TypeOK, GateOK, TemporaryLockHasHolder, BlockedOK, ListOK,
         AtGate, Answering
<1>2. IInv /\ [Next]_vars => IInv'
  BY TypeStep, GateStep, HolderStep, BlockedStep, ListStep DEF IInv
<1>3. QED
  BY <1>1, <1>2, PTL DEF Safe

(***************************************************************************)
(* Every variable keeps its type: in particular a goroutine polls a        *)
(* natural number of times, whatever the counts are.                       *)
(***************************************************************************)
THEOREM TypeCorrect == Safe => []TypeOK
<1>1. IInv => TypeOK
  BY DEF IInv
<1>2. QED
  BY <1>1, Invariance, PTL

(***************************************************************************)
(* isLockedAndMakeLock leaves no entry of its own behind, although its     *)
(* deferred Delete is by key and hits other calls' entries too.            *)
(***************************************************************************)
THEOREM NoLeakedTemporaryLock == Safe => []TemporaryLockHasHolder
<1>1. IInv => TemporaryLockHasHolder
  BY DEF IInv
<1>2. QED
  BY <1>1, Invariance, PTL

(***************************************************************************)
(* No call gets past an operator's lock it met while that lock stands.     *)
(***************************************************************************)
THEOREM StandingLockBlocks == Safe => []OperatorLockBlocks
<1>1. IInv => OperatorLockBlocks
  BY DEF IInv, BlockedOK, OperatorLockBlocks
<1>2. QED
  BY <1>1, Invariance, PTL

(***************************************************************************)
(* ListLocks is between the keys locked throughout and those ever locked.  *)
(***************************************************************************)
THEOREM ListCorrect == Safe => []ListIsFaithful
<1>1. IInv => ListIsFaithful
  BY DEF IInv, ListOK, ListIsFaithful
<1>2. QED
  BY <1>1, Invariance, PTL

-----------------------------------------------------------------------------
(***************************************************************************)
(* The lock table implements the gate: every step of a goroutine is a step *)
(* of Gate or changes nothing Gate speaks of.                              *)
(***************************************************************************)
LEMMA GateSimulation == TypeOK /\ GateOK /\ [Next]_vars => [Promise!Next]_Promise!vars
<1> SUFFICES ASSUME TypeOK, GateOK, [Next]_vars PROVE [Promise!Next]_Promise!vars
  OBVIOUS
<1> USE DEF TypeOK, GateOK, AtGate, Answering, Goto, gateVars, listVars, historyVars
<1>1. CASE UNCHANGED vars
  BY <1>1 DEF vars, Promise!vars, Verdict, Asked
<1>2. ASSUME NEW c \in Call, LoadOrStore(c) PROVE Promise!Arrive(c)
  <2>1. PICK k \in Key, count \in Counts :
          /\ pc[c] = "idle"
          /\ hash' = [hash EXCEPT ![c] = k]
          /\ isLocked' = isLocked \union {k}
          /\ pc' = [pc EXCEPT ![c] = IF k \in isLocked THEN "wait" ELSE "granted"]
    BY <1>2 DEF LoadOrStore, StoreEntry
  <2>2. \A d \in Call : d # c => Verdict(d)' = Verdict(d) /\ Asked(d)' = Asked(d)
    BY <2>1 DEF Verdict, Asked
  <2>3. /\ Verdict(c) = "none"
        /\ Verdict(c)' = IF k \in isLocked THEN "pending" ELSE "admitted"
        /\ Asked(c)' = k
    BY <2>1 DEF Verdict, Asked
  <2>4. QED
    BY <2>1, <2>2, <2>3 DEF Promise!Arrive
<1>3. ASSUME NEW c \in Call, PollFree(c) PROVE Promise!Admit(c)
  BY <1>3 DEF PollFree, Promise!Admit, Verdict, Asked
<1>4. ASSUME NEW c \in Call, PollTaken(c) PROVE Promise!Refuse(c) \/ UNCHANGED Promise!vars
  BY <1>4 DEF PollTaken, Promise!Refuse, Promise!vars, Verdict, Asked
<1>5. ASSUME NEW c \in Call, DeferredDelete(c) PROVE Promise!TableChange
  BY <1>5 DEF DeferredDelete, DeleteEntry, Promise!TableChange, Verdict, Asked
<1>6. ASSUME NEW c \in Call, AddLock(c) PROVE Promise!TableChange
  BY <1>6 DEF AddLock, StoreEntry, Promise!TableChange, Verdict, Asked
<1>7. ASSUME NEW c \in Call, RemoveLock(c) PROVE Promise!TableChange
  BY <1>7 DEF RemoveLock, DeleteEntry, Promise!TableChange, Verdict, Asked
<1>8. ASSUME NEW c \in Call, ListBegin(c) \/ ListVisit(c) \/ ListEnd(c)
      PROVE UNCHANGED Promise!vars
  BY <1>8 DEF ListBegin, ListVisit, ListEnd, Promise!vars, Verdict, Asked
<1>9. ASSUME NEW c \in Call, Reply(c) PROVE Promise!Leave(c) \/ UNCHANGED Promise!vars
  BY <1>9 DEF Reply, Promise!Leave, Promise!vars, Verdict, Asked
<1>10. QED
  BY <1>1, <1>2, <1>3, <1>4, <1>5, <1>6, <1>7, <1>8, <1>9
  DEF Next, Request, Continue, Poll, Promise!Next, Promise!Decide

(***************************************************************************)
(* The safety part of what isLockedAndMakeLock promises its callers.       *)
(***************************************************************************)
THEOREM ImplementsGate == Safe => Promise!Safe
<1>1. Init => Promise!Init
  BY DEF Init, Promise!Init, Verdict, Asked
<1>2. IInv /\ [Next]_vars => [Promise!Next]_Promise!vars
  BY GateSimulation DEF IInv
<1>3. QED
  BY <1>1, <1>2, Invariance, PTL DEF Safe, Promise!Safe
=============================================================================
