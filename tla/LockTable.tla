------------------------------ MODULE LockTable ------------------------------
(***************************************************************************)
(* mutex.go: the process-wide lock table (a sync.Map) and the gate every   *)
(* RPC handler of jrpc.go passes before it touches libvirt, with the RPCs  *)
(* Lock, UnLock and ListLocks that operate on the same table.              *)
(*                                                                         *)
(* Each Call is a goroutine serving one request after another.  The table  *)
(* operations (LoadOrStore, Load, Store, Delete) are atomic; everything    *)
(* between two of them is a step of its own, so calls interleave exactly   *)
(* where the goroutines can.  The one-second sleeps only separate steps.   *)
(* The code stores nothing but TRUE, so the table is the set of its keys   *)
(* and the branches on a stored FALSE or a non-bool value cannot run.      *)
(***************************************************************************)
EXTENDS Naturals

CONSTANTS
  Key,      \* names that are locked: domains, "Storage|Left", "Local Hypervisor"
  Call,     \* goroutines serving requests
  Counts,   \* how often handlers poll: {10, 60} in jrpc.go
  NoKey     \* the key of a goroutine that serves no request

ASSUME NoKeyAssumption == NoKey \notin Key
ASSUME CountsAssumption == Counts \subseteq Nat \ {0}

VARIABLES
  isLocked,   \* keys of the sync.Map
  pc,         \* where each goroutine is
  hash,       \* the key its request names
  left,       \* polls a waiting goroutine has left
  todo,       \* keys a Range in progress has still to visit
  found       \* keys that Range has collected

(***************************************************************************)
(* History, read by the properties only.                                   *)
(***************************************************************************)
VARIABLES
  manual,     \* entries an operator's Lock has put and nothing has deleted since
  blocked,    \* calls that met such an entry on arrival, as long as it stands
  steady,     \* keys present ever since a Range began
  ever        \* keys present at some time since it began

gateVars == <<isLocked, pc, hash, left>>
listVars == <<todo, found>>
historyVars == <<manual, blocked, steady, ever>>
vars == <<gateVars, listVars, historyVars>>

AtGate == {"wait", "granted", "denied"}
Answering == {"serve", "refused", "stored", "deleted", "listed"}

TypeOK ==
  /\ isLocked \subseteq Key
  /\ pc \in [Call -> {"idle", "ranging"} \union AtGate \union Answering]
  /\ hash \in [Call -> Key \union {NoKey}]
  /\ left \in [Call -> Nat]
  /\ todo \in [Call -> SUBSET Key]
  /\ found \in [Call -> SUBSET Key]
  /\ manual \subseteq Key
  /\ blocked \subseteq Call
  /\ steady \in [Call -> SUBSET Key]
  /\ ever \in [Call -> SUBSET Key]

Init ==
  /\ isLocked = {}
  /\ pc = [c \in Call |-> "idle"]
  /\ hash = [c \in Call |-> NoKey]
  /\ left = [c \in Call |-> 0]
  /\ todo = [c \in Call |-> {}]
  /\ found = [c \in Call |-> {}]
  /\ manual = {}
  /\ blocked = {}
  /\ steady = [c \in Call |-> {}]
  /\ ever = [c \in Call |-> {}]

Goto(c, label) == pc' = [pc EXCEPT ![c] = label]

-----------------------------------------------------------------------------
(***************************************************************************)
(* Table operations, with the history they leave.                          *)
(***************************************************************************)
Watch ==
  /\ steady' = [r \in Call |-> steady[r] \intersect isLocked']
  /\ ever' = [r \in Call |-> IF pc[r] = "ranging"
                             THEN ever[r] \union isLocked' ELSE ever[r]]

StoreEntry(k) ==
  /\ isLocked' = isLocked \union {k}
  /\ Watch

DeleteEntry(k) ==
  /\ isLocked' = isLocked \ {k}
  /\ manual' = manual \ {k}
  /\ blocked' = {b \in blocked : hash[b] # k}
  /\ Watch

-----------------------------------------------------------------------------
\* Mutant: LoadOrStore's second result is ignored.
LoadOrStoreIgnoringEntry(c) ==
  /\ pc[c] = "idle"
  /\ \E k \in Key :
       /\ hash' = [hash EXCEPT ![c] = k]
       /\ StoreEntry(k)
       /\ blocked' = IF k \in manual THEN blocked \union {c} ELSE blocked
  /\ Goto(c, "granted")
  /\ UNCHANGED <<left, listVars, manual>>

(***************************************************************************)
(* isLockedAndMakeLock: an absent entry is put and lets the call through,  *)
(* a present one makes it poll once a second.                              *)
(***************************************************************************)
LoadOrStore(c) ==
  /\ pc[c] = "idle"
  /\ \E k \in Key, count \in Counts :
       /\ hash' = [hash EXCEPT ![c] = k]
       /\ StoreEntry(k)
       /\ IF k \in isLocked
          THEN /\ Goto(c, "wait")
               /\ left' = [left EXCEPT ![c] = count]
               /\ blocked' = IF k \in manual THEN blocked \union {c} ELSE blocked
          ELSE /\ Goto(c, "granted")
               /\ UNCHANGED <<left, blocked>>
  /\ UNCHANGED <<listVars, manual>>

PollFree(c) ==
  /\ pc[c] = "wait"
  /\ hash[c] \notin isLocked
  /\ Goto(c, "granted")
  /\ UNCHANGED <<isLocked, hash, left, listVars, historyVars>>

\* Mutant: the loop over i has no end.
PollTakenUncounted(c) ==
  /\ pc[c] = "wait"
  /\ hash[c] \in isLocked
  /\ UNCHANGED vars

\* Mutant: i is compared with the wrong bound and passes it.
PollTakenOnceMore(c) ==
  /\ pc[c] = "wait"
  /\ hash[c] \in isLocked
  /\ left' = [left EXCEPT ![c] = left[c] - 1]
  /\ IF left[c] + 1 > 0 THEN UNCHANGED pc ELSE Goto(c, "denied")
  /\ UNCHANGED <<isLocked, hash, listVars, historyVars>>

\* Mutant: the last line returns false, as all the others do.
PollTakenThenGranted(c) ==
  /\ pc[c] = "wait"
  /\ hash[c] \in isLocked
  /\ left' = [left EXCEPT ![c] = left[c] - 1]
  /\ IF left[c] > 1 THEN UNCHANGED pc ELSE Goto(c, "granted")
  /\ UNCHANGED <<isLocked, hash, listVars, historyVars>>

PollTaken(c) ==
  /\ pc[c] = "wait"
  /\ hash[c] \in isLocked
  /\ left' = [left EXCEPT ![c] = left[c] - 1]
  /\ IF left[c] > 1 THEN UNCHANGED pc ELSE Goto(c, "denied")
  /\ UNCHANGED <<isLocked, hash, listVars, historyVars>>

\* Mutant: Delete is not deferred but called before the last return only.
DeleteOnRefusal(c) ==
  /\ pc[c] \in {"granted", "denied"}
  /\ IF pc[c] = "denied" THEN DeleteEntry(hash[c]) ELSE UNCHANGED <<isLocked, historyVars>>
  /\ Goto(c, IF pc[c] = "granted" THEN "serve" ELSE "refused")
  /\ UNCHANGED <<hash, left, listVars>>

(***************************************************************************)
(* The deferred isLocked.Delete(hash) runs on every return, whoever put    *)
(* the entry.  Only after it does the handler's own body start, or the     *)
(* refusal go out.                                                         *)
(***************************************************************************)
DeferredDelete(c) ==
  /\ pc[c] \in {"granted", "denied"}
  /\ DeleteEntry(hash[c])
  /\ Goto(c, IF pc[c] = "granted" THEN "serve" ELSE "refused")
  /\ UNCHANGED <<hash, left, listVars>>

(***************************************************************************)
(* Lock and UnLock.                                                        *)
(***************************************************************************)
AddLock(c) ==
  /\ pc[c] = "idle"
  /\ \E k \in Key :
       /\ StoreEntry(k)
       /\ hash' = [hash EXCEPT ![c] = k]
       /\ manual' = manual \union {k}
  /\ Goto(c, "stored")
  /\ UNCHANGED <<left, listVars, blocked>>

RemoveLock(c) ==
  /\ pc[c] = "idle"
  /\ \E k \in Key :
       /\ DeleteEntry(k)
       /\ hash' = [hash EXCEPT ![c] = k]
  /\ Goto(c, "deleted")
  /\ UNCHANGED <<left, listVars>>

(***************************************************************************)
(* ListLocks.  sync.Map.Range takes no snapshot: it visits each key once   *)
(* and reports what the table says of it at some point of the call.        *)
(***************************************************************************)
ListBegin(c) ==
  /\ pc[c] = "idle"
  /\ Goto(c, "ranging")
  /\ todo' = [todo EXCEPT ![c] = Key]
  /\ steady' = [steady EXCEPT ![c] = isLocked]
  /\ ever' = [ever EXCEPT ![c] = isLocked]
  /\ UNCHANGED <<isLocked, hash, left, found, manual, blocked>>

\* Mutant: a key is listed without a look at its entry.
ListVisitBlindly(c) ==
  /\ pc[c] = "ranging"
  /\ \E k \in todo[c] :
       /\ todo' = [todo EXCEPT ![c] = @ \ {k}]
       /\ found' = [found EXCEPT ![c] = @ \union {k}]
  /\ UNCHANGED <<gateVars, historyVars>>

ListVisit(c) ==
  /\ pc[c] = "ranging"
  /\ \E k \in todo[c] :
       /\ todo' = [todo EXCEPT ![c] = @ \ {k}]
       /\ found' = [found EXCEPT ![c] = @ \union ({k} \intersect isLocked)]
  /\ UNCHANGED <<gateVars, historyVars>>

ListEnd(c) ==
  /\ pc[c] = "ranging"
  /\ todo[c] = {}
  /\ Goto(c, "listed")
  /\ UNCHANGED <<isLocked, hash, left, listVars, historyVars>>

\* The handler's body is over (or was never entered) and the answer goes out.
Reply(c) ==
  /\ pc[c] \in Answering
  /\ Goto(c, "idle")
  /\ hash' = [hash EXCEPT ![c] = NoKey]
  /\ left' = [left EXCEPT ![c] = 0]
  /\ found' = [found EXCEPT ![c] = {}]
  /\ blocked' = blocked \ {c}
  /\ steady' = [steady EXCEPT ![c] = {}]
  /\ ever' = [ever EXCEPT ![c] = {}]
  /\ UNCHANGED <<isLocked, todo, manual>>

Poll(c) == PollFree(c) \/ PollTaken(c)

\* What a goroutine does once its request is in: the scheduler owes it these.
Continue(c) == Poll(c) \/ DeferredDelete(c) \/ ListVisit(c) \/ ListEnd(c) \/ Reply(c)

\* What a client may ask for, and need not.
Request(c) == LoadOrStore(c) \/ AddLock(c) \/ RemoveLock(c) \/ ListBegin(c)

Next == \E c \in Call : Request(c) \/ Continue(c)

Safe == Init /\ [][Next]_vars

Spec == Safe /\ \A c \in Call : WF_vars(Continue(c))

-----------------------------------------------------------------------------
(***************************************************************************)
(* Properties.                                                             *)
(***************************************************************************)

(***************************************************************************)
(* No temporary entry is ever left behind: an entry that no operator put   *)
(* belongs to a call that still has its deferred Delete to run, although   *)
(* every call deletes by key and so may delete another call's entry.       *)
(***************************************************************************)
TemporaryLockHasHolder ==
  \A k \in isLocked \ manual :
    \E c \in Call : pc[c] = "granted" /\ hash[c] = k

(***************************************************************************)
(* A call that met an operator's lock does not get through while that very *)
(* lock still stands: whoever is let through saw the entry gone.           *)
(***************************************************************************)
OperatorLockBlocks ==
  \A c \in blocked : pc[c] \notin {"granted", "serve"}

(***************************************************************************)
(* What ListLocks returns: every key that was locked throughout the call,  *)
(* and no key that was not locked at any time of it.                       *)
(***************************************************************************)
ListIsFaithful ==
  \A c \in Call : pc[c] = "listed" =>
    /\ steady[c] \subseteq found[c]
    /\ found[c] \subseteq ever[c]

(***************************************************************************)
(* Every request is answered: a goroutine may not wait at the gate for     *)
(* ever, even for a key an operator keeps locked.                          *)
(***************************************************************************)
EveryCallAnswered ==
  \A c \in Call : pc[c] # "idle" ~> pc[c] = "idle"

(***************************************************************************)
(* A temporary entry does not stay: it goes, or an operator takes it over. *)
(***************************************************************************)
TemporaryLockEnds ==
  \A k \in Key : k \in isLocked \ manual ~> k \notin isLocked \ manual

(***************************************************************************)
(* The gate keeps the promise stated in Gate.                              *)
(***************************************************************************)
Verdict(c) ==
  CASE pc[c] = "wait" -> "pending"
    [] pc[c] \in {"granted", "serve"} -> "admitted"
    [] pc[c] \in {"denied", "refused"} -> "refused"
    [] OTHER -> "none"

Asked(c) == IF Verdict(c) = "none" THEN NoKey ELSE hash[c]

Promise == INSTANCE Gate WITH
  locked <- isLocked,
  asked <- [c \in Call |-> Asked(c)],
  verdict <- [c \in Call |-> Verdict(c)]

KeepsPromise == Promise!Spec

(***************************************************************************)
(* What the refusal calls itself (jrpc.go:56, "thread safety lock"): two   *)
(* handlers never work on one key at the same time.  It does not hold.     *)
(***************************************************************************)
ThreadSafety ==
  \A c, d \in Call :
    c # d /\ pc[c] = "serve" /\ pc[d] = "serve" => hash[c] # hash[d]
=============================================================================
