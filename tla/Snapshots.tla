------------------------------ MODULE Snapshots ------------------------------
(***************************************************************************)
(* The internal snapshots of one domain: the handlers MakeSnapshot,        *)
(* RemoveSnapshot and RevertToSnapshot of jrpc.go with what they call in   *)
(* snapshots.go, while the domain is started and stopped and a MakeBackup  *)
(* puts its overlay on the disk and commits it away again.                 *)
(*                                                                         *)
(* An internal snapshot lives inside the image that is active when it is   *)
(* taken; libvirt keeps the tree of their names.  The disks of the domain  *)
(* are treated alike and are one here.  The domain stays defined.          *)
(***************************************************************************)
EXTENDS Naturals, FiniteSets

CONSTANTS
  Req,         \* requests that change snapshots
  Plan,        \* Plan[r]: the operations request r may be
  Name,        \* names of snapshots
  NoSnapshot,  \* neither a snapshot nor a name
  Earlier,     \* whoever made the snapshots that are there from the start
  Budget       \* how often each adversity may strike

Op == {"Make", "Remove", "Revert"}
Adversity == {"fault", "misread", "crash"}

ASSUME SnapshotPlanAssumption == Plan \in [Req -> SUBSET Op]
ASSUME SnapshotBudgetAssumption == Budget \in [Adversity -> Nat]
ASSUME EarlierAssumption == Earlier \notin Req

VARIABLES
  on,        \* the domain runs
  image,     \* what MakeBackup has done to its disk: see Image
  snaps,     \* snaps[n]: the snapshot of that name
  current,   \* the name of the current snapshot
  pc,        \* the step request r takes next
  op, name,  \* what it is, and the name its client gave
  held,      \* the snapshot whose handle it holds
  spent,     \* spent[a]: how often adversity a has struck
  raced      \* history: requests whose domain was started, or got another
             \* image by a revert, after their check

hostVars == <<on, image, snaps, current>>
localVars == <<op, name, held>>
snapshotVars == <<hostVars, pc, localVars, spent, raced>>

\* The base image is active, or an overlay on it, or one that a job commits.
Image == {"base", "overlay", "commit"}

\* live: taken of a running guest; place: the image that holds its data.
Snapshot == [maker : Req \union {Earlier}, parent : Name \union {NoSnapshot},
             live : BOOLEAN, place : {"base", "overlay", "lost"}]

ASSUME NoSnapshotAssumption ==
  NoSnapshot \notin Name \union Req \union {Earlier} \union Snapshot

Ended == {"ok", "error", "panic", "lost"}
Checked == {r \in Req : pc[r] \notin Ended \union {"idle", "power"}}
Label == {"idle", "power", "jobs", "overlay", "create", "find", "delete", "revert"}
           \union Ended

TypeOK ==
  /\ on \in BOOLEAN
  /\ image \in Image
  /\ snaps \in [Name -> Snapshot \union {NoSnapshot}]
  /\ current \in Name \union {NoSnapshot}
  /\ pc \in [Req -> Label]
  /\ op \in [Req -> Op \union {"none"}]
  /\ name \in [Req -> Name \union {NoSnapshot}]
  /\ held \in [Req -> Req \union {Earlier, NoSnapshot}]
  /\ spent \in [Adversity -> Nat]
  /\ raced \subseteq Req

Made == {n \in Name : snaps[n] # NoSnapshot}

Take(maker, parent, live, place) ==
  [maker |-> maker, parent |-> parent, live |-> live, place |-> place]

\* Every snapshot has a parent made before it, or none.
Forest ==
  \E age \in [Name -> 1..Cardinality(Name)] : \A n \in Made :
    LET p == snaps[n].parent IN p = NoSnapshot \/ (p \in Made /\ age[p] < age[n])

\* An overlay may be left over from a backup.
Init ==
  /\ on \in BOOLEAN
  /\ image \in {"base", "overlay"}
  /\ snaps \in [Name -> {Take(Earlier, p, FALSE, "base") : p \in Name \union {NoSnapshot}}
                            \union {NoSnapshot}]
  /\ Forest
  /\ current \in Made \union {NoSnapshot}
  /\ pc = [r \in Req |-> "idle"]
  /\ op = [r \in Req |-> "none"]
  /\ name = [r \in Req |-> NoSnapshot]
  /\ held = [r \in Req |-> NoSnapshot]
  /\ spent = [a \in Adversity |-> 0]
  /\ raced = {}

Goto(r, label) == pc' = [pc EXCEPT ![r] = label]
Fail(r) == Goto(r, "error")

Spend(a) ==
  /\ spent[a] < Budget[a]
  /\ spent' = [spent EXCEPT ![a] = @ + 1]

\* isDomainActive takes an error for a FALSE.
Told(answer, truth) ==
  \/ answer = truth /\ UNCHANGED spent
  \/ answer = FALSE /\ Spend("misread")

-----------------------------------------------------------------------------
(***************************************************************************)
(* libvirt.                                                                *)
(***************************************************************************)

\* A commit dies with the QEMU process that runs it.
StoppedImage == IF image = "commit" THEN "overlay" ELSE image

CanTake(n) == snaps[n] = NoSnapshot /\ image # "commit"

\* CREATE_ATOMIC and CREATE_HALT: a guest that runs is stopped by it.
TakeSnapshot(maker, n) ==
  /\ snaps' = [snaps EXCEPT ![n] = Take(maker, current, on, image)]
  /\ current' = n
  /\ on' = FALSE
  /\ UNCHANGED image

\* The children of a deleted snapshot become those of its parent.
DeleteSnapshot(n) ==
  /\ snaps' = [m \in Name |->
                 IF m \notin Made \/ m = n THEN NoSnapshot
                 ELSE IF snaps[m].parent = n THEN [snaps[m] EXCEPT !.parent = snaps[n].parent]
                 ELSE snaps[m]]
  /\ current' = IF current = n THEN snaps[n].parent ELSE current
  /\ UNCHANGED <<on, image>>

CanRevert(n) == n \in Made /\ snaps[n].place # "lost" /\ image # "commit"

\* The domain takes power state and disks of the snapshot.
RevertSnapshot(n) ==
  /\ current' = n
  /\ on' = snaps[n].live
  /\ image' = snaps[n].place
  /\ UNCHANGED snaps

-----------------------------------------------------------------------------
(***************************************************************************)
(* Head of the handlers.                                                   *)
(***************************************************************************)
Enter(r) ==
  /\ pc[r] = "idle"
  /\ \E o \in Plan[r], n \in Name :
       /\ op' = [op EXCEPT ![r] = o]
       /\ name' = [name EXCEPT ![r] = n]
  /\ Goto(r, "power")
  /\ UNCHANGED <<hostVars, held, spent, raced>>

\* Mutant: the power state is not looked at.
PowerUnchecked(r) ==
  /\ pc[r] = "power"
  /\ Goto(r, "jobs")
  /\ UNCHANGED <<hostVars, localVars, spent, raced>>

Power(r) ==
  /\ pc[r] = "power"
  /\ \E active \in BOOLEAN :
       /\ Told(active, on)
       /\ IF active THEN Fail(r) ELSE Goto(r, "jobs")
  /\ UNCHANGED <<hostVars, localVars, raced>>

\* isDomainBlockJobRunning asks for the power state once more.
Jobs(r) ==
  /\ pc[r] = "jobs"
  /\ \E active \in BOOLEAN :
       /\ Told(active, on)
       /\ IF active /\ image = "commit" THEN Fail(r) ELSE Goto(r, "overlay")
  /\ UNCHANGED <<hostVars, localVars, raced>>

\* Mutant: snapshots libvirt counts as external are looked for, their files are not.
OverlayUnchecked(r) ==
  /\ pc[r] = "overlay"
  /\ Goto(r, IF op[r] = "Make" THEN "create" ELSE "find")
  /\ UNCHANGED <<hostVars, localVars, spent, raced>>

\* isDomainBlockHasActiveExternalBackupSnashot
Overlay(r) ==
  /\ pc[r] = "overlay"
  /\ IF image # "base" THEN Fail(r)
     ELSE Goto(r, IF op[r] = "Make" THEN "create" ELSE "find")
  /\ UNCHANGED <<hostVars, localVars, spent, raced>>

-----------------------------------------------------------------------------
(***************************************************************************)
(* What each handler does after that.                                      *)
(***************************************************************************)
Create(r) ==
  /\ pc[r] = "create"
  /\ IF CanTake(name[r]) THEN TakeSnapshot(r, name[r]) /\ Goto(r, "ok")
     ELSE Fail(r) /\ UNCHANGED hostVars
  /\ UNCHANGED <<localVars, spent, raced>>

\* Without a snapshot there is nil to free, which RemoveSnapshot does.
NotFound(r) == Goto(r, IF op[r] = "Remove" THEN "panic" ELSE "error")

Find(r) ==
  /\ pc[r] = "find"
  /\ IF name[r] \in Made
     THEN /\ held' = [held EXCEPT ![r] = snaps[name[r]].maker]
          /\ Goto(r, IF op[r] = "Remove" THEN "delete" ELSE "revert")
     ELSE NotFound(r) /\ UNCHANGED held
  /\ UNCHANGED <<hostVars, op, name, spent, raced>>

Free(r) == held' = [held EXCEPT ![r] = NoSnapshot]

\* Mutant: the flag that takes the descendants along.
DeleteWithChildren(r) ==
  /\ pc[r] = "delete"
  /\ LET gone == {m \in Made : m = name[r] \/ snaps[m].parent = name[r]}
     IN  IF name[r] \in Made
         THEN /\ snaps' = [m \in Name |-> IF m \in gone THEN NoSnapshot ELSE snaps[m]]
              /\ current' = IF current \in gone THEN snaps[name[r]].parent ELSE current
              /\ Goto(r, "ok")
         ELSE Fail(r) /\ UNCHANGED <<snaps, current>>
  /\ Free(r)
  /\ UNCHANGED <<on, image, op, name, spent, raced>>

Delete(r) ==
  /\ pc[r] = "delete"
  /\ IF name[r] \in Made THEN DeleteSnapshot(name[r]) /\ Goto(r, "ok")
     ELSE Fail(r) /\ UNCHANGED hostVars
  /\ Free(r)
  /\ UNCHANGED <<op, name, spent, raced>>

Reverted(n) ==
  /\ RevertSnapshot(n)
  /\ raced' = IF on' = on /\ image' = image THEN raced ELSE raced \union Checked

\* Mutant: the handle is freed on errors instead.
RevertKeeping(r) ==
  /\ pc[r] = "revert"
  /\ IF CanRevert(name[r]) THEN Reverted(name[r]) /\ Goto(r, "ok") /\ UNCHANGED held
     ELSE Fail(r) /\ Free(r) /\ UNCHANGED <<hostVars, raced>>
  /\ UNCHANGED <<op, name, spent>>

\* revertToSnapshot defers Free after its error check: an error keeps the handle.
Revert(r) ==
  /\ pc[r] = "revert"
  /\ IF CanRevert(name[r]) THEN Reverted(name[r]) /\ Free(r) /\ Goto(r, "ok")
     ELSE Fail(r) /\ UNCHANGED <<hostVars, held, raced>>
  /\ UNCHANGED <<op, name, spent>>

-----------------------------------------------------------------------------
(***************************************************************************)
(* Start, Shutdown, MakeBackup and the guest.                              *)
(***************************************************************************)
PowerOn ==
  /\ ~on
  /\ on' = TRUE
  /\ raced' = raced \union Checked
  /\ UNCHANGED <<image, snaps, current, pc, localVars, spent>>

PowerOff ==
  /\ on
  /\ on' = FALSE
  /\ image' = StoppedImage
  /\ UNCHANGED <<snaps, current, pc, localVars, spent, raced>>

\* An overlay that is left over has to be committed by hand (HowTo).
BackupBegins ==
  /\ on /\ image = "base"
  /\ image' = "overlay"
  /\ UNCHANGED <<on, snaps, current, pc, localVars, spent, raced>>

BackupCommits ==
  /\ on /\ image = "overlay"
  /\ image' = "commit"
  /\ UNCHANGED <<on, snaps, current, pc, localVars, spent, raced>>

\* The overlay is deleted with all that is in it but its current data.
BackupEnds ==
  /\ on /\ image = "commit"
  /\ image' = "base"
  /\ snaps' = [n \in Name |-> IF n \in Made /\ snaps[n].place = "overlay"
                               THEN [snaps[n] EXCEPT !.place = "lost"] ELSE snaps[n]]
  /\ UNCHANGED <<on, current, pc, localVars, spent, raced>>

Fault(r) ==
  /\ pc[r] \in {"jobs", "overlay", "create", "find", "delete", "revert"}
  /\ Spend("fault")
  /\ IF pc[r] = "find" THEN NotFound(r) ELSE Fail(r)
  /\ IF pc[r] = "delete" THEN Free(r) ELSE UNCHANGED held
  /\ UNCHANGED <<hostVars, op, name, raced>>

\* The daemon is killed, and its handles with it.
Crash ==
  /\ \E r \in Req : pc[r] \notin Ended \union {"idle"}
  /\ Spend("crash")
  /\ pc' = [r \in Req |-> IF pc[r] \in Ended \union {"idle"} THEN pc[r] ELSE "lost"]
  /\ held' = [r \in Req |-> NoSnapshot]
  /\ UNCHANGED <<hostVars, op, name, raced>>

Check(r) == Power(r) \/ Jobs(r) \/ Overlay(r)
MakeSnapshot(r) == Check(r) \/ Create(r)
RemoveSnapshot(r) == Check(r) \/ Find(r) \/ Delete(r)
RevertToSnapshot(r) == Check(r) \/ Find(r) \/ Revert(r)

Step(r) ==
  CASE op[r] = "Make" -> MakeSnapshot(r)
    [] op[r] = "Remove" -> RemoveSnapshot(r)
    [] op[r] = "Revert" -> RevertToSnapshot(r)
    [] OTHER -> FALSE

Host == PowerOn \/ PowerOff \/ BackupBegins \/ BackupCommits \/ BackupEnds

SnapshotNext ==
  \/ \E r \in Req : Enter(r) \/ Step(r) \/ Fault(r)
  \/ Host
  \/ Crash

SnapshotSafe == Init /\ [][SnapshotNext]_snapshotVars

-----------------------------------------------------------------------------
(***************************************************************************)
(* Properties.                                                             *)
(***************************************************************************)

(***************************************************************************)
(* The data of a snapshot libvirt lists exist, so that it can be reverted  *)
(* to: no backup deletes the image that holds them.  It takes a start (or  *)
(* a revert) that overtook the checks of MakeSnapshot, or a wrong answer.  *)
(***************************************************************************)
SnapshotsComeBack ==
  \A n \in Made :
    snaps[n].place = "lost" => snaps[n].maker \in raced \/ spent["misread"] > 0

(***************************************************************************)
(* A snapshot whose MakeSnapshot was answered TRUE is there until a        *)
(* RemoveSnapshot of its own name is answered TRUE: neither the removal of *)
(* others, nor another MakeSnapshot, nor a backup or a revert takes it.    *)
(***************************************************************************)
AnsweredSnapshotStays ==
  \A r \in Req : op[r] = "Make" /\ pc[r] = "ok" =>
    \/ name[r] \in Made /\ snaps[name[r]].maker = r
    \/ \E q \in Req : op[q] = "Remove" /\ pc[q] = "ok" /\ name[q] = name[r]

(***************************************************************************)
(* The handle of a snapshot is freed by the end of the request, whichever  *)
(* way it takes, but for a RevertToSnapshot that libvirt refuses           *)
(* (revertToSnapshot registers its Free after the error check).            *)
(***************************************************************************)
HandlesFreed ==
  \A r \in Req : pc[r] \in Ended /\ held[r] # NoSnapshot =>
    op[r] = "Revert" /\ pc[r] = "error"

(***************************************************************************)
(* MakeSnapshot, RemoveSnapshot and RevertToSnapshot are for domains that  *)
(* are shut down: none of them stops a running guest or exchanges its disk *)
(* unless the guest was started, by a Start or a revert, after the check,  *)
(* or the check was misled.                                                *)
(***************************************************************************)
GuestUndisturbed ==
  [][on /\ spent["misread"] = 0 =>
       \A r \in Req \ raced : pc[r] # pc'[r] => on' /\ image' = image]_snapshotVars
=============================================================================
