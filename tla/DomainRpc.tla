------------------------------ MODULE DomainRpc ------------------------------
(***************************************************************************)
(* jrpc.go: the handlers MakeBackup, Destroy, Start and Shutdown working   *)
(* on one domain, from the lookup of the domain to the answer, with what   *)
(* they call in domain.go, snapshots.go, backup.go, lz4.go and storage.go. *)
(*                                                                         *)
(* One action per libvirt or file system call: handlers run concurrently   *)
(* and nothing but libvirtd serialises them.  The gate (LockTable) opens   *)
(* each handler; as it lets several calls on one domain run at once, all   *)
(* that is left of it here is that it may refuse a call.                   *)
(*                                                                         *)
(* A call that fails without a reason of its own spends a "fault"; where   *)
(* the code does not return the error, the step says what it does instead. *)
(***************************************************************************)
EXTENDS DomainDisks, FiniteSets

CONSTANTS
  Req,          \* requests
  Plan,         \* Plan[r]: the operations request r may be
  LibvirtDir,   \* disks whose images lie under /var/lib/libvirt/
  InPool        \* disks whose images lie in an active, persistent directory pool

Op == {"MakeBackup", "Destroy", "Start", "Shutdown"}

ASSUME PlanAssumption == Plan \in [Req -> SUBSET Op]
ASSUME PlaceAssumption == LibvirtDir \subseteq Disk /\ InPool \subseteq Disk

VARIABLES
  pc,             \* the step request r takes next
  op,             \* what it is
  at,             \* the disk its loop has reached
  paths,          \* the layer of each disk it read from the domain XML
  polls,          \* polls of waitBlockCommitActive that saw the job complete
  wasPersistent,  \* what isDomainPersistent told it
  saved,          \* image files an lz4 copy was completed of
  raced           \* a MakeBackup came between the checks of another and its snapshot

localVars == <<op, at, paths, polls, wasPersistent>>
vars == <<hostVars, spent, pc, localVars, saved, raced>>

Retries == 3

Ended == {"ok", "error", "refused", "panic", "lost"}

\* Steps after the sanity checks every disk-changing handler begins with.
Committed == {"paths", "snapshot", "open", "copy", "relist", "commit", "wait", "pivot",
              "delete", "verify", "persist", "active", "kill", "undefine", "pools",
              "erase", "confirm"}

Label == {"idle", "lookup", "power", "jobs", "job", "overlay", "create", "ask"}
           \union Committed \union Ended

LocalTypeOK ==
  /\ pc \in [Req -> Label]
  /\ op \in [Req -> Op \union {"none"}]
  /\ at \in [Req -> Disk]
  /\ paths \in [Req -> [Disk -> Nat]]
  /\ polls \in [Req -> 0..Retries]
  /\ wasPersistent \in [Req -> BOOLEAN]
  /\ saved \subseteq Disk \X Nat
  /\ raced \in BOOLEAN

TypeOK == HostTypeOK /\ LocalTypeOK

Init ==
  /\ HostInit
  /\ pc = [r \in Req |-> "idle"]
  /\ op = [r \in Req |-> "none"]
  /\ at = [r \in Req |-> 1]
  /\ paths = [r \in Req |-> [d \in Disk |-> 0]]
  /\ polls = [r \in Req |-> 0]
  /\ wasPersistent = [r \in Req |-> FALSE]
  /\ saved = {}
  /\ raced = FALSE

-----------------------------------------------------------------------------
Goto(r, label) == pc' = [pc EXCEPT ![r] = label]
Fail(r) == Goto(r, "error")

\* Mutant: <= for < at the end of the list.
NextDiskPastEnd(r, label, done) ==
  IF at[r] <= NDisks
  THEN Goto(r, label) /\ at' = [at EXCEPT ![r] = @ + 1]
  ELSE Goto(r, done) /\ at' = [at EXCEPT ![r] = 1]

\* Mutant: the last disk is left out.
NextDiskButLast(r, label, done) ==
  IF at[r] < NDisks - 1
  THEN Goto(r, label) /\ at' = [at EXCEPT ![r] = @ + 1]
  ELSE Goto(r, done) /\ at' = [at EXCEPT ![r] = 1]

\* The end of a loop over the disks, or its next round at label.
NextDisk(r, label, done) ==
  IF at[r] < NDisks
  THEN Goto(r, label) /\ at' = [at EXCEPT ![r] = @ + 1]
  ELSE Goto(r, done) /\ at' = [at EXCEPT ![r] = 1]

Path(r) == <<at[r], paths[r][at[r]]>>

\* isDomainActive and isDomainPersistent take an error for a FALSE.
Told(answer, truth) ==
  \/ answer = truth /\ UNCHANGED spent
  \/ answer = FALSE /\ Spend("misread")

ReadPaths(r) == paths' = [paths EXCEPT ![r] = top]

-----------------------------------------------------------------------------
(***************************************************************************)
(* The head of every handler.                                              *)
(***************************************************************************)
Enter(r) ==
  /\ pc[r] = "idle"
  /\ \E o \in Plan[r] : op' = [op EXCEPT ![r] = o]
  /\ Goto(r, "lookup") \/ Goto(r, "refused")
  /\ UNCHANGED <<hostVars, spent, at, paths, polls, wasPersistent, saved, raced>>

Lookup(r) ==
  /\ pc[r] = "lookup"
  /\ IF dom = "absent" THEN Fail(r)
     ELSE Goto(r, IF op[r] \in {"MakeBackup", "Destroy"} THEN "power" ELSE "jobs")
  /\ UNCHANGED <<hostVars, spent, localVars, saved, raced>>

\* "domain must be active while creating backup",
\* "domain must not be active while being destroyed"
Power(r) ==
  /\ pc[r] = "power"
  /\ \E active \in BOOLEAN :
       /\ Told(active, dom = "on")
       /\ IF active = (op[r] = "MakeBackup") THEN Goto(r, "jobs") ELSE Fail(r)
  /\ UNCHANGED <<hostVars, localVars, saved, raced>>

AfterJobs(r) ==
  CASE op[r] = "Start" -> "create"
    [] op[r] = "Shutdown" -> "ask"
    [] OTHER -> "overlay"

\* isDomainBlockJobRunning: an inactive domain has no jobs.
Jobs(r) ==
  /\ pc[r] = "jobs"
  /\ \E active \in BOOLEAN :
       /\ Told(active, dom = "on")
       /\ Goto(r, IF active THEN "job" ELSE AfterJobs(r))
  /\ UNCHANGED <<hostVars, localVars, saved, raced>>

\* A disk whose job cannot be read counts as one without a job.
Job(r) ==
  /\ pc[r] = "job"
  /\ \/ /\ dom = "on" /\ job[at[r]] # "none"
        /\ Fail(r)
        /\ UNCHANGED <<at, spent>>
     \/ /\ IF dom = "on" /\ job[at[r]] # "none" THEN Spend("fault") ELSE UNCHANGED spent
        /\ NextDisk(r, "job", AfterJobs(r))
  /\ UNCHANGED <<hostVars, op, paths, polls, wasPersistent, saved, raced>>

\* Mutant: the "sanity lock" is gone.
OverlayUnchecked(r) ==
  /\ pc[r] = "overlay"
  /\ IF dom # "absent" THEN Goto(r, "paths") ELSE Fail(r)
  /\ UNCHANGED <<hostVars, spent, localVars, saved, raced>>

\* isDomainBlockHasActiveExternalBackupSnashot: "domain has unfinished backup"
Overlay(r) ==
  /\ pc[r] = "overlay"
  /\ IF dom # "absent" /\ \A d \in Disk : top[d] = 0 THEN Goto(r, "paths") ELSE Fail(r)
  /\ UNCHANGED <<hostVars, spent, localVars, saved, raced>>

\* Mutant: the images are compressed before there is a snapshot.
PathsThenOpen(r) ==
  /\ pc[r] = "paths"
  /\ IF dom = "absent" THEN Fail(r) /\ UNCHANGED paths
     ELSE ReadPaths(r) /\ Goto(r, "open")
  /\ UNCHANGED <<hostVars, spent, op, at, polls, wasPersistent, saved, raced>>

\* prepareXMLForSnapshot and the first list of images; destroyDomain's list.
Paths(r) ==
  /\ pc[r] = "paths"
  /\ IF dom = "absent" THEN Fail(r) /\ UNCHANGED paths
     ELSE /\ ReadPaths(r)
          /\ Goto(r, IF op[r] = "MakeBackup" THEN "snapshot" ELSE "open")
  /\ UNCHANGED <<hostVars, spent, op, at, polls, wasPersistent, saved, raced>>

-----------------------------------------------------------------------------
(***************************************************************************)
(* createBackup: one image after the other is opened and compressed.  The  *)
(* copy goes on when the image is removed meanwhile.                       *)
(***************************************************************************)
Open(r) ==
  /\ pc[r] = "open"
  /\ IF Path(r) \in files THEN Goto(r, "copy") ELSE Fail(r)
  /\ UNCHANGED <<hostVars, spent, localVars, saved, raced>>

\* Mutant: only the first image is compressed.
CopyFirst(r) ==
  /\ pc[r] = "copy"
  /\ saved' = saved \union {Path(r)}
  /\ Goto(r, IF op[r] = "MakeBackup" THEN "relist" ELSE "persist")
  /\ UNCHANGED <<hostVars, spent, op, at, paths, polls, wasPersistent, raced>>

Copy(r) ==
  /\ pc[r] = "copy"
  /\ saved' = saved \union {Path(r)}
  /\ NextDisk(r, "open", IF op[r] = "MakeBackup" THEN "relist" ELSE "persist")
  /\ UNCHANGED <<hostVars, spent, op, paths, polls, wasPersistent, raced>>

-----------------------------------------------------------------------------
(***************************************************************************)
(* MakeBackup from the snapshot on.                                        *)
(***************************************************************************)
\* The "sanity lock" found no overlay, and the snapshot is still to come.
Cleared(r) == op[r] = "MakeBackup" /\ pc[r] \in {"paths", "snapshot"}

Snapshot(r) ==
  /\ pc[r] = "snapshot"
  /\ IF CanSnapshot
     THEN /\ TakeSnapshot
          /\ Goto(r, "open")
          /\ raced' = (raced \/ \E q \in Req \ {r} : Cleared(q))
     ELSE Fail(r) /\ UNCHANGED <<hostVars, raced>>
  /\ UNCHANGED <<spent, localVars, saved>>

\* The images the domain uses by now are the overlays to merge and delete.
Relist(r) ==
  /\ pc[r] = "relist"
  /\ IF dom = "absent" THEN Fail(r) /\ UNCHANGED paths
     ELSE ReadPaths(r) /\ Goto(r, "commit")
  /\ UNCHANGED <<hostVars, spent, op, at, polls, wasPersistent, saved, raced>>

\* Mutant: the count of polls is kept from disk to disk.
CommitKeepingCount(r) ==
  /\ pc[r] = "commit"
  /\ IF CanCommit(at[r]) THEN StartCommit(at[r]) /\ Goto(r, "wait")
     ELSE Fail(r) /\ UNCHANGED hostVars
  /\ UNCHANGED <<spent, localVars, saved, raced>>

Commit(r) ==
  /\ pc[r] = "commit"
  /\ polls' = [polls EXCEPT ![r] = 0]
  /\ IF CanCommit(at[r]) THEN StartCommit(at[r]) /\ Goto(r, "wait")
     ELSE Fail(r) /\ UNCHANGED hostVars
  /\ UNCHANGED <<spent, op, at, paths, wasPersistent, saved, raced>>

\* Mutant: only polls that were answered count towards the hour.
WaitTimeoutIfRunning(r) ==
  /\ pc[r] = "wait"
  /\ dom = "on"
  /\ Spend("stall")
  /\ NextDisk(r, "commit", "delete")
  /\ UNCHANGED <<hostVars, op, paths, polls, wasPersistent, saved, raced>>

(***************************************************************************)
(* waitBlockCommitActive.  Of a domain that is not running the job         *)
(* information is an error, which is polled again until the hour is over;  *)
(* of a running one it takes a stall to get that far.  Either way the loop *)
(* in MakeBackup goes on to the next disk, without pivoting this one.      *)
(***************************************************************************)
WaitTimeout(r) ==
  /\ pc[r] = "wait"
  /\ IF dom = "on" THEN Spend("stall") ELSE UNCHANGED spent
  /\ NextDisk(r, "commit", "delete")
  /\ UNCHANGED <<hostVars, op, paths, polls, wasPersistent, saved, raced>>

\* A poll sees the job complete.
PollReady(r) ==
  /\ pc[r] = "wait"
  /\ polls[r] < Retries
  /\ dom = "on" /\ job[at[r]] \in {"ready", "pivoting"}
  /\ polls' = [polls EXCEPT ![r] = @ + 1]
  /\ UNCHANGED <<hostVars, spent, pc, op, at, paths, wasPersistent, saved, raced>>

\* Three such polls end the wait, and so does a job that is not there:
\* "stopped unexpectedly" is no failure.
WaitEnds(r) ==
  /\ pc[r] = "wait"
  /\ polls[r] = Retries \/ (dom = "on" /\ job[at[r]] = "none")
  /\ Goto(r, "pivot")
  /\ UNCHANGED <<hostVars, spent, localVars, saved, raced>>

\* Mutant: a pivot that fails is only logged.
PivotErrorIgnored(r) ==
  /\ pc[r] = "pivot"
  /\ IF CanPivot(at[r]) THEN StartPivot(at[r]) ELSE UNCHANGED hostVars
  /\ NextDisk(r, "commit", "delete")
  /\ UNCHANGED <<spent, op, paths, polls, wasPersistent, saved, raced>>

Pivot(r) ==
  /\ pc[r] = "pivot"
  /\ IF CanPivot(at[r]) THEN StartPivot(at[r]) /\ NextDisk(r, "commit", "delete")
     ELSE Fail(r) /\ UNCHANGED <<hostVars, at>>
  /\ UNCHANGED <<spent, op, paths, polls, wasPersistent, saved, raced>>

(***************************************************************************)
(* deleteTemporaryExternalSnapshot: what was listed before the commits is  *)
(* deleted if it is named as an overlay under /var/lib/libvirt/.           *)
(***************************************************************************)
Delete(r) ==
  /\ pc[r] = "delete"
  /\ IF at[r] \notin LibvirtDir \/ paths[r][at[r]] = 0
     THEN NextDisk(r, "delete", "verify") /\ UNCHANGED hostVars
     ELSE IF Path(r) \in files /\ at[r] \in InPool
          THEN RemoveFile(Path(r)) /\ NextDisk(r, "delete", "verify")
          ELSE Fail(r) /\ UNCHANGED <<hostVars, at>>
  /\ UNCHANGED <<spent, op, paths, polls, wasPersistent, saved, raced>>

\* Mutant: the last look at the disks is left out.
VerifyNothing(r) ==
  /\ pc[r] = "verify"
  /\ Goto(r, "ok")
  /\ UNCHANGED <<hostVars, spent, localVars, saved, raced>>

\* "T_T domain backup job failed miserably"
Verify(r) ==
  /\ pc[r] = "verify"
  /\ IF dom # "absent" /\ \A d \in Disk : top[d] = 0 THEN Goto(r, "ok") ELSE Fail(r)
  /\ UNCHANGED <<hostVars, spent, localVars, saved, raced>>

-----------------------------------------------------------------------------
(***************************************************************************)
(* destroyAndUndefineDomain, and the removal of the volumes.               *)
(***************************************************************************)
ReadPersistent(r) ==
  /\ pc[r] = "persist"
  /\ \E answer \in BOOLEAN :
       /\ Told(answer, dom # "absent" /\ persistent)
       /\ wasPersistent' = [wasPersistent EXCEPT ![r] = answer]
  /\ Goto(r, "active")
  /\ UNCHANGED <<hostVars, op, at, paths, polls, saved, raced>>

AfterKill(r) == IF wasPersistent[r] THEN "undefine" ELSE "pools"

ReadActive(r) ==
  /\ pc[r] = "active"
  /\ \E active \in BOOLEAN :
       /\ Told(active, dom = "on")
       /\ Goto(r, IF active THEN "kill" ELSE AfterKill(r))
  /\ UNCHANGED <<hostVars, localVars, saved, raced>>

Kill(r) ==
  /\ pc[r] = "kill"
  /\ IF dom = "on" THEN PowerOff /\ Goto(r, AfterKill(r))
     ELSE Fail(r) /\ UNCHANGED hostVars
  /\ UNCHANGED <<spent, localVars, saved, raced>>

UndefineDomain(r) ==
  /\ pc[r] = "undefine"
  /\ IF dom # "absent" /\ persistent THEN Undefine /\ Goto(r, "pools")
     ELSE Fail(r) /\ UNCHANGED hostVars
  /\ UNCHANGED <<spent, localVars, saved, raced>>

ListPools(r) ==
  /\ pc[r] = "pools"
  /\ IF InPool = {} THEN Fail(r) ELSE Goto(r, "erase")
  /\ UNCHANGED <<hostVars, spent, localVars, saved, raced>>

\* A volume that cannot be deleted is passed over.
Erase(r) ==
  /\ pc[r] = "erase"
  /\ IF at[r] \in InPool /\ Path(r) \in files
     THEN \/ RemoveFile(Path(r)) /\ UNCHANGED spent
          \/ UNCHANGED hostVars /\ Spend("fault")
     ELSE UNCHANGED <<hostVars, spent>>
  /\ NextDisk(r, "erase", "confirm")
  /\ UNCHANGED <<op, paths, polls, wasPersistent, saved, raced>>

\* A volume that is still found is reported with the error of a lookup that
\* succeeded: the nil error is dereferenced.
Confirm(r) ==
  /\ pc[r] = "confirm"
  /\ \/ /\ \A d \in InPool : <<d, paths[r][d]>> \notin files
        /\ Goto(r, "ok")
        /\ UNCHANGED spent
     \/ /\ \E d \in InPool : <<d, paths[r][d]>> \in files
        /\ \/ Goto(r, "panic") /\ UNCHANGED spent
           \/ Goto(r, "ok") /\ Spend("fault")
  /\ UNCHANGED <<hostVars, localVars, saved, raced>>

-----------------------------------------------------------------------------
(***************************************************************************)
(* Start and Shutdown.                                                     *)
(***************************************************************************)
Create(r) ==
  /\ pc[r] = "create"
  /\ IF CanStart THEN PowerOn /\ Goto(r, "ok") ELSE Fail(r) /\ UNCHANGED hostVars
  /\ UNCHANGED <<spent, localVars, saved, raced>>

Ask(r) ==
  /\ pc[r] = "ask"
  /\ IF dom = "on" THEN AskPowerOff /\ Goto(r, "ok") ELSE Fail(r) /\ UNCHANGED hostVars
  /\ UNCHANGED <<spent, localVars, saved, raced>>

-----------------------------------------------------------------------------
\* Every other call whose error the handler returns.
Fallible == {"lookup", "jobs", "overlay", "paths", "snapshot", "open", "copy", "relist",
             "commit", "pivot", "delete", "verify", "kill", "undefine", "pools",
             "create", "ask"}

Fault(r) ==
  /\ pc[r] \in Fallible
  /\ Spend("fault")
  /\ Fail(r)
  /\ UNCHANGED <<hostVars, localVars, saved, raced>>

\* The daemon is killed: handlers in progress are gone, the domain is not.
Crash ==
  /\ \E r \in Req : pc[r] \notin Ended \union {"idle"}
  /\ Spend("crash")
  /\ pc' = [r \in Req |-> IF pc[r] \in Ended \union {"idle"} THEN pc[r] ELSE "lost"]
  /\ UNCHANGED <<hostVars, localVars, saved, raced>>

Check(r) == Lookup(r) \/ Power(r) \/ Jobs(r) \/ Job(r) \/ Overlay(r) \/ Paths(r)

Backup(r) ==
  \/ Open(r) \/ Copy(r) \/ Snapshot(r) \/ Relist(r)
  \/ Commit(r) \/ WaitTimeout(r) \/ PollReady(r) \/ WaitEnds(r) \/ Pivot(r)
  \/ Delete(r) \/ Verify(r)

Destroy(r) ==
  \/ ReadPersistent(r) \/ ReadActive(r) \/ Kill(r) \/ UndefineDomain(r)
  \/ ListPools(r) \/ Erase(r) \/ Confirm(r)

Step(r) == Check(r) \/ Backup(r) \/ Destroy(r) \/ Create(r) \/ Ask(r)

Host == HostStep /\ UNCHANGED <<pc, localVars, saved, raced>>

\* All requests are answered; what is left to happen happens outside.
Finished == (\A r \in Req : pc[r] \in Ended) /\ UNCHANGED vars

Next ==
  \/ \E r \in Req : Enter(r) \/ Step(r) \/ Fault(r)
  \/ Crash
  \/ Host
  \/ Finished

Safe == Init /\ [][Next]_vars

\* A handler once entered goes on, and the hour of waitBlockCommitActive ends.
Served == Safe /\ \A r \in Req : WF_vars(Step(r))

\* QEMU, too, ends what it was told to do.
Settled ==
  Served /\ \A d \in Disk :
    /\ WF_vars(JobReady(d) /\ UNCHANGED <<pc, localVars, saved, raced>>)
    /\ WF_vars(PivotCompletes(d) /\ UNCHANGED <<pc, localVars, saved, raced>>)

-----------------------------------------------------------------------------
(***************************************************************************)
(* Properties.                                                             *)
(***************************************************************************)

(***************************************************************************)
(* What MakeBackup compresses holds still: the image it is reading is      *)
(* neither the guest's active layer nor the target of a commit job, so the *)
(* copy is not torn, whatever is started, stopped, destroyed or backed up  *)
(* meanwhile, as long as no snapshot was taken while another MakeBackup    *)
(* was between its checks and its own (jrpc.go:1035): then a copy may be   *)
(* torn.                                                                   *)
(***************************************************************************)
BackupReadsQuietImage ==
  ~raced => \A r \in Req :
    op[r] = "MakeBackup" /\ pc[r] = "copy" =>
      ~BeingWritten(at[r], paths[r][at[r]])

(***************************************************************************)
(* The domain never points to an image that is gone: every layer below the *)
(* active one exists, and that one too unless a pivot is leaving it.  This *)
(* survives failing calls, misread states, aborted jobs and crashes; it    *)
(* takes a commit that stalls for an hour, a guest that powers off, a      *)
(* pivot that fails, a Destroy or two MakeBackups that raced to break it.  *)
(***************************************************************************)
Steady ==
  /\ \A a \in {"stall", "off", "pivotfail"} : spent[a] = 0
  /\ \A r \in Req : op[r] \notin {"Shutdown", "Destroy"}

ChainIntact ==
  Steady /\ ~raced =>
    \A d \in Disk : \A n \in 0..top[d] :
      <<d, n>> \in files \/ (n = top[d] /\ job[d] = "pivoting")

Succeeds(r) == op[r] = "MakeBackup" /\ pc[r] # "ok" /\ pc'[r] = "ok"

Complete(r) ==
  \A d \in Disk :
    /\ top[d] = 0
    /\ <<d, 0>> \in saved
    /\ \/ d \in LibvirtDir => <<d, 1>> \notin files
       \/ \E q \in Req \ {r} : op[q] = "MakeBackup" /\ pc[q] # "ok"

(***************************************************************************)
(* MakeBackup returns TRUE only when every base image was compressed to    *)
(* the end, every disk is back on its base image, and the overlays it is   *)
(* allowed to delete are gone, unless they are those of another MakeBackup *)
(* that is under way or failed.                                            *)
(***************************************************************************)
SuccessfulBackupIsComplete == [][\A r \in Req : Succeeds(r) => Complete(r)]_vars

(***************************************************************************)
(* No base image is ever deleted that was not compressed before, by        *)
(* whatever mix of requests, crashes and failing calls.                    *)
(***************************************************************************)
DestroyedImagesWereSaved ==
  \A d \in Disk : <<d, 0>> \notin files => <<d, 0>> \in saved

(***************************************************************************)
(* What an unfinished backup leaves on top of a disk stays for good: once  *)
(* no handler is past its sanity checks and no job runs, no handler, old   *)
(* or new, gets past them, deletes an image or moves a disk to another     *)
(* layer.  Nothing in the API ever repairs the domain, or damages it.      *)
(***************************************************************************)
LeftOver ==
  /\ \E d \in Disk : top[d] > 0
  /\ \A d \in Disk : job[d] = "none"
  /\ \A r \in Req : pc[r] \notin Committed

LeftOverStays ==
  [][LeftOver => LeftOver' /\ UNCHANGED <<files, top>>]_vars

(***************************************************************************)
(* Every request that is entered ends, even when a job never gets ready or *)
(* the domain disappears under it.                                         *)
(***************************************************************************)
EveryRequestEnds ==
  \A r \in Req : pc[r] = "lookup" ~> pc[r] \in Ended

(***************************************************************************)
(* With nothing going wrong and nobody powering the domain off, a          *)
(* MakeBackup that took its snapshot commits all disks, and they return to *)
(* their base images for good, whatever it answers (it may look at the     *)
(* disks before the last pivot is done).                                   *)
(***************************************************************************)
Undisturbed ==
  /\ \A a \in Adversity : spent[a] = 0
  /\ \A r \in Req : op[r] \notin {"Shutdown", "Destroy"}

BackupCommits ==
  []Undisturbed => \A r \in Req : pc[r] = "relist" ~> pc[r] = "delete"

BackupReturnsToBase ==
  []Undisturbed =>
    \A r \in Req :
      pc[r] = "relist" ~> [](\A d \in Disk : top[d] = 0 /\ ChainPresent(d))

(***************************************************************************)
(* A statement of the repository that the code does not keep.              *)
(***************************************************************************)

\* jrpc.go:991, "get active disk list after merge, original disk should be
\* active": when all is over, no disk is left on an overlay that was deleted.
DeletedOverlayIsInactive ==
  (\A r \in Req : pc[r] \in Ended) =>
    \A d \in Disk : job[d] = "none" => <<d, top[d]>> \in files
=============================================================================
