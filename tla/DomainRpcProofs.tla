--------------------------- MODULE DomainRpcProofs ---------------------------
(***************************************************************************)
(* Safety of the handlers of DomainRpc for any set of requests, any plan   *)
(* of operations, any number of disks and any budget of adversities.       *)
(***************************************************************************)
EXTENDS DomainRpc, TLAPS, FiniteSetTheorems

(***************************************************************************)
(* A commit job merges an overlay: it runs on no base image.               *)
(***************************************************************************)
JobOK == \A d \in Disk : job[d] # "none" => top[d] > 0

(***************************************************************************)
(* How far the loops over the disks are.  A handler begins every loop at   *)
(* the first disk; while it compresses, the disks before at[r] are done,   *)
(* and afterwards all of them are.                                         *)
(***************************************************************************)
BeforeCopy == {"idle", "lookup", "power", "jobs", "overlay", "paths", "snapshot"}
AfterCopy == {"persist", "active", "kill", "undefine", "pools", "erase", "confirm"}

CopyOK ==
  \A r \in Req :
    /\ pc[r] \in BeforeCopy => at[r] = 1
    /\ pc[r] \in {"open", "copy"} =>
         \A d \in Disk : d < at[r] => <<d, paths[r][d]>> \in saved
    /\ pc[r] \in AfterCopy => \A d \in Disk : <<d, paths[r][d]>> \in saved

IInv == TypeOK /\ JobOK /\ CopyOK /\ DestroyedImagesWereSaved

-----------------------------------------------------------------------------
(***************************************************************************)
(* The disks, as far as the loops need to know them.                       *)
(***************************************************************************)
LEMMA DiskFacts ==
  /\ 1 \in Disk
  /\ \A d \in Disk : d \in Nat
  /\ \A d \in Disk : d < NDisks => d + 1 \in Disk
  /\ \A d, e \in Disk : ~(e < NDisks) => d < e \/ d = e
  /\ \A d, e \in Disk : d < e + 1 => d < e \/ d = e
  /\ \A d \in Disk : ~(d < 1)
BY DiskAssumption DEF Disk

(***************************************************************************)
(* Counting an adversity keeps the counters' type.                         *)
(***************************************************************************)
LEMMA SpendTyped ==
  ASSUME HostTypeOK, NEW a \in Adversity, Spend(a)
  PROVE  spent' \in [Adversity -> Nat]
BY BudgetAssumption DEF HostTypeOK, Spend

(***************************************************************************)
(* A loop over the disks does not run past the last one.                   *)
(***************************************************************************)
LEMMA NextDiskTyped ==
  ASSUME TypeOK, NEW r \in Req, NEW label \in Label, NEW done \in Label,
         NextDisk(r, label, done)
  PROVE  pc' \in [Req -> Label] /\ at' \in [Req -> Disk]
<1>1. at \in [Req -> Disk] /\ pc \in [Req -> Label] /\ at[r] \in Disk
  BY DEF TypeOK, LocalTypeOK
<1>2. CASE at[r] < NDisks
  BY <1>1, <1>2, DiskFacts DEF NextDisk, Goto
<1>3. CASE ~(at[r] < NDisks)
  BY <1>1, <1>3, DiskFacts DEF NextDisk, Goto
<1>4. QED
  BY <1>2, <1>3

(***************************************************************************)
(* A power-off keeps the types: a pivot it completes leaves an overlay.    *)
(***************************************************************************)
LEMMA PowerOffTyped ==
  ASSUME HostTypeOK, JobOK, PowerOff
  PROVE  /\ dom' \in {"absent", "off", "on"}
         /\ persistent' \in BOOLEAN
         /\ top' \in [Disk -> Nat]
         /\ files' \subseteq Disk \X Nat
         /\ job' \in [Disk -> {"none", "running", "ready", "pivoting"}]
         /\ acpi' \in BOOLEAN
         /\ JobOK' /\ files' = files
<1>1. /\ dom' \in {"absent", "off", "on"}
      /\ persistent' \in BOOLEAN
      /\ acpi' \in BOOLEAN
      /\ files' \subseteq Disk \X Nat
      /\ files' = files
  BY DEF HostTypeOK, PowerOff
<1>2. job' = [d \in Disk |-> "none"]
  BY DEF PowerOff
<1>3. PICK pivoted \in SUBSET {d \in Disk : job[d] = "pivoting"} :
        top' = [d \in Disk |-> IF d \in pivoted THEN top[d] - 1 ELSE top[d]]
  BY DEF PowerOff
<1>4. \A d \in Disk : top[d] \in Nat /\ (d \in pivoted => top[d] - 1 \in Nat)
  BY DEF HostTypeOK, JobOK
<1>5. top' \in [Disk -> Nat]
  BY <1>3, <1>4
<1>6. QED
  BY <1>1, <1>2, <1>5 DEF JobOK

(***************************************************************************)
(* The environment keeps the types and JobOK, and touches no image.        *)
(***************************************************************************)
LEMMA HostTyped ==
  ASSUME HostTypeOK, JobOK, HostStep
  PROVE  HostTypeOK' /\ JobOK' /\ files' = files
<1> USE DiskFacts DEF HostTypeOK, JobOK, Adversity
<1>1. CASE GuestPowersOff
  BY <1>1, PowerOffTyped, SpendTyped DEF GuestPowersOff
<1>2. ASSUME NEW d \in Disk, JobReady(d) PROVE HostTypeOK' /\ JobOK' /\ files' = files
  BY <1>2 DEF JobReady
<1>3. ASSUME NEW d \in Disk, PivotCompletes(d) PROVE HostTypeOK' /\ JobOK' /\ files' = files
  BY <1>3 DEF PivotCompletes
<1>4. ASSUME NEW d \in Disk, JobAborts(d) PROVE HostTypeOK' /\ JobOK' /\ files' = files
  BY <1>4 DEF JobAborts, Spend
<1>5. ASSUME NEW d \in Disk, PivotFails(d) PROVE HostTypeOK' /\ JobOK' /\ files' = files
  BY <1>5 DEF PivotFails, Spend
<1>6. QED
  BY <1>1, <1>2, <1>3, <1>4, <1>5 DEF HostStep

(***************************************************************************)
(* The domain and its disks after a step of a handler.                     *)
(***************************************************************************)
LEMMA HostTypeStep == TypeOK /\ JobOK /\ [Next]_vars => HostTypeOK' /\ JobOK'
<1> SUFFICES ASSUME TypeOK, JobOK, [Next]_vars PROVE HostTypeOK' /\ JobOK'
  OBVIOUS
<1>a. HostTypeOK
  BY DEF TypeOK
<1>b. \A a \in Adversity : Spend(a) => spent' \in [Adversity -> Nat]
  BY <1>a, SpendTyped
<1>c. {"fault", "misread", "stall", "crash"} \subseteq Adversity
  BY DEF Adversity
<1>d. UNCHANGED hostVars /\ spent' \in [Adversity -> Nat] => HostTypeOK' /\ JobOK'
  BY <1>a DEF HostTypeOK, JobOK, hostVars
<1>e. UNCHANGED spent => spent' \in [Adversity -> Nat]
  BY <1>a DEF HostTypeOK
<1>1. ASSUME NEW r \in Req, Enter(r) PROVE HostTypeOK' /\ JobOK'
  BY <1>1, <1>b, <1>c, <1>d, <1>e DEF Enter
<1>2. ASSUME NEW r \in Req, Lookup(r) PROVE HostTypeOK' /\ JobOK'
  BY <1>2, <1>b, <1>c, <1>d, <1>e DEF Lookup
<1>3. ASSUME NEW r \in Req, Power(r) PROVE HostTypeOK' /\ JobOK'
  BY <1>3, <1>b, <1>c, <1>d, <1>e DEF Power, Told
<1>4. ASSUME NEW r \in Req, Jobs(r) PROVE HostTypeOK' /\ JobOK'
  BY <1>4, <1>b, <1>c, <1>d, <1>e DEF Jobs, Told
<1>5. ASSUME NEW r \in Req, Job(r) PROVE HostTypeOK' /\ JobOK'
  BY <1>5, <1>b, <1>c, <1>d, <1>e DEF Job
<1>6. ASSUME NEW r \in Req, Overlay(r) PROVE HostTypeOK' /\ JobOK'
  BY <1>6, <1>b, <1>c, <1>d, <1>e DEF Overlay
<1>7. ASSUME NEW r \in Req, Paths(r) PROVE HostTypeOK' /\ JobOK'
  BY <1>7, <1>b, <1>c, <1>d, <1>e DEF Paths
<1>8. ASSUME NEW r \in Req, Open(r) PROVE HostTypeOK' /\ JobOK'
  BY <1>8, <1>b, <1>c, <1>d, <1>e DEF Open
<1>9. ASSUME NEW r \in Req, Copy(r) PROVE HostTypeOK' /\ JobOK'
  BY <1>9, <1>b, <1>c, <1>d, <1>e DEF Copy
<1>10. ASSUME NEW r \in Req, Snapshot(r) PROVE HostTypeOK' /\ JobOK'
  <2>1. CASE UNCHANGED hostVars
    BY <1>10, <2>1, <1>b, <1>c, <1>d, <1>e DEF Snapshot
  <2>2. CASE CanSnapshot /\ TakeSnapshot
    <3>1. UNCHANGED spent
      BY <1>10, <2>2 DEF Snapshot
    <3>2. \A d \in Disk : top[d] \in Nat /\ top[d] + 1 \in Nat
      BY <1>a DEF HostTypeOK
    <3>3. top' \in [Disk -> Nat]
      BY <2>2, <3>2 DEF TakeSnapshot
    <3>4. {<<d, top[d] + 1>> : d \in Writable} \subseteq Disk \X Nat
      BY <3>2, DiskAssumption
    <3>5. files' \subseteq Disk \X Nat
      BY <2>2, <3>4, <1>a DEF TakeSnapshot, HostTypeOK
    <3>6. \A d \in Disk : top'[d] \in {top[d], top[d] + 1}
      BY <2>2 DEF TakeSnapshot
    <3>7. JobOK'
      BY <2>2, <3>2, <3>6 DEF TakeSnapshot, JobOK
    <3>8. QED
      BY <3>1, <3>3, <3>5, <3>7, <2>2, <1>a, <1>e DEF TakeSnapshot, HostTypeOK
  <2>3. QED
    BY <1>10, <2>1, <2>2 DEF Snapshot
<1>11. ASSUME NEW r \in Req, Relist(r) PROVE HostTypeOK' /\ JobOK'
  BY <1>11, <1>b, <1>c, <1>d, <1>e DEF Relist
<1>12. ASSUME NEW r \in Req, Commit(r) PROVE HostTypeOK' /\ JobOK'
  <2>1. CASE UNCHANGED hostVars
    BY <1>12, <2>1, <1>b, <1>c, <1>d, <1>e DEF Commit
  <2>2. CASE CanCommit(at[r]) /\ StartCommit(at[r])
    <3>1. UNCHANGED spent /\ at[r] \in Disk
      BY <1>12, <2>2 DEF Commit, TypeOK, LocalTypeOK
    <3>2. QED
      BY <3>1, <2>2, <1>a, <1>e DEF CanCommit, StartCommit, HostTypeOK, JobOK
  <2>3. QED
    BY <1>12, <2>1, <2>2 DEF Commit
<1>13. ASSUME NEW r \in Req, WaitTimeout(r) PROVE HostTypeOK' /\ JobOK'
  BY <1>13, <1>b, <1>c, <1>d, <1>e DEF WaitTimeout
<1>14. ASSUME NEW r \in Req, PollReady(r) PROVE HostTypeOK' /\ JobOK'
  BY <1>14, <1>b, <1>c, <1>d, <1>e DEF PollReady
<1>15. ASSUME NEW r \in Req, WaitEnds(r) PROVE HostTypeOK' /\ JobOK'
  BY <1>15, <1>b, <1>c, <1>d, <1>e DEF WaitEnds
<1>16. ASSUME NEW r \in Req, Pivot(r) PROVE HostTypeOK' /\ JobOK'
  <2>1. CASE UNCHANGED hostVars
    BY <1>16, <2>1, <1>b, <1>c, <1>d, <1>e DEF Pivot
  <2>2. CASE CanPivot(at[r]) /\ StartPivot(at[r])
    <3>1. UNCHANGED spent /\ at[r] \in Disk
      BY <1>16, <2>2 DEF Pivot, TypeOK, LocalTypeOK
    <3>2. QED
      BY <3>1, <2>2, <1>a, <1>e DEF CanPivot, StartPivot, HostTypeOK, JobOK
  <2>3. QED
    BY <1>16, <2>1, <2>2 DEF Pivot
<1>17. ASSUME NEW r \in Req, Delete(r) PROVE HostTypeOK' /\ JobOK'
  <2>1. CASE UNCHANGED hostVars
    BY <1>17, <2>1, <1>b, <1>c, <1>d, <1>e DEF Delete
  <2>2. CASE RemoveFile(Path(r))
    <3>1. UNCHANGED spent
      BY <1>17, <2>2 DEF Delete
    <3>2. QED
      BY <3>1, <2>2, <1>a, <1>e DEF RemoveFile, HostTypeOK, JobOK
  <2>3. QED
    BY <1>17, <2>1, <2>2 DEF Delete
<1>18. ASSUME NEW r \in Req, Verify(r) PROVE HostTypeOK' /\ JobOK'
  BY <1>18, <1>b, <1>c, <1>d, <1>e DEF Verify
<1>19. ASSUME NEW r \in Req, ReadPersistent(r) PROVE HostTypeOK' /\ JobOK'
  BY <1>19, <1>b, <1>c, <1>d, <1>e DEF ReadPersistent, Told
<1>20. ASSUME NEW r \in Req, ReadActive(r) PROVE HostTypeOK' /\ JobOK'
  BY <1>20, <1>b, <1>c, <1>d, <1>e DEF ReadActive, Told
<1>21. ASSUME NEW r \in Req, Kill(r) PROVE HostTypeOK' /\ JobOK'
  <2>1. CASE UNCHANGED hostVars
    BY <1>21, <2>1, <1>b, <1>c, <1>d, <1>e DEF Kill
  <2>2. CASE PowerOff
    <3>1. UNCHANGED spent
      BY <1>21, <2>2 DEF Kill
    <3>2. QED
      BY <3>1, <2>2, <1>a, <1>e, PowerOffTyped DEF HostTypeOK
  <2>3. QED
    BY <1>21, <2>1, <2>2 DEF Kill
<1>22. ASSUME NEW r \in Req, UndefineDomain(r) PROVE HostTypeOK' /\ JobOK'
  <2>1. CASE UNCHANGED hostVars
    BY <1>22, <2>1, <1>b, <1>c, <1>d, <1>e DEF UndefineDomain
  <2>2. CASE Undefine
    <3>1. UNCHANGED spent
      BY <1>22, <2>2 DEF UndefineDomain
    <3>2. QED
      BY <3>1, <2>2, <1>a, <1>e DEF Undefine, HostTypeOK, JobOK
  <2>3. QED
    BY <1>22, <2>1, <2>2 DEF UndefineDomain
<1>23. ASSUME NEW r \in Req, ListPools(r) PROVE HostTypeOK' /\ JobOK'
  BY <1>23, <1>b, <1>c, <1>d, <1>e DEF ListPools
<1>24. ASSUME NEW r \in Req, Erase(r) PROVE HostTypeOK' /\ JobOK'
  <2>1. CASE UNCHANGED hostVars
    BY <1>24, <2>1, <1>b, <1>c, <1>d, <1>e DEF Erase
  <2>2. CASE RemoveFile(Path(r)) /\ UNCHANGED spent
    <3>1. UNCHANGED spent
      BY <1>24, <2>2 DEF Erase
    <3>2. QED
      BY <3>1, <2>2, <1>a, <1>e DEF RemoveFile, HostTypeOK, JobOK
  <2>3. QED
    BY <1>24, <2>1, <2>2 DEF Erase
<1>25. ASSUME NEW r \in Req, Confirm(r) PROVE HostTypeOK' /\ JobOK'
  BY <1>25, <1>b, <1>c, <1>d, <1>e DEF Confirm
<1>26. ASSUME NEW r \in Req, Create(r) PROVE HostTypeOK' /\ JobOK'
  <2>1. CASE UNCHANGED hostVars
    BY <1>26, <2>1, <1>b, <1>c, <1>d, <1>e DEF Create
  <2>2. CASE PowerOn
    <3>1. UNCHANGED spent
      BY <1>26, <2>2 DEF Create
    <3>2. QED
      BY <3>1, <2>2, <1>a, <1>e DEF PowerOn, HostTypeOK, JobOK
  <2>3. QED
    BY <1>26, <2>1, <2>2 DEF Create
<1>27. ASSUME NEW r \in Req, Ask(r) PROVE HostTypeOK' /\ JobOK'
  <2>1. CASE UNCHANGED hostVars
    BY <1>27, <2>1, <1>b, <1>c, <1>d, <1>e DEF Ask
  <2>2. CASE AskPowerOff
    <3>1. UNCHANGED spent
      BY <1>27, <2>2 DEF Ask
    <3>2. QED
      BY <3>1, <2>2, <1>a, <1>e DEF AskPowerOff, HostTypeOK, JobOK
  <2>3. QED
    BY <1>27, <2>1, <2>2 DEF Ask
<1>28. ASSUME NEW r \in Req, Fault(r) PROVE HostTypeOK' /\ JobOK'
  BY <1>28, <1>b, <1>c, <1>d, <1>e DEF Fault
<1>29. CASE Crash
  BY <1>29, <1>b, <1>c, <1>d DEF Crash
<1>30. CASE Host
  BY <1>30, <1>a, HostTyped DEF Host
<1>31. CASE UNCHANGED vars
  BY <1>31, <1>d, <1>e DEF vars
<1>32. QED
  BY <1>1, <1>2, <1>3, <1>4, <1>5, <1>6, <1>7, <1>8, <1>9, <1>10, <1>11, <1>12,
     <1>13, <1>14, <1>15, <1>16, <1>17, <1>18, <1>19, <1>20, <1>21, <1>22, <1>23,
     <1>24, <1>25, <1>26, <1>27, <1>28, <1>29, <1>30, <1>31
  DEF Next, Step, Check, Backup, Destroy, Finished

(***************************************************************************)
(* The labels that handlers move to are labels.                            *)
(***************************************************************************)
LEMMA LabelFacts ==
  /\ {"lookup", "refused", "error", "power", "jobs", "job", "overlay", "create", "ask",
      "ok", "panic", "lost"} \subseteq Label
  /\ Committed \subseteq Label
BY DEF Label, Ended

(***************************************************************************)
(* Every step keeps the types of the handlers' variables.                  *)
(***************************************************************************)
LEMMA LocalTypeStep == TypeOK /\ [Next]_vars => LocalTypeOK'
<1> SUFFICES ASSUME TypeOK, [Next]_vars PROVE LocalTypeOK'
  OBVIOUS
<1> USE LabelFacts DEF TypeOK, LocalTypeOK, localVars, Committed
<1>1. ASSUME NEW r \in Req, Enter(r) PROVE LocalTypeOK'
  <2>1. PICK o \in Plan[r] : op' = [op EXCEPT ![r] = o]
    BY <1>1 DEF Enter
  <2>2. o \in Op
    BY PlanAssumption
  <2>3. op' \in [Req -> Op \union {"none"}]
    BY <2>1, <2>2
  <2>4. pc' \in [Req -> Label]
    BY <1>1 DEF Enter, Goto
  <2>5. QED
    BY <1>1, <2>3, <2>4 DEF Enter
<1>2. ASSUME NEW r \in Req, Lookup(r) PROVE LocalTypeOK'
  BY <1>2 DEF Lookup, Fail, Goto
<1>3. ASSUME NEW r \in Req, Power(r) PROVE LocalTypeOK'
  BY <1>3 DEF Power, Fail, Goto
<1>4. ASSUME NEW r \in Req, Jobs(r) PROVE LocalTypeOK'
  BY <1>4 DEF Jobs, AfterJobs, Goto
<1>5. ASSUME NEW r \in Req, Job(r) PROVE LocalTypeOK'
  BY <1>5, NextDiskTyped DEF Job, AfterJobs, Fail, Goto
<1>6. ASSUME NEW r \in Req, Overlay(r) PROVE LocalTypeOK'
  BY <1>6 DEF Overlay, Fail, Goto
<1>7. ASSUME NEW r \in Req, Paths(r) PROVE LocalTypeOK'
  <2>1. pc' \in [Req -> Label]
    BY <1>7 DEF Paths, Fail, Goto
  <2>2. paths' \in [Req -> [Disk -> Nat]]
    BY <1>7 DEF Paths, ReadPaths, HostTypeOK
  <2>3. UNCHANGED <<op, at, polls, wasPersistent, saved, raced>>
    BY <1>7 DEF Paths
  <2>4. QED
    BY <2>1, <2>2, <2>3
<1>8. ASSUME NEW r \in Req, Open(r) PROVE LocalTypeOK'
  BY <1>8 DEF Open, Fail, Goto
<1>9. ASSUME NEW r \in Req, Copy(r) PROVE LocalTypeOK'
  <2>1. Path(r) \in Disk \X Nat
    BY DEF Path
  <2>2. saved' \subseteq Disk \X Nat
    BY <1>9, <2>1 DEF Copy
  <2>3. pc' \in [Req -> Label] /\ at' \in [Req -> Disk]
    BY <1>9, NextDiskTyped DEF Copy
  <2>4. QED
    BY <1>9, <2>2, <2>3 DEF Copy
<1>10. ASSUME NEW r \in Req, Snapshot(r) PROVE LocalTypeOK'
  BY <1>10 DEF Snapshot, Fail, Goto
<1>11. ASSUME NEW r \in Req, Relist(r) PROVE LocalTypeOK'
  BY <1>11 DEF Relist, ReadPaths, Fail, Goto, HostTypeOK
<1>12. ASSUME NEW r \in Req, Commit(r) PROVE LocalTypeOK'
  BY <1>12 DEF Commit, Fail, Goto, Retries
<1>13. ASSUME NEW r \in Req, WaitTimeout(r) PROVE LocalTypeOK'
  BY <1>13, NextDiskTyped DEF WaitTimeout, Goto
<1>14. ASSUME NEW r \in Req, PollReady(r) PROVE LocalTypeOK'
  BY <1>14 DEF PollReady, Retries
<1>15. ASSUME NEW r \in Req, WaitEnds(r) PROVE LocalTypeOK'
  BY <1>15 DEF WaitEnds, Goto
<1>16. ASSUME NEW r \in Req, Pivot(r) PROVE LocalTypeOK'
  BY <1>16, NextDiskTyped DEF Pivot, Fail, Goto
<1>17. ASSUME NEW r \in Req, Delete(r) PROVE LocalTypeOK'
  BY <1>17, NextDiskTyped DEF Delete, Fail, Goto
<1>18. ASSUME NEW r \in Req, Verify(r) PROVE LocalTypeOK'
  BY <1>18 DEF Verify, Fail, Goto
<1>19. ASSUME NEW r \in Req, ReadPersistent(r) PROVE LocalTypeOK'
  BY <1>19 DEF ReadPersistent, Goto
<1>20. ASSUME NEW r \in Req, ReadActive(r) PROVE LocalTypeOK'
  BY <1>20 DEF ReadActive, AfterKill, Goto
<1>21. ASSUME NEW r \in Req, Kill(r) PROVE LocalTypeOK'
  BY <1>21 DEF Kill, AfterKill, Fail, Goto
<1>22. ASSUME NEW r \in Req, UndefineDomain(r) PROVE LocalTypeOK'
  BY <1>22 DEF UndefineDomain, Fail, Goto
<1>23. ASSUME NEW r \in Req, ListPools(r) PROVE LocalTypeOK'
  BY <1>23 DEF ListPools, Fail, Goto
<1>24. ASSUME NEW r \in Req, Erase(r) PROVE LocalTypeOK'
  BY <1>24, NextDiskTyped DEF Erase, Goto
<1>25. ASSUME NEW r \in Req, Confirm(r) PROVE LocalTypeOK'
  BY <1>25 DEF Confirm, Goto
<1>26. ASSUME NEW r \in Req, Create(r) PROVE LocalTypeOK'
  BY <1>26 DEF Create, Fail, Goto
<1>27. ASSUME NEW r \in Req, Ask(r) PROVE LocalTypeOK'
  BY <1>27 DEF Ask, Fail, Goto
<1>28. ASSUME NEW r \in Req, Fault(r) PROVE LocalTypeOK'
  BY <1>28 DEF Fault, Fail, Goto
<1>29. CASE Crash
  BY <1>29 DEF Crash
<1>30. CASE Host
  BY <1>30 DEF Host
<1>31. CASE UNCHANGED vars
  BY <1>31 DEF vars
<1>32. QED
  BY <1>1, <1>2, <1>3, <1>4, <1>5, <1>6, <1>7, <1>8, <1>9, <1>10, <1>11, <1>12,
     <1>13, <1>14, <1>15, <1>16, <1>17, <1>18, <1>19, <1>20, <1>21, <1>22, <1>23,
     <1>24, <1>25, <1>26, <1>27, <1>28, <1>29, <1>30, <1>31
  DEF Next, Step, Check, Backup, Destroy, Finished

(***************************************************************************)
(* Every step keeps TypeOK, given JobOK.                                   *)
(***************************************************************************)
LEMMA TypeStep == TypeOK /\ JobOK /\ [Next]_vars => TypeOK' /\ JobOK'
BY HostTypeStep, LocalTypeStep DEF TypeOK

(***************************************************************************)
(* The loops of Open and Copy.  No other step touches what CopyOK speaks   *)
(* of for a request that is in them or past them.                          *)
(***************************************************************************)
LEMMA CopyStep == TypeOK /\ CopyOK /\ [Next]_vars => CopyOK'
<1> SUFFICES ASSUME TypeOK, CopyOK, [Next]_vars PROVE CopyOK'
  OBVIOUS
<1> USE DiskFacts
    DEF TypeOK, LocalTypeOK, HostTypeOK, CopyOK, BeforeCopy, AfterCopy, Label, Committed, Ended,
        hostVars, localVars
<1>1. ASSUME NEW r \in Req, Enter(r) PROVE CopyOK'
  BY <1>1 DEF Enter, Goto
<1>2. ASSUME NEW r \in Req, Lookup(r) PROVE CopyOK'
  BY <1>2 DEF Lookup, Fail, Goto
<1>3. ASSUME NEW r \in Req, Power(r) PROVE CopyOK'
  BY <1>3 DEF Power, Told, Spend, Fail, Goto
<1>4. ASSUME NEW r \in Req, Jobs(r) PROVE CopyOK'
  BY <1>4 DEF Jobs, Told, Spend, AfterJobs, Goto
<1>5. ASSUME NEW r \in Req, Job(r) PROVE CopyOK'
  BY SMTT(30), <1>5 DEF Job, NextDisk, AfterJobs, Spend, Fail, Goto
<1>6. ASSUME NEW r \in Req, Overlay(r) PROVE CopyOK'
  BY <1>6 DEF Overlay, Fail, Goto
<1>7. ASSUME NEW r \in Req, Paths(r) PROVE CopyOK'
  BY <1>7 DEF Paths, ReadPaths, Fail, Goto
<1>8. ASSUME NEW r \in Req, Open(r) PROVE CopyOK'
  BY <1>8 DEF Open, Fail, Goto
<1>9. ASSUME NEW r \in Req, Copy(r) PROVE CopyOK'
  BY <1>9 DEF Copy, Path, NextDisk, Goto
<1>10. ASSUME NEW r \in Req, Snapshot(r) PROVE CopyOK'
  BY <1>10 DEF Snapshot, CanSnapshot, TakeSnapshot, Fail, Goto
<1>11. ASSUME NEW r \in Req, Relist(r) PROVE CopyOK'
  BY <1>11 DEF Relist, ReadPaths, Fail, Goto
<1>12. ASSUME NEW r \in Req, Commit(r) PROVE CopyOK'
  BY <1>12 DEF Commit, CanCommit, StartCommit, Fail, Goto
<1>13. ASSUME NEW r \in Req, WaitTimeout(r) PROVE CopyOK'
  BY <1>13 DEF WaitTimeout, NextDisk, Spend, Goto
<1>14. ASSUME NEW r \in Req, PollReady(r) PROVE CopyOK'
  BY <1>14 DEF PollReady
<1>15. ASSUME NEW r \in Req, WaitEnds(r) PROVE CopyOK'
  BY <1>15 DEF WaitEnds, Goto
<1>16. ASSUME NEW r \in Req, Pivot(r) PROVE CopyOK'
  BY <1>16 DEF Pivot, CanPivot, StartPivot, NextDisk, Fail, Goto
<1>17. ASSUME NEW r \in Req, Delete(r) PROVE CopyOK'
  BY <1>17 DEF Delete, Path, RemoveFile, NextDisk, Fail, Goto
<1>18. ASSUME NEW r \in Req, Verify(r) PROVE CopyOK'
  BY <1>18 DEF Verify, Fail, Goto
<1>19. ASSUME NEW r \in Req, ReadPersistent(r) PROVE CopyOK'
  BY <1>19 DEF ReadPersistent, Told, Spend, Goto
<1>20. ASSUME NEW r \in Req, ReadActive(r) PROVE CopyOK'
  BY <1>20 DEF ReadActive, Told, Spend, AfterKill, Goto
<1>21. ASSUME NEW r \in Req, Kill(r) PROVE CopyOK'
  BY <1>21 DEF Kill, PowerOff, AfterKill, Fail, Goto
<1>22. ASSUME NEW r \in Req, UndefineDomain(r) PROVE CopyOK'
  BY <1>22 DEF UndefineDomain, Undefine, Fail, Goto
<1>23. ASSUME NEW r \in Req, ListPools(r) PROVE CopyOK'
  BY <1>23 DEF ListPools, Fail, Goto
<1>24. ASSUME NEW r \in Req, Erase(r) PROVE CopyOK'
  <2>1. UNCHANGED <<op, paths, saved>>
    BY <1>24 DEF Erase
  <2>2. /\ pc[r] = "erase"
        /\ \/ pc' = [pc EXCEPT ![r] = "erase"]
           \/ pc' = [pc EXCEPT ![r] = "confirm"]
        /\ \E d \in Disk : at' = [at EXCEPT ![r] = d]
    BY <1>24 DEF Erase, NextDisk, Goto
  <2>3. QED
    BY <2>1, <2>2
<1>25. ASSUME NEW r \in Req, Confirm(r) PROVE CopyOK'
  BY <1>25 DEF Confirm, Spend, Goto
<1>26. ASSUME NEW r \in Req, Create(r) PROVE CopyOK'
  BY <1>26 DEF Create, CanStart, PowerOn, Fail, Goto
<1>27. ASSUME NEW r \in Req, Ask(r) PROVE CopyOK'
  BY <1>27 DEF Ask, AskPowerOff, Fail, Goto
<1>28. ASSUME NEW r \in Req, Fault(r) PROVE CopyOK'
  BY <1>28 DEF Fault, Fallible, Spend, Fail, Goto
<1>29. CASE Crash
  BY <1>29 DEF Crash
<1>30. CASE Host
  BY <1>30 DEF Host
<1>31. CASE UNCHANGED vars
  BY <1>31 DEF vars, localVars, hostVars
<1>32. QED
  BY <1>1, <1>2, <1>3, <1>4, <1>5, <1>6, <1>7, <1>8, <1>9, <1>10, <1>11, <1>12,
     <1>13, <1>14, <1>15, <1>16, <1>17, <1>18, <1>19, <1>20, <1>21, <1>22, <1>23,
     <1>24, <1>25, <1>26, <1>27, <1>28, <1>29, <1>30, <1>31
  DEF Next, Step, Check, Backup, Destroy, Finished

(***************************************************************************)
(* Images are removed in two places: MakeBackup removes overlays only, and *)
(* Destroy removes what it has compressed.                                 *)
(***************************************************************************)
LEMMA SavedStep ==
  TypeOK /\ JobOK /\ CopyOK /\ DestroyedImagesWereSaved /\ [Next]_vars
    => DestroyedImagesWereSaved'
<1> SUFFICES ASSUME TypeOK, JobOK, CopyOK, DestroyedImagesWereSaved, [Next]_vars
             PROVE  DestroyedImagesWereSaved'
  OBVIOUS
<1> USE DEF DestroyedImagesWereSaved, hostVars
<1>1. ASSUME NEW r \in Req, Enter(r) PROVE DestroyedImagesWereSaved'
  BY <1>1 DEF Enter
<1>2. ASSUME NEW r \in Req, Lookup(r) PROVE DestroyedImagesWereSaved'
  BY <1>2 DEF Lookup
<1>3. ASSUME NEW r \in Req, Power(r) PROVE DestroyedImagesWereSaved'
  BY <1>3 DEF Power
<1>4. ASSUME NEW r \in Req, Jobs(r) PROVE DestroyedImagesWereSaved'
  BY <1>4 DEF Jobs
<1>5. ASSUME NEW r \in Req, Job(r) PROVE DestroyedImagesWereSaved'
  BY <1>5 DEF Job
<1>6. ASSUME NEW r \in Req, Overlay(r) PROVE DestroyedImagesWereSaved'
  BY <1>6 DEF Overlay
<1>7. ASSUME NEW r \in Req, Paths(r) PROVE DestroyedImagesWereSaved'
  BY <1>7 DEF Paths
<1>8. ASSUME NEW r \in Req, Open(r) PROVE DestroyedImagesWereSaved'
  BY <1>8 DEF Open
<1>9. ASSUME NEW r \in Req, Copy(r) PROVE DestroyedImagesWereSaved'
  BY <1>9 DEF Copy
<1>10. ASSUME NEW r \in Req, Snapshot(r) PROVE DestroyedImagesWereSaved'
  BY <1>10 DEF Snapshot, TakeSnapshot
<1>11. ASSUME NEW r \in Req, Relist(r) PROVE DestroyedImagesWereSaved'
  BY <1>11 DEF Relist
<1>12. ASSUME NEW r \in Req, Commit(r) PROVE DestroyedImagesWereSaved'
  BY <1>12 DEF Commit, StartCommit
<1>13. ASSUME NEW r \in Req, WaitTimeout(r) PROVE DestroyedImagesWereSaved'
  BY <1>13 DEF WaitTimeout
<1>14. ASSUME NEW r \in Req, PollReady(r) PROVE DestroyedImagesWereSaved'
  BY <1>14 DEF PollReady
<1>15. ASSUME NEW r \in Req, WaitEnds(r) PROVE DestroyedImagesWereSaved'
  BY <1>15 DEF WaitEnds
<1>16. ASSUME NEW r \in Req, Pivot(r) PROVE DestroyedImagesWereSaved'
  BY <1>16 DEF Pivot, StartPivot
<1>17. ASSUME NEW r \in Req, Delete(r) PROVE DestroyedImagesWereSaved'
  BY <1>17 DEF Delete, Path, RemoveFile
<1>18. ASSUME NEW r \in Req, Verify(r) PROVE DestroyedImagesWereSaved'
  BY <1>18 DEF Verify
<1>19. ASSUME NEW r \in Req, ReadPersistent(r) PROVE DestroyedImagesWereSaved'
  BY <1>19 DEF ReadPersistent
<1>20. ASSUME NEW r \in Req, ReadActive(r) PROVE DestroyedImagesWereSaved'
  BY <1>20 DEF ReadActive
<1>21. ASSUME NEW r \in Req, Kill(r) PROVE DestroyedImagesWereSaved'
  BY <1>21 DEF Kill, PowerOff
<1>22. ASSUME NEW r \in Req, UndefineDomain(r) PROVE DestroyedImagesWereSaved'
  BY <1>22 DEF UndefineDomain, Undefine
<1>23. ASSUME NEW r \in Req, ListPools(r) PROVE DestroyedImagesWereSaved'
  BY <1>23 DEF ListPools
<1>24. ASSUME NEW r \in Req, Erase(r) PROVE DestroyedImagesWereSaved'
  BY <1>24 DEF Erase, Path, RemoveFile, CopyOK, AfterCopy, TypeOK, LocalTypeOK, HostTypeOK
<1>25. ASSUME NEW r \in Req, Confirm(r) PROVE DestroyedImagesWereSaved'
  BY <1>25 DEF Confirm
<1>26. ASSUME NEW r \in Req, Create(r) PROVE DestroyedImagesWereSaved'
  BY <1>26 DEF Create, PowerOn
<1>27. ASSUME NEW r \in Req, Ask(r) PROVE DestroyedImagesWereSaved'
  BY <1>27 DEF Ask, AskPowerOff
<1>28. ASSUME NEW r \in Req, Fault(r) PROVE DestroyedImagesWereSaved'
  BY <1>28 DEF Fault
<1>29. CASE Crash
  BY <1>29 DEF Crash
<1>30. CASE Host
  BY <1>30, HostTyped DEF Host, TypeOK
<1>31. CASE UNCHANGED vars
  BY <1>31 DEF vars, localVars, hostVars
<1>32. QED
  BY <1>1, <1>2, <1>3, <1>4, <1>5, <1>6, <1>7, <1>8, <1>9, <1>10, <1>11, <1>12,
     <1>13, <1>14, <1>15, <1>16, <1>17, <1>18, <1>19, <1>20, <1>21, <1>22, <1>23,
     <1>24, <1>25, <1>26, <1>27, <1>28, <1>29, <1>30, <1>31
  DEF Next, Step, Check, Backup, Destroy, Finished

-----------------------------------------------------------------------------
(***************************************************************************)
(* IInv holds throughout every behaviour.                                  *)
(***************************************************************************)
LEMMA Invariance == Safe => []IInv
<1>1. Init => IInv
  <2> SUFFICES ASSUME Init PROVE IInv
    OBVIOUS
  <2>1. HostTypeOK
    <3>1. Disk \X {0} \subseteq Disk \X Nat
      OBVIOUS
    <3>2. [d \in Disk |-> 0] \in [Disk -> Nat] /\ [a \in Adversity |-> 0] \in [Adversity -> Nat]
      OBVIOUS
    <3>3. QED
      BY <3>1, <3>2 DEF Init, HostInit, HostTypeOK
  <2>2. "idle" \in Label
    BY DEF Label
  <2>3. LocalTypeOK
    <3>1. pc \in [Req -> Label] /\ op \in [Req -> Op \union {"none"}] /\ at \in [Req -> Disk]
      BY <2>2, DiskFacts DEF Init
    <3>2. /\ paths \in [Req -> [Disk -> Nat]]
          /\ polls \in [Req -> 0..Retries]
          /\ wasPersistent \in [Req -> BOOLEAN]
      BY DEF Init, Retries
    <3>3. saved \subseteq Disk \X Nat /\ raced \in BOOLEAN
      BY DEF Init
    <3>4. QED
      BY <3>1, <3>2, <3>3 DEF LocalTypeOK
  <2>4. JobOK
    BY DEF Init, HostInit, JobOK
  <2>5. CopyOK
    BY DEF Init, CopyOK, BeforeCopy, AfterCopy
  <2>6. DestroyedImagesWereSaved
    BY DEF Init, HostInit, DestroyedImagesWereSaved
  <2>7. QED
    BY <2>1, <2>3, <2>4, <2>5, <2>6 DEF IInv, TypeOK
<1>2. IInv /\ [Next]_vars => IInv'
  BY TypeStep, CopyStep, SavedStep DEF IInv
<1>3. QED
  BY <1>1, <1>2, PTL DEF Safe

(***************************************************************************)
(* Every variable keeps its type: no layer below the base image, no disk   *)
(* past the last one, no poll past the third.                              *)
(***************************************************************************)
THEOREM TypeCorrect == Safe => []TypeOK
<1>1. IInv => TypeOK
  BY DEF IInv
<1>2. QED
  BY <1>1, Invariance, PTL

(***************************************************************************)
(* However requests, crashes and failing calls interleave, a base image is *)
(* deleted only after an lz4 copy of it was completed.                     *)
(***************************************************************************)
THEOREM NoImageLostUnsaved == Safe => []DestroyedImagesWereSaved
<1>1. IInv => DestroyedImagesWereSaved
  BY DEF IInv
<1>2. QED
  BY <1>1, Invariance, PTL

-----------------------------------------------------------------------------
(***************************************************************************)
(* A handler that moves to a step before its sanity checks are passed, or  *)
(* that ends, and leaves the domain alone, leaves a left-over where it is. *)
(***************************************************************************)
LEMMA LeftOverKept ==
  ASSUME TypeOK, LeftOver, NEW r \in Req, NEW label,
         label \notin Committed, Goto(r, label), UNCHANGED <<files, top, job>>
  PROVE  LeftOver' /\ UNCHANGED <<files, top>>
<1>1. pc \in [Req -> Label]
  BY DEF TypeOK, LocalTypeOK
<1>2. \A q \in Req : pc'[q] = IF q = r THEN label ELSE pc[q]
  BY <1>1 DEF Goto
<1>3. \A q \in Req : pc'[q] \notin Committed
  BY <1>2 DEF LeftOver
<1>4. QED
  BY <1>3 DEF LeftOver

(***************************************************************************)
(* The sanity locks of the handlers hold a disk with a left-over overlay   *)
(* as it is: Overlay fails, and no other step leads past the checks.       *)
(***************************************************************************)
LEMMA LeftOverStep ==
  TypeOK /\ LeftOver /\ [Next]_vars => LeftOver' /\ UNCHANGED <<files, top>>
<1> SUFFICES ASSUME TypeOK, LeftOver, [Next]_vars
             PROVE  LeftOver' /\ UNCHANGED <<files, top>>
  OBVIOUS
<1>a. TypeOK /\ LeftOver
  OBVIOUS
<1>b. {"lookup", "power", "jobs", "job", "overlay", "create", "ask"} \intersect Committed = {}
      /\ Ended \intersect Committed = {}
  BY DEF Committed, Ended
<1>c. \A r \in Req : AfterJobs(r) \notin Committed
  BY DEF AfterJobs, Committed
<1>1. ASSUME NEW r \in Req, Enter(r) PROVE LeftOver' /\ UNCHANGED <<files, top>>
  <2>1. UNCHANGED <<files, top, job>>
    BY <1>1 DEF Enter, hostVars
  <2>2. Goto(r, "lookup") \/ Goto(r, "refused")
    BY <1>1 DEF Enter, Fail
  <2>3. QED
    BY <1>a, <1>b, <1>c, <2>1, <2>2, LeftOverKept DEF Ended
<1>2. ASSUME NEW r \in Req, Lookup(r) PROVE LeftOver' /\ UNCHANGED <<files, top>>
  <2>1. UNCHANGED <<files, top, job>>
    BY <1>2 DEF Lookup, hostVars
  <2>2. Goto(r, "error") \/ Goto(r, "power") \/ Goto(r, "jobs")
    BY <1>2 DEF Lookup, Fail
  <2>3. QED
    BY <1>a, <1>b, <1>c, <2>1, <2>2, LeftOverKept DEF Ended
<1>3. ASSUME NEW r \in Req, Power(r) PROVE LeftOver' /\ UNCHANGED <<files, top>>
  <2>1. UNCHANGED <<files, top, job>>
    BY <1>3 DEF Power, hostVars
  <2>2. Goto(r, "jobs") \/ Goto(r, "error")
    BY <1>3 DEF Power, Fail
  <2>3. QED
    BY <1>a, <1>b, <1>c, <2>1, <2>2, LeftOverKept DEF Ended
<1>4. ASSUME NEW r \in Req, Jobs(r) PROVE LeftOver' /\ UNCHANGED <<files, top>>
  <2>1. UNCHANGED <<files, top, job>>
    BY <1>4 DEF Jobs, hostVars
  <2>2. Goto(r, "job") \/ Goto(r, AfterJobs(r))
    BY <1>4 DEF Jobs, Fail
  <2>3. QED
    BY <1>a, <1>b, <1>c, <2>1, <2>2, LeftOverKept DEF Ended
<1>5. ASSUME NEW r \in Req, Job(r) PROVE LeftOver' /\ UNCHANGED <<files, top>>
  <2>1. UNCHANGED <<files, top, job>>
    BY <1>5 DEF Job, hostVars, NextDisk
  <2>2. Goto(r, "error") \/ Goto(r, "job") \/ Goto(r, AfterJobs(r))
    BY <1>5 DEF Job, Fail, NextDisk
  <2>3. QED
    BY <1>a, <1>b, <1>c, <2>1, <2>2, LeftOverKept DEF Ended
<1>6. ASSUME NEW r \in Req, Overlay(r) PROVE LeftOver' /\ UNCHANGED <<files, top>>
  <2>1. UNCHANGED <<files, top, job>>
    BY <1>6 DEF Overlay, hostVars, LeftOver, TypeOK, HostTypeOK
  <2>2. Goto(r, "error")
    BY <1>6 DEF Overlay, Fail, LeftOver, TypeOK, HostTypeOK
  <2>3. QED
    BY <1>a, <1>b, <1>c, <2>1, <2>2, LeftOverKept DEF Ended
<1>7. ASSUME NEW r \in Req, Paths(r) PROVE LeftOver' /\ UNCHANGED <<files, top>>
  BY <1>7 DEF Paths, LeftOver, Committed
<1>8. ASSUME NEW r \in Req, Open(r) PROVE LeftOver' /\ UNCHANGED <<files, top>>
  BY <1>8 DEF Open, LeftOver, Committed
<1>9. ASSUME NEW r \in Req, Copy(r) PROVE LeftOver' /\ UNCHANGED <<files, top>>
  BY <1>9 DEF Copy, LeftOver, Committed
<1>10. ASSUME NEW r \in Req, Snapshot(r) PROVE LeftOver' /\ UNCHANGED <<files, top>>
  BY <1>10 DEF Snapshot, LeftOver, Committed
<1>11. ASSUME NEW r \in Req, Relist(r) PROVE LeftOver' /\ UNCHANGED <<files, top>>
  BY <1>11 DEF Relist, LeftOver, Committed
<1>12. ASSUME NEW r \in Req, Commit(r) PROVE LeftOver' /\ UNCHANGED <<files, top>>
  BY <1>12 DEF Commit, LeftOver, Committed
<1>13. ASSUME NEW r \in Req, WaitTimeout(r) PROVE LeftOver' /\ UNCHANGED <<files, top>>
  BY <1>13 DEF WaitTimeout, LeftOver, Committed
<1>14. ASSUME NEW r \in Req, PollReady(r) PROVE LeftOver' /\ UNCHANGED <<files, top>>
  BY <1>14 DEF PollReady, LeftOver, Committed
<1>15. ASSUME NEW r \in Req, WaitEnds(r) PROVE LeftOver' /\ UNCHANGED <<files, top>>
  BY <1>15 DEF WaitEnds, LeftOver, Committed
<1>16. ASSUME NEW r \in Req, Pivot(r) PROVE LeftOver' /\ UNCHANGED <<files, top>>
  BY <1>16 DEF Pivot, LeftOver, Committed
<1>17. ASSUME NEW r \in Req, Delete(r) PROVE LeftOver' /\ UNCHANGED <<files, top>>
  BY <1>17 DEF Delete, LeftOver, Committed
<1>18. ASSUME NEW r \in Req, Verify(r) PROVE LeftOver' /\ UNCHANGED <<files, top>>
  BY <1>18 DEF Verify, LeftOver, Committed
<1>19. ASSUME NEW r \in Req, ReadPersistent(r) PROVE LeftOver' /\ UNCHANGED <<files, top>>
  BY <1>19 DEF ReadPersistent, LeftOver, Committed
<1>20. ASSUME NEW r \in Req, ReadActive(r) PROVE LeftOver' /\ UNCHANGED <<files, top>>
  BY <1>20 DEF ReadActive, LeftOver, Committed
<1>21. ASSUME NEW r \in Req, Kill(r) PROVE LeftOver' /\ UNCHANGED <<files, top>>
  BY <1>21 DEF Kill, LeftOver, Committed
<1>22. ASSUME NEW r \in Req, UndefineDomain(r) PROVE LeftOver' /\ UNCHANGED <<files, top>>
  BY <1>22 DEF UndefineDomain, LeftOver, Committed
<1>23. ASSUME NEW r \in Req, ListPools(r) PROVE LeftOver' /\ UNCHANGED <<files, top>>
  BY <1>23 DEF ListPools, LeftOver, Committed
<1>24. ASSUME NEW r \in Req, Erase(r) PROVE LeftOver' /\ UNCHANGED <<files, top>>
  BY <1>24 DEF Erase, LeftOver, Committed
<1>25. ASSUME NEW r \in Req, Confirm(r) PROVE LeftOver' /\ UNCHANGED <<files, top>>
  BY <1>25 DEF Confirm, LeftOver, Committed
<1>26. ASSUME NEW r \in Req, Create(r) PROVE LeftOver' /\ UNCHANGED <<files, top>>
  <2>1. UNCHANGED <<files, top, job>>
    BY <1>26 DEF Create, hostVars, PowerOn
  <2>2. Goto(r, "ok") \/ Goto(r, "error")
    BY <1>26 DEF Create, Fail, PowerOn
  <2>3. QED
    BY <1>a, <1>b, <1>c, <2>1, <2>2, LeftOverKept DEF Ended
<1>27. ASSUME NEW r \in Req, Ask(r) PROVE LeftOver' /\ UNCHANGED <<files, top>>
  <2>1. UNCHANGED <<files, top, job>>
    BY <1>27 DEF Ask, hostVars, AskPowerOff
  <2>2. Goto(r, "ok") \/ Goto(r, "error")
    BY <1>27 DEF Ask, Fail, AskPowerOff
  <2>3. QED
    BY <1>a, <1>b, <1>c, <2>1, <2>2, LeftOverKept DEF Ended
<1>28. ASSUME NEW r \in Req, Fault(r) PROVE LeftOver' /\ UNCHANGED <<files, top>>
  <2>1. UNCHANGED <<files, top, job>>
    BY <1>28 DEF Fault, hostVars
  <2>2. Goto(r, "error")
    BY <1>28 DEF Fault, Fail
  <2>3. QED
    BY <1>a, <1>b, <1>c, <2>1, <2>2, LeftOverKept DEF Ended
<1>29. CASE Crash
  <2>1. \A q \in Req : pc'[q] \in {pc[q], "lost"}
    BY <1>29 DEF Crash
  <2>2. "lost" \notin Committed
    BY DEF Committed
  <2>3. UNCHANGED <<files, top, job>>
    BY <1>29 DEF Crash, hostVars
  <2>4. QED
    BY <2>1, <2>2, <2>3 DEF LeftOver
<1>30. CASE Host
  <2>1. CASE GuestPowersOff
    <3>1. PICK pivoted \in SUBSET {d \in Disk : job[d] = "pivoting"} :
            top' = [d \in Disk |-> IF d \in pivoted THEN top[d] - 1 ELSE top[d]]
      BY <2>1 DEF GuestPowersOff, PowerOff
    <3>2. pivoted = {}
      BY DEF LeftOver
    <3>3. top' = [d \in Disk |-> top[d]]
      BY <3>1, <3>2
    <3>4. top' = top /\ files' = files
      BY <2>1, <3>3, <1>a DEF GuestPowersOff, PowerOff, TypeOK, HostTypeOK
    <3>5. \A d \in Disk : job'[d] = "none"
      BY <2>1 DEF GuestPowersOff, PowerOff
    <3>6. pc' = pc
      BY <1>30 DEF Host
    <3>7. QED
      BY <3>4, <3>5, <3>6 DEF LeftOver
  <2>2. QED
    BY <1>30, <2>1
    DEF Host, HostStep, JobReady, PivotCompletes, JobAborts, PivotFails, LeftOver
<1>31. CASE UNCHANGED vars
  BY <1>31 DEF vars, localVars, hostVars, LeftOver
<1>32. QED
  BY <1>1, <1>2, <1>3, <1>4, <1>5, <1>6, <1>7, <1>8, <1>9, <1>10, <1>11, <1>12,
     <1>13, <1>14, <1>15, <1>16, <1>17, <1>18, <1>19, <1>20, <1>21, <1>22,
     <1>23, <1>24, <1>25, <1>26, <1>27, <1>28, <1>29, <1>30, <1>31
  DEF Next, Step, Check, Backup, Destroy, Finished

(***************************************************************************)
(* Whatever is asked of the API afterwards, the overlays an unfinished     *)
(* backup left, and all images, stay as they are.                          *)
(***************************************************************************)
THEOREM LeftoversStay == Safe => LeftOverStays
<1>1. TypeOK /\ [Next]_vars => [LeftOver => LeftOver' /\ UNCHANGED <<files, top>>]_vars
  BY LeftOverStep
<1>2. QED
  BY <1>1, TypeCorrect, PTL DEF Safe, LeftOverStays

-----------------------------------------------------------------------------
(***************************************************************************)
(* What MakeBackup promises as long as no other MakeBackup comes between   *)
(* its checks and its snapshot: the layers of the disks belong to at most  *)
(* one MakeBackup at a time.                                               *)
(***************************************************************************)
Copying == {"open", "copy", "relist"}
Committing == {"commit", "wait", "pivot"}
Flying == Copying \union Committing
Failed == {"error", "lost"}
Tracked == {"paths", "snapshot", "delete", "verify"} \union Flying

\* Request r is a MakeBackup at one of these labels.
Backing(r, labels) == op[r] = "MakeBackup" /\ pc[r] \in labels

\* The disks r has still to commit, or to delete the overlays of.
Left(r) == {d \in Writable : d >= at[r]}

\* Request r may still change the layers.
Merging(r) ==
  \/ Backing(r, Copying)
  \/ Backing(r, Committing) /\ Left(r) # {}

(***************************************************************************)
(* Every label is reached by the operations that have it only.             *)
(***************************************************************************)
OpOK ==
  \A r \in Req :
    /\ op[r] = "none" <=> pc[r] = "idle"
    /\ pc[r] \in {"overlay", "paths", "open", "copy"} => op[r] \in {"MakeBackup", "Destroy"}
    /\ pc[r] \in {"snapshot", "relist", "commit", "wait", "pivot", "delete", "verify"} =>
         op[r] = "MakeBackup"
    /\ pc[r] \in AfterCopy => op[r] = "Destroy"
    /\ pc[r] = "create" => op[r] = "Start"
    /\ pc[r] = "ask" => op[r] = "Shutdown"

(***************************************************************************)
(* The layers.  A snapshot needs a look at disks without overlays; from    *)
(* there to the last pivot they are the business of one request.           *)
(***************************************************************************)
ReadOnlyOK == \A d \in Disk \ Writable : top[d] = 0

Checked ==
  /\ \A d \in Disk : top[d] \in {0, 1}
  /\ \A r \in Req : Cleared(r) => \A d \in Disk : top[d] = 0
  /\ \A r \in Req : Backing(r, {"snapshot", "open", "copy"}) => \A d \in Disk : paths[r][d] = 0

Covered ==
  \A r \in Req :
    /\ Backing(r, Copying) =>
         Writable # {} /\ \A d \in Writable : top[d] = 1 /\ job[d] = "none"
    /\ Backing(r, Committing) =>
         \A d \in Left(r) : top[d] = 1 /\ job[d] # "pivoting"

Alone == \A r, q \in Req : Merging(r) /\ Merging(q) => r = q

LayerOK == ~raced => Checked /\ Covered /\ Alone

Known == TypeOK /\ JobOK /\ CopyOK /\ OpOK

-----------------------------------------------------------------------------
(***************************************************************************)
(* Labels and operations go together.                                      *)
(***************************************************************************)
LEMMA OpStep == TypeOK /\ OpOK /\ [Next]_vars => OpOK'
<1> SUFFICES ASSUME TypeOK, OpOK, [Next]_vars PROVE OpOK'
  OBVIOUS
<1> USE DEF TypeOK, LocalTypeOK, OpOK, AfterCopy, Op, localVars
<1>1. ASSUME NEW r \in Req, Enter(r) PROVE OpOK'
  <2>1. PICK o \in Plan[r] : op' = [op EXCEPT ![r] = o]
    BY <1>1 DEF Enter
  <2>2. o \in Op
    BY PlanAssumption
  <2>3. QED
    BY <1>1, <2>1, <2>2 DEF Enter, Goto
<1>2. ASSUME NEW r \in Req, Lookup(r) PROVE OpOK'
  BY <1>2 DEF Lookup, Fail, Goto
<1>3. ASSUME NEW r \in Req, Power(r) PROVE OpOK'
  BY <1>3 DEF Power, Fail, Goto
<1>4. ASSUME NEW r \in Req, Jobs(r) PROVE OpOK'
  BY <1>4 DEF Jobs, AfterJobs, Goto
<1>5. ASSUME NEW r \in Req, Job(r) PROVE OpOK'
  BY <1>5 DEF Job, NextDisk, AfterJobs, Fail, Goto
<1>6. ASSUME NEW r \in Req, Overlay(r) PROVE OpOK'
  BY <1>6 DEF Overlay, Fail, Goto
<1>7. ASSUME NEW r \in Req, Paths(r) PROVE OpOK'
  BY <1>7 DEF Paths, Fail, Goto
<1>8. ASSUME NEW r \in Req, Open(r) PROVE OpOK'
  BY <1>8 DEF Open, Fail, Goto
<1>9. ASSUME NEW r \in Req, Copy(r) PROVE OpOK'
  BY <1>9 DEF Copy, NextDisk, Goto
<1>10. ASSUME NEW r \in Req, Snapshot(r) PROVE OpOK'
  BY <1>10 DEF Snapshot, Fail, Goto
<1>11. ASSUME NEW r \in Req, Relist(r) PROVE OpOK'
  BY <1>11 DEF Relist, Fail, Goto
<1>12. ASSUME NEW r \in Req, Commit(r) PROVE OpOK'
  BY <1>12 DEF Commit, Fail, Goto
<1>13. ASSUME NEW r \in Req, WaitTimeout(r) PROVE OpOK'
  BY <1>13 DEF WaitTimeout, NextDisk, Goto
<1>14. ASSUME NEW r \in Req, PollReady(r) PROVE OpOK'
  BY <1>14 DEF PollReady
<1>15. ASSUME NEW r \in Req, WaitEnds(r) PROVE OpOK'
  BY <1>15 DEF WaitEnds, Goto
<1>16. ASSUME NEW r \in Req, Pivot(r) PROVE OpOK'
  BY <1>16 DEF Pivot, NextDisk, Fail, Goto
<1>17. ASSUME NEW r \in Req, Delete(r) PROVE OpOK'
  BY <1>17 DEF Delete, NextDisk, Fail, Goto
<1>18. ASSUME NEW r \in Req, Verify(r) PROVE OpOK'
  BY <1>18 DEF Verify, Fail, Goto
<1>19. ASSUME NEW r \in Req, ReadPersistent(r) PROVE OpOK'
  BY <1>19 DEF ReadPersistent, Goto
<1>20. ASSUME NEW r \in Req, ReadActive(r) PROVE OpOK'
  BY <1>20 DEF ReadActive, AfterKill, Goto
<1>21. ASSUME NEW r \in Req, Kill(r) PROVE OpOK'
  BY <1>21 DEF Kill, AfterKill, Fail, Goto
<1>22. ASSUME NEW r \in Req, UndefineDomain(r) PROVE OpOK'
  BY <1>22 DEF UndefineDomain, Fail, Goto
<1>23. ASSUME NEW r \in Req, ListPools(r) PROVE OpOK'
  BY <1>23 DEF ListPools, Fail, Goto
<1>24. ASSUME NEW r \in Req, Erase(r) PROVE OpOK'
  BY <1>24 DEF Erase, NextDisk, Goto
<1>25. ASSUME NEW r \in Req, Confirm(r) PROVE OpOK'
  BY <1>25 DEF Confirm, Goto
<1>26. ASSUME NEW r \in Req, Create(r) PROVE OpOK'
  BY <1>26 DEF Create, Fail, Goto
<1>27. ASSUME NEW r \in Req, Ask(r) PROVE OpOK'
  BY <1>27 DEF Ask, Fail, Goto
<1>28. ASSUME NEW r \in Req, Fault(r) PROVE OpOK'
  BY <1>28 DEF Fault, Fallible, Fail, Goto
<1>29. CASE Crash
  BY <1>29 DEF Crash, Ended
<1>30. CASE Host
  BY <1>30 DEF Host
<1>31. CASE UNCHANGED vars
  BY <1>31 DEF vars
<1>32. QED
  BY <1>1, <1>2, <1>3, <1>4, <1>5, <1>6, <1>7, <1>8, <1>9, <1>10, <1>11, <1>12,
     <1>13, <1>14, <1>15, <1>16, <1>17, <1>18, <1>19, <1>20, <1>21, <1>22, <1>23,
     <1>24, <1>25, <1>26, <1>27, <1>28, <1>29, <1>30, <1>31
  DEF Next, Step, Check, Backup, Destroy, Finished

(***************************************************************************)
(* No adversity is forgotten, and a request that is entered stays what it  *)
(* is: what is steady after a step was steady before.                      *)
(***************************************************************************)
LEMMA SteadyBefore == TypeOK /\ OpOK /\ [Next]_vars /\ Steady' => Steady
<1> SUFFICES ASSUME TypeOK, OpOK, [Next]_vars, Steady' PROVE Steady
  OBVIOUS
<1>1. UNCHANGED spent \/ \E a \in Adversity : Spend(a)
  <2>1. {"fault", "misread", "stall", "abort", "pivotfail", "off", "crash"} \subseteq Adversity
    BY DEF Adversity
  <2>2. ASSUME NEW r \in Req, Enter(r) \/ Check(r) PROVE UNCHANGED spent \/ \E a \in Adversity : Spend(a)
    BY <2>1, <2>2 DEF Enter, Check, Lookup, Power, Jobs, Job, Overlay, Paths, Told
  <2>3. ASSUME NEW r \in Req, Backup(r) PROVE UNCHANGED spent \/ \E a \in Adversity : Spend(a)
    BY <2>1, <2>3 DEF Backup, Open, Copy, Snapshot, Relist, Commit, WaitTimeout, PollReady,
       WaitEnds, Pivot, Delete, Verify
  <2>4. ASSUME NEW r \in Req, Destroy(r) \/ Create(r) \/ Ask(r) \/ Fault(r)
        PROVE UNCHANGED spent \/ \E a \in Adversity : Spend(a)
    BY <2>1, <2>4 DEF Destroy, ReadPersistent, ReadActive, Kill, UndefineDomain, ListPools, Erase,
       Confirm, Create, Ask, Fault, Told
  <2>5. CASE Crash \/ Host \/ UNCHANGED vars
    BY <2>1, <2>5 DEF Crash, Host, HostStep, GuestPowersOff, JobReady, PivotCompletes, JobAborts,
       PivotFails, vars
  <2>6. QED
    BY <2>2, <2>3, <2>4, <2>5 DEF Next, Step, Finished
<1>2. \A a \in {"stall", "off", "pivotfail"} : spent'[a] = 0 => spent[a] = 0
  <2>1. \A a \in Adversity : spent[a] \in Nat
    BY DEF TypeOK, HostTypeOK
  <2>2. \A a \in Adversity : spent'[a] = spent[a] \/ spent'[a] = spent[a] + 1
    BY <1>1, <2>1 DEF Spend, TypeOK, HostTypeOK
  <2>3. QED
    BY <2>1, <2>2 DEF Adversity
<1>3. op' = op \/ \E r \in Req : Enter(r)
  <2>1. ASSUME NEW r \in Req, Check(r) PROVE op' = op
    BY <2>1 DEF Check, Lookup, Power, Jobs, Job, Overlay, Paths, localVars
  <2>2. ASSUME NEW r \in Req, Backup(r) PROVE op' = op
    BY <2>2 DEF Backup, Open, Copy, Snapshot, Relist, Commit, WaitTimeout, PollReady,
       WaitEnds, Pivot, Delete, Verify, localVars
  <2>3. ASSUME NEW r \in Req, Destroy(r) \/ Create(r) \/ Ask(r) \/ Fault(r) PROVE op' = op
    BY <2>3 DEF Destroy, ReadPersistent, ReadActive, Kill, UndefineDomain, ListPools, Erase,
       Confirm, Create, Ask, Fault, localVars
  <2>4. CASE Crash \/ Host \/ UNCHANGED vars
    BY <2>4 DEF Crash, Host, localVars, vars
  <2>5. QED
    BY <2>1, <2>2, <2>3, <2>4 DEF Next, Step, Finished
<1>4. \A r \in Req : op'[r] = op[r] \/ op[r] = "none"
  <2>1. ASSUME NEW q \in Req, Enter(q) PROVE \A r \in Req : op'[r] = op[r] \/ op[r] = "none"
    BY <2>1 DEF Enter, OpOK, TypeOK, LocalTypeOK
  <2>2. QED
    BY <1>3, <2>1
<1>5. QED
  BY <1>2, <1>4 DEF Steady

-----------------------------------------------------------------------------
(***************************************************************************)
(* Quiet steps: the layers stay, and every request either stays where it   *)
(* is, or is none that deals with layers after the step.                   *)
(***************************************************************************)
Same(r) == op'[r] = op[r] /\ pc'[r] = pc[r] /\ at'[r] = at[r] /\ paths'[r] = paths[r]

Aside(r) ==
  /\ ~Backing(r, Tracked)'
  /\ Backing(r, Flying \union {"delete"} \union Failed) => Backing(r, Failed)'

Quiet ==
  /\ UNCHANGED <<top, job, raced>>
  /\ files' \subseteq files /\ saved \subseteq saved'
  /\ \A r \in Req : Same(r) \/ Aside(r)
  /\ Steady' => files' = files /\ acpi' = acpi /\ (dom = "on" => dom' = "on")

(***************************************************************************)
(* What the requests do on the way to the snapshot, and Destroy, Start and *)
(* Shutdown at all times, is quiet; so are faults and crashes.             *)
(***************************************************************************)
LEMMA QuietSteps ==
  ASSUME TypeOK, OpOK, NEW r \in Req,
         \/ Enter(r) \/ Lookup(r) \/ Power(r) \/ Jobs(r) \/ Job(r) \/ PollReady(r) \/ Verify(r)
         \/ ReadPersistent(r) \/ ReadActive(r) \/ UndefineDomain(r) \/ ListPools(r) \/ Erase(r)
         \/ Confirm(r) \/ Create(r) \/ Ask(r) \/ Fault(r) \/ Crash
         \/ op[r] # "MakeBackup" /\ (Overlay(r) \/ Paths(r) \/ Open(r) \/ Copy(r))
  PROVE  Quiet
<1> USE DEF TypeOK, LocalTypeOK, OpOK, AfterCopy, Op, localVars, hostVars, Quiet, Same, Aside,
        Backing, Tracked, Flying, Copying, Committing, Failed
<1>1. CASE Enter(r)
  <2>1. PICK o \in Plan[r] : op' = [op EXCEPT ![r] = o]
    BY <1>1 DEF Enter
  <2>2. QED
    BY <1>1, <2>1 DEF Enter, Goto
<1>2. CASE Lookup(r)
  BY <1>2 DEF Lookup, Fail, Goto
<1>3. CASE Power(r)
  BY <1>3 DEF Power, Fail, Goto
<1>4. CASE Jobs(r)
  BY <1>4 DEF Jobs, AfterJobs, Goto
<1>5. CASE Job(r)
  BY <1>5 DEF Job, NextDisk, AfterJobs, Fail, Goto
<1>6. CASE PollReady(r)
  BY <1>6 DEF PollReady
<1>7. CASE Verify(r)
  BY <1>7 DEF Verify, Fail, Goto
<1>8. CASE ReadPersistent(r)
  BY <1>8 DEF ReadPersistent, Goto
<1>9. CASE ReadActive(r)
  BY <1>9 DEF ReadActive, AfterKill, Goto
<1>10. CASE UndefineDomain(r)
  <2>1. op'[r] = "Destroy"
    BY <1>10 DEF UndefineDomain
  <2>2. ~Steady'
    BY <2>1 DEF Steady
  <2>3. QED
    BY <1>10, <2>1, <2>2 DEF UndefineDomain, Undefine, Fail, Goto
<1>11. CASE ListPools(r)
  BY <1>11 DEF ListPools, Fail, Goto
<1>12. CASE Erase(r)
  <2>1. op'[r] = "Destroy"
    BY <1>12 DEF Erase
  <2>2. ~Steady'
    BY <2>1 DEF Steady
  <2>3. QED
    BY <1>12, <2>1, <2>2 DEF Erase, RemoveFile, NextDisk, Goto
<1>13. CASE Confirm(r)
  BY <1>13 DEF Confirm, Goto
<1>14. CASE Create(r)
  BY <1>14 DEF Create, PowerOn, Fail, Goto
<1>15. CASE Ask(r)
  <2>1. op'[r] = "Shutdown"
    BY <1>15 DEF Ask
  <2>2. ~Steady'
    BY <2>1 DEF Steady
  <2>3. QED
    BY <1>15, <2>1, <2>2 DEF Ask, AskPowerOff, Fail, Goto
<1>16. CASE Fault(r)
  BY <1>16 DEF Fault, Fallible, Fail, Goto
<1>17. CASE Crash
  BY <1>17 DEF Crash, Ended
<1>18. CASE op[r] # "MakeBackup" /\ Overlay(r)
  BY <1>18 DEF Overlay, Fail, Goto
<1>19. CASE op[r] # "MakeBackup" /\ Paths(r)
  BY <1>19 DEF Paths, ReadPaths, Fail, Goto
<1>20. CASE op[r] # "MakeBackup" /\ Open(r)
  BY <1>20 DEF Open, Fail, Goto
<1>21. CASE op[r] # "MakeBackup" /\ Copy(r)
  BY <1>21 DEF Copy, NextDisk, Goto
<1>22. QED
  BY <1>1, <1>2, <1>3, <1>4, <1>5, <1>6, <1>7, <1>8, <1>9, <1>10, <1>11, <1>12, <1>13, <1>14,
     <1>15, <1>16, <1>17, <1>18, <1>19, <1>20, <1>21

\* A MakeBackup that fails with an error changes nothing else.
LEMMA FailQuiet ==
  ASSUME TypeOK, NEW r \in Req, Fail(r), UNCHANGED <<hostVars, op, at, paths, saved, raced>>
  PROVE  Quiet
BY DEF TypeOK, LocalTypeOK, hostVars, Fail, Goto, Quiet, Same, Aside, Backing, Tracked, Flying,
   Copying, Committing, Failed

\* So is doing nothing.
LEMMA StutterQuiet == UNCHANGED vars => Quiet
BY DEF vars, hostVars, localVars, Quiet, Same

(***************************************************************************)
(* Quiet steps keep the layers as they are.                                *)
(***************************************************************************)
LEMMA LayerQuiet ==
  ReadOnlyOK /\ LayerOK /\ Quiet => ReadOnlyOK' /\ LayerOK'
<1> SUFFICES ASSUME ReadOnlyOK, LayerOK, Quiet PROVE ReadOnlyOK' /\ LayerOK'
  OBVIOUS
<1> USE DEF Quiet, Same, Aside, Backing, Tracked, Flying, Copying, Committing
<1>1. ReadOnlyOK'
  BY DEF ReadOnlyOK
<1>2. ASSUME ~raced' PROVE Checked' /\ Covered' /\ Alone'
  <2>1. Checked /\ Covered /\ Alone
    BY <1>2 DEF LayerOK
  <2>2. Checked'
    BY <2>1 DEF Checked, Cleared
  <2>3. Covered'
    BY <2>1 DEF Covered, Left
  <2>4. \A r \in Req : Merging(r)' => Merging(r)
    BY DEF Merging, Left
  <2>5. QED
    BY <2>1, <2>2, <2>3, <2>4 DEF Alone
<1>3. QED
  BY <1>1, <1>2 DEF LayerOK

-----------------------------------------------------------------------------
(***************************************************************************)
(* What the host does to the layers: a pivot ends, or a job does.          *)
(***************************************************************************)
LEMMA LayerHost ==
  ASSUME TypeOK, JobOK, ReadOnlyOK, LayerOK, PowerOff \/ HostStep, UNCHANGED raced,
         \A r \in Req : Same(r) \/ Aside(r)
  PROVE  ReadOnlyOK' /\ LayerOK'
<1>1. \A d \in Disk : top[d] \in Nat /\ (job[d] # "none" => top[d] > 0)
  BY DEF TypeOK, HostTypeOK, JobOK
<1>2. \A d \in Disk :
        \/ top'[d] = top[d] /\ (job'[d] = "pivoting" => job[d] = "pivoting")
                            /\ (job[d] = "none" => job'[d] = "none")
        \/ top'[d] = top[d] - 1 /\ job[d] = "pivoting" /\ job'[d] = "none"
  <2>1. CASE PowerOff
    <3>1. job' = [d \in Disk |-> "none"]
      BY <2>1 DEF PowerOff
    <3>2. PICK pivoted \in SUBSET {d \in Disk : job[d] = "pivoting"} :
            top' = [d \in Disk |-> IF d \in pivoted THEN top[d] - 1 ELSE top[d]]
      BY <2>1 DEF PowerOff
    <3>3. QED
      BY <3>1, <3>2
  <2>2. ASSUME NEW d \in Disk, JobReady(d) \/ PivotCompletes(d) \/ JobAborts(d) \/ PivotFails(d)
        PROVE  \A e \in Disk :
          \/ top'[e] = top[e] /\ (job'[e] = "pivoting" => job[e] = "pivoting")
                              /\ (job[e] = "none" => job'[e] = "none")
          \/ top'[e] = top[e] - 1 /\ job[e] = "pivoting" /\ job'[e] = "none"
    BY <2>2 DEF JobReady, PivotCompletes, JobAborts, PivotFails, TypeOK, HostTypeOK
  <2>3. QED
    BY <2>1, <2>2 DEF HostStep, GuestPowersOff
<1>3. ReadOnlyOK'
  BY <1>1, <1>2 DEF ReadOnlyOK
<1>4. ASSUME ~raced' PROVE Checked' /\ Covered' /\ Alone'
  <2> USE DEF Same, Aside, Backing, Tracked, Flying, Copying, Committing
  <2>1. Checked /\ Covered /\ Alone
    BY <1>4 DEF LayerOK
  <2>2. \A d \in Disk : top'[d] \in {0, 1} /\ (top[d] = 0 => top'[d] = 0)
    BY <1>1, <1>2, <2>1 DEF Checked
  <2>3. Checked'
    BY <2>1, <2>2 DEF Checked, Cleared
  <2>4. Covered'
    BY <1>2, <2>1, DiskAssumption DEF Covered, Left
  <2>5. \A r \in Req : Merging(r)' => Merging(r)
    BY DEF Merging, Left
  <2>6. QED
    BY <2>1, <2>3, <2>4, <2>5 DEF Alone
<1>5. QED
  BY <1>3, <1>4 DEF LayerOK

(***************************************************************************)
(* The steps of a MakeBackup.                                              *)
(***************************************************************************)
LEMMA LayerBackup ==
  ASSUME Known, ReadOnlyOK, LayerOK, NEW r \in Req, op[r] = "MakeBackup",
         \/ Overlay(r) \/ Paths(r) \/ Open(r) \/ Copy(r) \/ Snapshot(r) \/ Relist(r) \/ Commit(r)
         \/ WaitTimeout(r) \/ WaitEnds(r) \/ Pivot(r) \/ Delete(r)
  PROVE  ReadOnlyOK' /\ LayerOK'
<1> USE DEF Backing, Copying, Committing
<1>a. /\ pc \in [Req -> Label] /\ at \in [Req -> Disk] /\ at[r] \in Disk
      /\ paths \in [Req -> [Disk -> Nat]] /\ top \in [Disk -> Nat]
      /\ job \in [Disk -> {"none", "running", "ready", "pivoting"}]
  BY DEF Known, TypeOK, LocalTypeOK, HostTypeOK
<1>b. \A d \in Disk : d \in Nat
  BY DiskFacts
<1>q. Quiet => ReadOnlyOK' /\ LayerOK'
  BY LayerQuiet
<1>f. Fail(r) /\ UNCHANGED <<hostVars, op, at, paths, saved, raced>> => ReadOnlyOK' /\ LayerOK'
  BY <1>q, FailQuiet DEF Known
<1>1. CASE Overlay(r)
  <2>1. CASE ~(\A d \in Disk : top[d] = 0) \/ dom = "absent"
    BY <1>1, <2>1, <1>f DEF Overlay, localVars
  <2>2. CASE (\A d \in Disk : top[d] = 0) /\ dom # "absent"
    <3>1. UNCHANGED <<top, job, raced, op, at, paths>> /\ pc' = [pc EXCEPT ![r] = "paths"]
      BY <1>1, <2>2 DEF Overlay, Goto, hostVars, localVars
    <3>2. pc[r] = "overlay"
      BY <1>1 DEF Overlay
    <3>3. QED
      BY <3>1, <3>2, <2>2, <1>a
      DEF ReadOnlyOK, LayerOK, Checked, Covered, Alone, Merging, Left, Cleared
  <2>3. QED
    BY <2>1, <2>2
<1>2. CASE Paths(r)
  <2>1. CASE dom = "absent"
    BY <1>2, <2>1, <1>f DEF Paths
  <2>2. CASE dom # "absent"
    <3>1. /\ UNCHANGED <<top, job, raced, op, at>>
          /\ pc' = [pc EXCEPT ![r] = "snapshot"]
          /\ paths' = [paths EXCEPT ![r] = top]
      BY <1>2, <2>2 DEF Paths, ReadPaths, Goto, hostVars
    <3>2. pc[r] = "paths"
      BY <1>2 DEF Paths
    <3>3. ASSUME ~raced' PROVE Checked'
      <4>1. Checked
        BY <3>1, <3>3 DEF LayerOK
      <4>2. \A d \in Disk : top[d] = 0
        BY <4>1, <3>2 DEF Checked, Cleared
      <4>3. QED
        BY <4>1, <4>2, <3>1, <3>2, <1>a DEF Checked, Cleared
    <3>4. QED
      BY <3>1, <3>2, <3>3, <1>a DEF ReadOnlyOK, LayerOK, Covered, Alone, Merging, Left
  <2>3. QED
    BY <2>1, <2>2
<1>3. CASE Open(r)
  <2>1. CASE Path(r) \notin files
    BY <1>3, <2>1, <1>f DEF Open, localVars
  <2>2. CASE Path(r) \in files
    <3>1. UNCHANGED <<top, job, raced, op, at, paths>> /\ pc' = [pc EXCEPT ![r] = "copy"]
      BY <1>3, <2>2 DEF Open, Goto, hostVars, localVars
    <3>2. pc[r] = "open"
      BY <1>3 DEF Open
    <3>3. QED
      BY <3>1, <3>2, <1>a DEF ReadOnlyOK, LayerOK, Checked, Covered, Alone, Merging, Left, Cleared
  <2>3. QED
    BY <2>1, <2>2
<1>4. CASE Copy(r)
  <2>1. UNCHANGED <<top, job, raced, op, paths>> /\ pc[r] = "copy"
    BY <1>4 DEF Copy, hostVars
  <2>2. PICK label \in {"open", "relist"}, d \in Disk :
          pc' = [pc EXCEPT ![r] = label] /\ at' = [at EXCEPT ![r] = d]
    BY <1>4, <1>a, DiskFacts DEF Copy, NextDisk, Goto
  <2>3. QED
    BY <2>1, <2>2, <1>a DEF ReadOnlyOK, LayerOK, Checked, Covered, Alone, Merging, Left, Cleared
<1>5. CASE Snapshot(r)
  <2>1. CASE ~CanSnapshot
    BY <1>5, <2>1, <1>f DEF Snapshot, localVars
  <2>2. CASE CanSnapshot
    <3>1. /\ UNCHANGED <<job, op, at, paths>>
          /\ pc[r] = "snapshot" /\ pc' = [pc EXCEPT ![r] = "open"]
          /\ raced' = (raced \/ \E q \in Req \ {r} : Cleared(q))
          /\ top' = [d \in Disk |-> IF d \in Writable THEN top[d] + 1 ELSE top[d]]
      BY <1>5, <2>2 DEF Snapshot, TakeSnapshot, Goto, localVars
    <3>2. Writable # {} /\ \A d \in Writable : job[d] = "none"
      BY <2>2 DEF CanSnapshot
    <3>3. ReadOnlyOK'
      BY <3>1 DEF ReadOnlyOK
    <3>4. ASSUME ~raced' PROVE Checked' /\ Covered' /\ Alone'
      <4>1. Checked /\ Covered /\ Alone /\ \A q \in Req \ {r} : ~Cleared(q)
        BY <3>1, <3>4 DEF LayerOK
      <4>2. \A d \in Disk : top[d] = 0
        BY <4>1, <3>1 DEF Checked, Cleared
      <4>3. \A d \in Disk : top'[d] = IF d \in Writable THEN 1 ELSE 0
        BY <4>2, <3>1
      <4>4. \A q \in Req : ~Merging(q)
        BY <4>1, <4>2, DiskAssumption DEF Covered, Merging, Left
      <4>5. \A q \in Req \ {r} : pc'[q] = pc[q]
        BY <3>1, <1>a
      <4>6. \A q \in Req \ {r} : ~Merging(q)' /\ ~Cleared(q)'
        BY <4>1, <4>4, <4>5, <3>1 DEF Merging, Left, Cleared
      <4>7. pc'[r] = "open"
        BY <3>1, <1>a
      <4>8. Checked'
        BY <4>1, <4>3, <4>5, <4>6, <4>7, <3>1 DEF Checked, Cleared
      <4>9. Covered'
        BY <4>3, <4>6, <4>7, <3>1, <3>2, DiskAssumption DEF Covered, Merging, Left
      <4>10. Alone'
        BY <4>6 DEF Alone
      <4>11. QED
        BY <4>8, <4>9, <4>10
    <3>5. QED
      BY <3>3, <3>4 DEF LayerOK
  <2>3. QED
    BY <2>1, <2>2
<1>6. CASE Relist(r)
  <2>1. CASE dom = "absent"
    BY <1>6, <2>1, <1>f DEF Relist
  <2>2. CASE dom # "absent"
    <3>1. /\ UNCHANGED <<top, job, raced, op, at>>
          /\ pc[r] = "relist" /\ pc' = [pc EXCEPT ![r] = "commit"]
          /\ paths' = [paths EXCEPT ![r] = top]
      BY <1>6, <2>2 DEF Relist, ReadPaths, Goto, hostVars
    <3>2. QED
      BY <3>1, <1>a DEF ReadOnlyOK, LayerOK, Checked, Covered, Alone, Merging, Left, Cleared
  <2>3. QED
    BY <2>1, <2>2
<1>7. CASE Commit(r)
  <2>1. CASE ~CanCommit(at[r])
    BY <1>7, <2>1, <1>f DEF Commit
  <2>2. CASE CanCommit(at[r])
    <3>1. /\ UNCHANGED <<top, raced, op, at, paths>>
          /\ pc[r] = "commit" /\ pc' = [pc EXCEPT ![r] = "wait"]
          /\ job' = [job EXCEPT ![at[r]] = "running"]
      BY <1>7, <2>2 DEF Commit, StartCommit, Goto
    <3>2. at[r] \in Left(r) /\ Merging(r)
      BY <2>2, <3>1, <1>a, <1>b DEF CanCommit, ReadOnlyOK, Left, Merging
    <3>3. ASSUME ~raced' PROVE Covered'
      <4>1. Covered /\ Alone
        BY <3>1, <3>3 DEF LayerOK
      <4>2. \A q \in Req : Backing(q, Copying) => q = r
        BY <4>1, <3>2 DEF Alone, Merging
      <4>3. QED
        BY <4>1, <4>2, <3>1, <1>a, DiskAssumption DEF Covered, Left
    <3>4. QED
      BY <3>1, <3>3, <1>a DEF ReadOnlyOK, LayerOK, Checked, Alone, Merging, Left, Cleared
  <2>3. QED
    BY <2>1, <2>2
<1>8. CASE WaitTimeout(r)
  <2>1. UNCHANGED <<top, job, raced, op, paths>> /\ pc[r] = "wait"
    BY <1>8 DEF WaitTimeout, hostVars
  <2>2. \/ at[r] < NDisks /\ pc' = [pc EXCEPT ![r] = "commit"] /\ at' = [at EXCEPT ![r] = @ + 1]
        \/ pc' = [pc EXCEPT ![r] = "delete"] /\ at' = [at EXCEPT ![r] = 1]
    BY <1>8 DEF WaitTimeout, NextDisk, Goto
  <2>3. \A q \in Req \ {r} : Same(q)
    BY <2>1, <2>2, <1>a DEF Same
  <2>4. Backing(r, Committing)' => Left(r)' \subseteq Left(r)
    BY <2>1, <2>2, <1>a, <1>b, DiskAssumption DEF Left
  <2>5. ~Backing(r, Copying)' /\ pc'[r] \in {"commit", "delete"}
    BY <2>1, <2>2, <1>a
  <2>6. \A q \in Req : Merging(q)' => Merging(q)
    BY <2>1, <2>3, <2>4, <2>5 DEF Merging, Left, Same
  <2>7. Checked => Checked'
    BY <2>1, <2>3, <2>5 DEF Checked, Cleared, Same
  <2>8. Covered => Covered'
    BY <2>1, <2>3, <2>4, <2>5 DEF Covered, Left, Same
  <2>9. QED
    BY <2>1, <2>6, <2>7, <2>8 DEF ReadOnlyOK, LayerOK, Alone
<1>9. CASE WaitEnds(r)
  <2>1. /\ UNCHANGED <<top, job, raced, op, at, paths>>
        /\ pc[r] = "wait" /\ pc' = [pc EXCEPT ![r] = "pivot"]
    BY <1>9 DEF WaitEnds, Goto, hostVars, localVars
  <2>2. QED
    BY <2>1, <1>a DEF ReadOnlyOK, LayerOK, Checked, Covered, Alone, Merging, Left, Cleared
<1>10. CASE Pivot(r)
  <2>1. CASE ~CanPivot(at[r])
    BY <1>10, <2>1, <1>f DEF Pivot, hostVars
  <2>2. CASE CanPivot(at[r])
    <3>1. /\ UNCHANGED <<top, raced, op, paths>> /\ pc[r] = "pivot"
          /\ job' = [job EXCEPT ![at[r]] = "pivoting"]
      BY <1>10, <2>2 DEF Pivot, StartPivot
    <3>2. \/ pc' = [pc EXCEPT ![r] = "commit"] /\ at' = [at EXCEPT ![r] = @ + 1]
          \/ pc' = [pc EXCEPT ![r] = "delete"] /\ at' = [at EXCEPT ![r] = 1]
      BY <1>10, <2>2 DEF Pivot, NextDisk, Goto
    <3>3. at[r] \in Left(r) /\ Merging(r)
      BY <2>2, <3>1, <1>a, <1>b DEF CanPivot, ReadOnlyOK, Left, Merging, Known, JobOK
    <3>4. \A q \in Req \ {r} : Same(q)
      BY <3>1, <3>2, <1>a DEF Same
    <3>5. ASSUME ~raced' PROVE Covered' /\ Alone'
      <4>1. Covered /\ Alone
        BY <3>1, <3>5 DEF LayerOK
      <4>2. \A q \in Req \ {r} : ~Merging(q)
        BY <4>1, <3>3 DEF Alone
      <4>3. \A q \in Req \ {r} : ~Merging(q)'
        BY <4>2, <3>4 DEF Merging, Left, Same
      <4>4. Backing(r, Committing)' => \A d \in Left(r)' : d \in Left(r) /\ d # at[r]
        BY <3>1, <3>2, <1>a, <1>b, DiskAssumption DEF Left
      <4>5. ~Backing(r, Copying)'
        BY <3>1, <3>2, <1>a
      <4>6. Covered'
        BY <4>1, <4>3, <4>4, <4>5, <3>1, <1>a, DiskAssumption DEF Covered, Merging, Left
      <4>7. QED
        BY <4>3, <4>6 DEF Alone
    <3>6. ASSUME ~raced' PROVE Checked'
      BY <3>1, <3>2, <3>6, <1>a DEF LayerOK, Checked, Cleared
    <3>7. QED
      BY <3>1, <3>5, <3>6 DEF ReadOnlyOK, LayerOK
  <2>3. QED
    BY <2>1, <2>2
<1>11. CASE Delete(r)
  <2>1. UNCHANGED <<top, job, raced, op, paths>> /\ pc[r] = "delete"
    BY <1>11 DEF Delete, hostVars, RemoveFile
  <2>2. \E label \in {"delete", "verify", "error"}, d \in Disk :
          pc' = [pc EXCEPT ![r] = label] /\ at' = [at EXCEPT ![r] = d]
    BY <1>11, <1>a, DiskFacts DEF Delete, NextDisk, Fail, Goto
  <2>3. QED
    BY <2>1, <2>2, <1>a DEF ReadOnlyOK, LayerOK, Checked, Covered, Alone, Merging, Left, Cleared
<1>12. QED
  BY <1>1, <1>2, <1>3, <1>4, <1>5, <1>6, <1>7, <1>8, <1>9, <1>10, <1>11

\* The domain or its jobs change; of the requests at most a Destroy moves.
HostMove ==
  /\ PowerOff \/ HostStep
  /\ UNCHANGED <<raced, saved>>
  /\ \A r \in Req : Same(r) \/ Aside(r)
  /\ Steady' => HostStep

BackupStep(r) ==
  /\ op[r] = "MakeBackup"
  /\ \/ Overlay(r) \/ Paths(r) \/ Open(r) \/ Copy(r) \/ Snapshot(r) \/ Relist(r) \/ Commit(r)
     \/ WaitTimeout(r) \/ WaitEnds(r) \/ Pivot(r) \/ Delete(r)

(***************************************************************************)
(* Every step is quiet, one of the host, or one of a MakeBackup.           *)
(***************************************************************************)
LEMMA Kinds ==
  TypeOK /\ OpOK /\ [Next]_vars => Quiet \/ HostMove \/ \E r \in Req : BackupStep(r)
<1> SUFFICES ASSUME TypeOK, OpOK, [Next]_vars
             PROVE  Quiet \/ HostMove \/ \E r \in Req : BackupStep(r)
  OBVIOUS
<1>1. ASSUME NEW r \in Req, Enter(r) \/ Step(r) \/ Fault(r), ~Kill(r)
      PROVE  Quiet \/ BackupStep(r)
  <2>1. Snapshot(r) \/ Relist(r) \/ Commit(r) \/ WaitTimeout(r) \/ WaitEnds(r) \/ Pivot(r)
          \/ Delete(r) => op[r] = "MakeBackup"
    BY DEF OpOK, Snapshot, Relist, Commit, WaitTimeout, WaitEnds, Pivot, Delete
  <2>2. QED
    BY <1>1, <2>1, QuietSteps DEF Step, Check, Backup, Destroy, BackupStep
<1>2. ASSUME NEW r \in Req, Kill(r) PROVE Quiet \/ HostMove
  <2>1. op[r] = "Destroy" /\ UNCHANGED <<op, at, paths, saved, raced>>
    BY <1>2 DEF Kill, OpOK, AfterCopy, localVars
  <2>2. CASE ~PowerOff
    BY <1>2, <2>1, <2>2, FailQuiet DEF Kill
  <2>3. CASE PowerOff
    <3>1. \A q \in Req : Same(q) \/ Aside(q)
      BY <1>2, <2>1 DEF Kill, Fail, Goto, Same, Aside, Backing, TypeOK, LocalTypeOK
    <3>2. ~Steady'
      BY <2>1 DEF Steady
    <3>3. QED
      BY <2>1, <2>3, <3>1, <3>2 DEF HostMove
  <2>4. QED
    BY <2>2, <2>3
<1>3. CASE Crash
  <2>1. ASSUME NEW r \in Req PROVE Quiet
    BY <1>3, QuietSteps
  <2>2. QED
    BY <1>3, <2>1 DEF Crash
<1>4. CASE Host
  BY <1>4 DEF Host, HostMove, Same, localVars
<1>5. CASE UNCHANGED vars
  BY <1>5, StutterQuiet
<1>6. QED
  BY <1>1, <1>2, <1>3, <1>4, <1>5 DEF Next, Finished

(***************************************************************************)
(* Every step keeps what LayerOK says of the layers.                       *)
(***************************************************************************)
LEMMA LayerStep ==
  Known /\ ReadOnlyOK /\ LayerOK /\ [Next]_vars => ReadOnlyOK' /\ LayerOK'
<1> SUFFICES ASSUME Known, ReadOnlyOK, LayerOK, [Next]_vars PROVE ReadOnlyOK' /\ LayerOK'
  OBVIOUS
<1>1. TypeOK /\ OpOK /\ JobOK
  BY DEF Known
<1>2. CASE Quiet
  BY <1>2, LayerQuiet
<1>3. CASE HostMove
  BY <1>1, <1>3, LayerHost DEF HostMove
<1>4. ASSUME NEW r \in Req, BackupStep(r) PROVE ReadOnlyOK' /\ LayerOK'
  BY <1>4, LayerBackup DEF BackupStep
<1>5. QED
  BY <1>1, <1>2, <1>3, <1>4, Kinds

-----------------------------------------------------------------------------
(***************************************************************************)
(* LayerInv holds throughout every behaviour.                              *)
(***************************************************************************)
LayerInv == IInv /\ OpOK /\ ReadOnlyOK /\ LayerOK

LEMMA LayerInvariance == Safe => []LayerInv
<1>1. Init => OpOK /\ ReadOnlyOK /\ LayerOK
  <2> SUFFICES ASSUME Init PROVE OpOK /\ ReadOnlyOK /\ LayerOK
    OBVIOUS
  <2>1. \A r \in Req : pc[r] = "idle" /\ op[r] = "none"
    BY DEF Init
  <2>2. \A d \in Disk : top[d] = 0
    BY DEF Init, HostInit
  <2>3. OpOK
    BY <2>1 DEF OpOK, AfterCopy
  <2>4. ReadOnlyOK
    BY <2>2 DEF ReadOnlyOK
  <2>5. Checked /\ Covered /\ Alone
    BY <2>1, <2>2 DEF Checked, Covered, Alone, Merging, Backing, Cleared
  <2>6. QED
    BY <2>3, <2>4, <2>5 DEF LayerOK
<1>2. IInv /\ OpOK => Known
  BY DEF IInv, Known
<1>3. IInv /\ OpOK /\ ReadOnlyOK /\ LayerOK /\ [Next]_vars => OpOK' /\ ReadOnlyOK' /\ LayerOK'
  BY <1>2, OpStep, LayerStep DEF Known
<1>4. QED
  BY <1>1, <1>3, Invariance, PTL DEF Safe, LayerInv

(***************************************************************************)
(* The image MakeBackup is compressing is written to by nobody.            *)
(***************************************************************************)
THEOREM QuietImages == Safe => []BackupReadsQuietImage
<1>1. LayerInv => BackupReadsQuietImage
  <2> SUFFICES ASSUME LayerInv, ~raced, NEW r \in Req, op[r] = "MakeBackup", pc[r] = "copy",
                      BeingWritten(at[r], paths[r][at[r]])
               PROVE  FALSE
    BY DEF BackupReadsQuietImage
  <2>1. at[r] \in Disk /\ at[r] \in Writable
    BY DEF LayerInv, IInv, TypeOK, LocalTypeOK, BeingWritten
  <2>2. paths[r][at[r]] = 0
    BY <2>1 DEF LayerInv, LayerOK, Checked, Backing
  <2>3. top[at[r]] = 1 /\ job[at[r]] = "none"
    BY <2>1 DEF LayerInv, LayerOK, Covered, Backing, Copying
  <2>4. QED
    BY <2>2, <2>3 DEF BeingWritten
<1>2. QED
  BY <1>1, LayerInvariance, PTL

-----------------------------------------------------------------------------
(***************************************************************************)
(* The overlay files.  What a MakeBackup lists before it merges is the one *)
(* layer there is, and that is what it deletes.  It merges and deletes     *)
(* from the first disk on.                                                 *)
(***************************************************************************)
\* Request r has made the overlay of disk d and not deleted it yet.
OverlayOf(r, d) ==
  \/ Backing(r, Flying)
  \/ Backing(r, {"delete"}) /\ d >= at[r]

Listed ==
  \A r \in Req :
    /\ Backing(r, Committing \union {"delete"}) => \A d \in Writable : paths[r][d] = 1
    /\ Backing(r, {"relist"}) => at[r] = 1

FileOK == ~raced => Listed

(***************************************************************************)
(* Steps that move no request among the labels keep FileOK.                *)
(***************************************************************************)
LEMMA FileQuiet ==
  ASSUME FileOK, UNCHANGED raced, \A r \in Req : Same(r) \/ Aside(r)
  PROVE  FileOK'
BY DEF FileOK, Listed, Same, Aside, Backing, Tracked, Flying, Copying, Committing

(***************************************************************************)
(* The steps of a MakeBackup keep FileOK: only Relist leads to the labels  *)
(* it is about.                                                            *)
(***************************************************************************)
LEMMA FileBackup ==
  ASSUME Known, LayerOK, FileOK, NEW r \in Req, BackupStep(r)
  PROVE  FileOK'
<1> USE DEF Backing, Flying, Copying, Committing
<1>a. /\ pc \in [Req -> Label] /\ at \in [Req -> Disk]
      /\ paths \in [Req -> [Disk -> Nat]] /\ top \in [Disk -> Nat]
      /\ Writable \subseteq Disk /\ op[r] = "MakeBackup" /\ op' = op
  BY DiskAssumption
  DEF Known, TypeOK, LocalTypeOK, HostTypeOK, BackupStep, Overlay, Paths, Open, Copy, Snapshot,
     Relist, Commit, WaitTimeout, WaitEnds, Pivot, Delete, localVars
<1>1. CASE Relist(r)
  <2>1. CASE dom = "absent"
    BY <1>1, <2>1, FailQuiet, FileQuiet DEF Relist, Known, Quiet
  <2>2. CASE dom # "absent"
    <3>1. /\ UNCHANGED <<raced, at>> /\ pc[r] = "relist" /\ pc' = [pc EXCEPT ![r] = "commit"]
          /\ paths' = [paths EXCEPT ![r] = top]
      BY <1>1, <2>2 DEF Relist, ReadPaths, Goto
    <3>2. ~raced => \A d \in Writable : top[d] = 1
      BY <3>1, <1>a DEF LayerOK, Covered
    <3>3. QED
      BY <3>1, <3>2, <1>a DEF FileOK, Listed
  <2>3. QED
    BY <2>1, <2>2
<1>2. CASE Paths(r)
  <2>1. /\ UNCHANGED <<raced, at>> /\ pc' \in {[pc EXCEPT ![r] = l] : l \in {"error", "snapshot"}}
        /\ \A q \in Req \ {r} : paths'[q] = paths[q]
    BY <1>2, <1>a DEF Paths, ReadPaths, Goto, Fail
  <2>2. QED
    BY <2>1, <1>a DEF FileOK, Listed
<1>3. CASE Overlay(r) \/ Open(r) \/ Snapshot(r)
  <2>1. /\ UNCHANGED <<paths, at>> /\ (~raced' => ~raced)
        /\ pc' \in {[pc EXCEPT ![r] = l] : l \in {"error", "paths", "open", "copy"}}
    BY <1>3, <1>a DEF Overlay, Open, Snapshot, Goto, Fail, localVars
  <2>2. QED
    BY <2>1, <1>a DEF FileOK, Listed
<1>4. CASE Copy(r)
  <2>1. /\ UNCHANGED <<paths, raced>>
        /\ \/ pc' = [pc EXCEPT ![r] = "open"] /\ at' = [at EXCEPT ![r] = @ + 1]
           \/ pc' = [pc EXCEPT ![r] = "relist"] /\ at' = [at EXCEPT ![r] = 1]
    BY <1>4, <1>a DEF Copy, NextDisk, Goto
  <2>2. QED
    BY <2>1, <1>a DEF FileOK, Listed
<1>5. CASE Commit(r) \/ WaitTimeout(r) \/ WaitEnds(r) \/ Pivot(r) \/ Delete(r)
  <2>1. UNCHANGED <<paths, raced>> /\ pc[r] \in Committing \union {"delete"} /\ pc'[r] # "relist"
    BY <1>5, <1>a
    DEF Commit, WaitTimeout, WaitEnds, Pivot, Delete, NextDisk, Goto, Fail, localVars
  <2>2. \A q \in Req \ {r} : pc'[q] = pc[q] /\ at'[q] = at[q]
    BY <1>5, <1>a DEF Commit, WaitTimeout, WaitEnds, Pivot, Delete, NextDisk, Goto, Fail, localVars
  <2>3. QED
    BY <2>1, <2>2, <1>a DEF FileOK, Listed
<1>6. QED
  BY <1>1, <1>2, <1>3, <1>4, <1>5 DEF BackupStep

(***************************************************************************)
(* Every step keeps what FileOK says of the lists.                         *)
(***************************************************************************)
LEMMA FileStep == Known /\ LayerOK /\ FileOK /\ [Next]_vars => FileOK'
BY Kinds, FileQuiet, FileBackup DEF Known, Quiet, HostMove

-----------------------------------------------------------------------------
(***************************************************************************)
(* The chains.  While things are steady, an overlay is there from the      *)
(* snapshot until its request deletes it, which it does not do before the  *)
(* pivot.                                                                  *)
(***************************************************************************)
Running ==
  /\ ~acpi
  /\ \A r \in Req : Backing(r, Flying) => dom = "on"

Present ==
  /\ \A d \in Disk : <<d, 0>> \in files
  /\ \A r \in Req, d \in Writable : OverlayOf(r, d) => <<d, 1>> \in files
  /\ \A r, q \in Req, d, e \in Writable : OverlayOf(r, d) /\ OverlayOf(q, e) => r = q

Leaving(d) == top[d] = 0 \/ job[d] = "pivoting"

Pivoted ==
  \A r \in Req :
    /\ Backing(r, Committing) => \A d \in Writable : d < at[r] => Leaving(d)
    /\ Backing(r, {"delete"}) => \A d \in Left(r) : Leaving(d)

Chained ==
  \A d \in Disk : top[d] = 1 => <<d, 1>> \in files \/ job[d] = "pivoting"

ChainOK == Steady /\ ~raced => Running /\ Present /\ Pivoted /\ Chained

(***************************************************************************)
(* Steps that touch no image, layer or job keep the chains.                *)
(***************************************************************************)
LEMMA ChainQuiet ==
  ASSUME Running, Present, Pivoted, Chained, UNCHANGED <<files, top, job, acpi>>,
         dom = "on" => dom' = "on", \A r \in Req : Same(r) \/ Aside(r)
  PROVE  Running' /\ Present' /\ Pivoted' /\ Chained'
<1> USE DEF Same, Aside, Backing, Tracked, Flying, Copying, Committing
<1>1. Running'
  BY DEF Running
<1>2. \A r \in Req, d \in Writable : OverlayOf(r, d)' => OverlayOf(r, d)
  BY DEF OverlayOf
<1>3. Present'
  BY <1>2 DEF Present
<1>4. Pivoted'
  BY DEF Pivoted, Leaving, Left
<1>5. Chained'
  BY DEF Chained
<1>6. QED
  BY <1>1, <1>3, <1>4, <1>5

(***************************************************************************)
(* While things are steady the host only ends jobs and pivots.             *)
(***************************************************************************)
LEMMA ChainHost ==
  ASSUME TypeOK, JobOK, LayerOK, Steady, Steady', ~raced, HostMove,
         Running, Present, Pivoted, Chained
  PROVE  Running' /\ Present' /\ Pivoted' /\ Chained'
<1>a. /\ \A r \in Req : Same(r) \/ Aside(r)
      /\ \A d \in Disk : top[d] \in {0, 1} /\ (job[d] # "none" => top[d] > 0)
      /\ job \in [Disk -> {"none", "running", "ready", "pivoting"}] /\ top \in [Disk -> Nat]
  BY DEF HostMove, LayerOK, Checked, JobOK, TypeOK, HostTypeOK
<1>1. ~GuestPowersOff /\ \A d \in Disk : ~PivotFails(d)
  <2>1. ASSUME NEW a \in {"off", "pivotfail"}, Spend(a) PROVE FALSE
    BY <2>1 DEF Spend, Steady, TypeOK, HostTypeOK, Adversity
  <2>2. QED
    BY <2>1 DEF GuestPowersOff, PivotFails, Running
<1>2. PICK d \in Disk : JobReady(d) \/ PivotCompletes(d) \/ JobAborts(d)
  BY <1>1 DEF HostMove, HostStep
<1>3. UNCHANGED <<dom, files, acpi>>
  BY <1>2 DEF JobReady, PivotCompletes, JobAborts
<1>4. \A e \in Disk :
        \/ top'[e] = top[e] /\ (job[e] = "pivoting" => job'[e] = "pivoting")
        \/ top'[e] = 0
  BY <1>2, <1>a DEF JobReady, PivotCompletes, JobAborts
<1>5. \A e \in Disk : Leaving(e) => Leaving(e)'
  BY <1>2, <1>a DEF JobReady, PivotCompletes, JobAborts, Leaving
<1> USE DEF Same, Aside, Backing, Tracked, Flying, Copying, Committing
<1>6. Running'
  BY <1>3, <1>a DEF Running
<1>7. \A r \in Req, e \in Writable : OverlayOf(r, e)' => OverlayOf(r, e)
  BY <1>a DEF OverlayOf
<1>8. Present'
  BY <1>3, <1>7 DEF Present
<1>9. Pivoted'
  BY <1>5, <1>a, DiskAssumption DEF Pivoted, Left
<1>10. Chained'
  BY <1>3, <1>4 DEF Chained
<1>11. QED
  BY <1>6, <1>8, <1>9, <1>10

(***************************************************************************)
(* The steps of a MakeBackup keep the chains: the snapshot adds a file to  *)
(* each chain, and the overlay deleted is one its disk has left or is      *)
(* leaving.                                                                *)
(***************************************************************************)
LEMMA ChainBackup ==
  ASSUME Known, ReadOnlyOK, LayerOK, FileOK, Steady, Steady', ~raced, ~raced',
         Running, Present, Pivoted, Chained, NEW r \in Req, BackupStep(r)
  PROVE  Running' /\ Present' /\ Pivoted' /\ Chained'
<1> USE DEF Backing, Flying, Copying, Committing
<1>a. /\ pc \in [Req -> Label] /\ at \in [Req -> Disk] /\ at[r] \in Disk
      /\ paths \in [Req -> [Disk -> Nat]] /\ top \in [Disk -> Nat]
      /\ job \in [Disk -> {"none", "running", "ready", "pivoting"}]
      /\ op[r] = "MakeBackup" /\ op' = op
  BY DEF Known, TypeOK, LocalTypeOK, HostTypeOK, BackupStep, Overlay, Paths, Open, Copy, Snapshot,
     Relist, Commit, WaitTimeout, WaitEnds, Pivot, Delete, localVars
<1>b. \A d \in Disk : d \in Nat
  BY DiskFacts
<1>c. Writable \subseteq Disk
  BY DiskAssumption
<1>f. Fail(r) /\ UNCHANGED <<hostVars, op, at, paths, saved, raced>>
        => Running' /\ Present' /\ Pivoted' /\ Chained'
  BY FailQuiet, ChainQuiet DEF Known, Quiet, hostVars
\* A step within the labels that own the overlays, or before them.
<1>g. ASSUME UNCHANGED <<dom, files, top, acpi>>, \A d \in Disk : Leaving(d) => Leaving(d)',
             \A d \in Disk : job[d] = "pivoting" => job'[d] = "pivoting",
             NEW label, pc' = [pc EXCEPT ![r] = label], \A q \in Req \ {r} : at'[q] = at[q],
             label \in Flying \union {"delete"} => pc[r] \in Flying,
             label \in Committing => \A d \in Writable : d < at'[r] => Leaving(d)',
             label = "delete" => \A d \in Writable : Leaving(d)'
      PROVE  Running' /\ Present' /\ Pivoted' /\ Chained'
  <2>1. \A q \in Req \ {r} : pc'[q] = pc[q]
    BY <1>a, <1>g
  <2>2. pc'[r] = label
    BY <1>a, <1>g
  <2>3. Running'
    BY <1>a, <1>g, <2>1, <2>2 DEF Running
  <2>4. \A q \in Req, d \in Writable : OverlayOf(q, d)' => OverlayOf(q, d)
    BY <1>a, <1>g, <2>1, <2>2 DEF OverlayOf
  <2>5. Present'
    BY <1>g, <2>4 DEF Present
  <2>6. Pivoted'
    BY <1>a, <1>c, <1>g, <2>1, <2>2 DEF Pivoted, Left
  <2>7. Chained'
    BY <1>g DEF Chained
  <2>8. QED
    BY <2>3, <2>5, <2>6, <2>7
<1>1. CASE Overlay(r)
  <2>1. UNCHANGED <<hostVars, at>> /\ \E label \in {"paths", "error"} : pc' = [pc EXCEPT ![r] = label]
    BY <1>1 DEF Overlay, Fail, Goto, localVars
  <2>2. QED
    BY <2>1, <1>g DEF hostVars, Leaving
<1>2. CASE Paths(r)
  <2>1. /\ UNCHANGED <<hostVars, at>>
        /\ \E label \in {"snapshot", "error"} : pc' = [pc EXCEPT ![r] = label]
    BY <1>2, <1>a DEF Paths, Fail, Goto
  <2>2. QED
    BY <2>1, <1>g DEF hostVars, Leaving
<1>3. CASE Open(r)
  <2>1. /\ UNCHANGED <<hostVars, at>> /\ pc[r] = "open"
        /\ \E label \in {"copy", "error"} : pc' = [pc EXCEPT ![r] = label]
    BY <1>3 DEF Open, Fail, Goto, localVars
  <2>2. QED
    BY <2>1, <1>g DEF hostVars, Leaving
<1>4. CASE Copy(r)
  <2>1. /\ UNCHANGED hostVars /\ pc[r] = "copy" /\ \A q \in Req \ {r} : at'[q] = at[q]
        /\ \E label \in {"open", "relist"} : pc' = [pc EXCEPT ![r] = label]
    BY <1>4, <1>a DEF Copy, NextDisk, Goto
  <2>2. QED
    BY <2>1, <1>g DEF hostVars, Leaving
<1>5. CASE Snapshot(r)
  <2>1. CASE ~CanSnapshot
    BY <1>5, <2>1, <1>f DEF Snapshot, localVars
  <2>2. CASE CanSnapshot
    <3>1. /\ UNCHANGED <<job, at, paths, dom, acpi>>
          /\ pc[r] = "snapshot" /\ pc' = [pc EXCEPT ![r] = "open"]
          /\ top' = [d \in Disk |-> IF d \in Writable THEN top[d] + 1 ELSE top[d]]
          /\ files' = files \union {<<d, top[d] + 1>> : d \in Writable}
      BY <1>5, <2>2 DEF Snapshot, TakeSnapshot, Goto, localVars
    <3>2. \A d \in Disk : top[d] = 0
      BY <3>1, <1>a DEF LayerOK, Checked, Cleared
    <3>3. dom = "on" /\ \A d \in Writable : <<d, 1>> \notin files /\ <<d, 1>> \in files'
      BY <2>2, <3>1, <3>2, <1>c DEF CanSnapshot
    <3>4. \A q \in Req, d \in Writable : ~OverlayOf(q, d)
      BY <3>3 DEF Present
    <3>5. \A q \in Req \ {r} : pc'[q] = pc[q]
      BY <3>1, <1>a
    <3>6. \A q \in Req \ {r}, d \in Writable : ~OverlayOf(q, d)'
      BY <3>1, <3>4, <3>5, <1>a DEF OverlayOf
    <3>7. Running'
      BY <3>1, <3>3 DEF Running
    <3>8. Present'
      BY <3>1, <3>3, <3>6 DEF Present
    <3>9. Pivoted'
      <4>1. \A q \in Req \ {r}, d \in Writable :
              ~Backing(q, Committing)' /\ ~(Backing(q, {"delete"})' /\ d >= at'[q])
        BY <3>6 DEF OverlayOf
      <4>2. pc'[r] = "open"
        BY <3>1, <1>a
      <4>3. QED
        BY <4>1, <4>2 DEF Pivoted, Left
    <3>10. Chained'
      BY <3>1, <3>2, <3>3, <1>c DEF Chained
    <3>11. QED
      BY <3>7, <3>8, <3>9, <3>10
  <2>3. QED
    BY <2>1, <2>2
<1>6. CASE Relist(r)
  <2>1. /\ UNCHANGED <<hostVars, at>> /\ pc[r] = "relist"
        /\ \E label \in {"commit", "error"} : pc' = [pc EXCEPT ![r] = label]
    BY <1>6, <1>a DEF Relist, Fail, Goto
  <2>2. \A d \in Writable : ~(d < at'[r])
    BY <2>1, <1>a, <1>c, DiskFacts DEF FileOK, Listed
  <2>3. QED
    BY <2>1, <2>2, <1>g DEF hostVars, Leaving
<1>7. CASE Commit(r)
  <2>1. CASE ~CanCommit(at[r])
    BY <1>7, <2>1, <1>f DEF Commit
  <2>2. CASE CanCommit(at[r])
    <3>1. /\ UNCHANGED <<dom, files, top, acpi, at>>
          /\ pc[r] = "commit" /\ pc' = [pc EXCEPT ![r] = "wait"]
          /\ job' = [job EXCEPT ![at[r]] = "running"] /\ job[at[r]] = "none" /\ top[at[r]] > 0
      BY <1>7, <2>2 DEF Commit, CanCommit, StartCommit, Goto
    <3>2. \A d \in Disk : Leaving(d) => Leaving(d)'
      BY <3>1, <1>a DEF Leaving
    <3>3. \A d \in Disk : job[d] = "pivoting" => job'[d] = "pivoting"
      BY <3>1, <1>a
    <3>4. \A d \in Writable : d < at'[r] => Leaving(d)'
      BY <3>1, <3>2, <1>a, <1>c DEF Pivoted
    <3>5. QED
      BY <3>1, <3>2, <3>3, <3>4, <1>g
  <2>3. QED
    BY <2>1, <2>2
<1>8. CASE WaitTimeout(r)
  <2>1. dom = "on"
    BY <1>8, <1>a DEF WaitTimeout, Running
  <2>2. Spend("stall")
    BY <1>8, <2>1 DEF WaitTimeout
  <2>3. QED
    BY <2>2 DEF Spend, Steady, Known, TypeOK, HostTypeOK, Adversity
<1>9. CASE WaitEnds(r)
  <2>1. UNCHANGED <<hostVars, at>> /\ pc[r] = "wait" /\ pc' = [pc EXCEPT ![r] = "pivot"]
    BY <1>9 DEF WaitEnds, Goto, localVars
  <2>2. \A d \in Writable : d < at'[r] => Leaving(d)'
    BY <2>1, <1>a, <1>c DEF Pivoted, Leaving, hostVars
  <2>3. QED
    BY <2>1, <2>2, <1>g DEF hostVars, Leaving
<1>10. CASE Pivot(r)
  <2>1. CASE ~CanPivot(at[r])
    BY <1>10, <2>1, <1>f DEF Pivot, hostVars
  <2>2. CASE CanPivot(at[r])
    <3>1. /\ UNCHANGED <<dom, files, top, acpi>> /\ pc[r] = "pivot"
          /\ job' = [job EXCEPT ![at[r]] = "pivoting"]
      BY <1>10, <2>2 DEF Pivot, StartPivot
    <3>2. \/ pc' = [pc EXCEPT ![r] = "commit"] /\ at' = [at EXCEPT ![r] = @ + 1]
          \/ /\ pc' = [pc EXCEPT ![r] = "delete"] /\ at' = [at EXCEPT ![r] = 1]
             /\ ~(at[r] < NDisks)
      BY <1>10, <2>2 DEF Pivot, NextDisk, Goto
    <3>3. \A d \in Disk : (Leaving(d) => Leaving(d)') /\ (d = at[r] => Leaving(d)')
      BY <3>1, <1>a DEF Leaving
    <3>4. \A d \in Disk : job[d] = "pivoting" => job'[d] = "pivoting"
      BY <3>1, <1>a
    <3>5. \A d \in Writable : d < at[r] \/ d = at[r] => Leaving(d)'
      BY <3>1, <3>3, <1>a, <1>c DEF Pivoted
    <3>6. \A q \in Req \ {r} : at'[q] = at[q]
      BY <3>2, <1>a
    <3>7. CASE pc' = [pc EXCEPT ![r] = "commit"] /\ at' = [at EXCEPT ![r] = @ + 1]
      <4>1. at'[r] = at[r] + 1
        BY <3>7, <1>a
      <4>2. \A d \in Writable : d < at'[r] => Leaving(d)'
        BY <4>1, <3>5, <1>a, <1>c, DiskFacts
      <4>3. QED
        BY <3>1, <3>3, <3>4, <3>6, <3>7, <4>2, <1>g
    <3>8. CASE pc' = [pc EXCEPT ![r] = "delete"] /\ ~(at[r] < NDisks)
      <4>1. \A d \in Writable : Leaving(d)'
        BY <3>5, <3>8, <1>a, <1>c, DiskFacts
      <4>2. QED
        BY <3>1, <3>3, <3>4, <3>6, <3>8, <4>1, <1>g
    <3>9. QED
      BY <3>2, <3>7, <3>8
  <2>3. QED
    BY <2>1, <2>2
<1>11. CASE Delete(r)
  <2>1. UNCHANGED <<dom, top, job, acpi, paths>> /\ pc[r] = "delete"
    BY <1>11 DEF Delete, hostVars, RemoveFile
  <2>2. CASE Fail(r) /\ UNCHANGED <<hostVars, at>>
    BY <2>1, <2>2, <1>a, <1>11, <1>f DEF Delete
  <2>3. CASE NextDisk(r, "delete", "verify")
    <3>1. \/ at[r] < NDisks /\ pc' = [pc EXCEPT ![r] = "delete"] /\ at' = [at EXCEPT ![r] = @ + 1]
          \/ pc' = [pc EXCEPT ![r] = "verify"] /\ at' = [at EXCEPT ![r] = 1]
      BY <2>3 DEF NextDisk, Goto
    <3>2. files' = files \/ (files' = files \ {Path(r)} /\ paths[r][at[r]] # 0)
      BY <1>11, <2>1, <2>3 DEF Delete, RemoveFile, hostVars, Fail, Goto, NextDisk
    <3>3. \A q \in Req \ {r} : Same(q)
      BY <2>1, <3>1, <1>a DEF Same
    <3>4. \A d \in Writable : OverlayOf(r, d)' => OverlayOf(r, d) /\ d # at[r]
      BY <2>1, <3>1, <1>a, <1>b, <1>c DEF OverlayOf
    <3>5. \A q \in Req, d \in Writable : OverlayOf(q, d)' => OverlayOf(q, d)
      BY <3>3, <3>4 DEF OverlayOf, Same
    <3>6. at[r] \in Writable => OverlayOf(r, at[r])
      BY <2>1, <1>a, <1>b DEF OverlayOf
    <3>7. \A q \in Req, d \in Writable : OverlayOf(q, d)' => d # at[r]
      BY <3>3, <3>4, <3>5, <3>6 DEF Present
    <3>8. \A d \in Disk, n \in Nat : <<d, n>> \in files /\ (n = 0 \/ d # at[r]) => <<d, n>> \in files'
      BY <3>2 DEF Path
    <3>9. Running'
      BY <2>1, <3>1, <3>3, <1>a DEF Running, Same
    <3>10. Present'
      <4>1. \A d \in Disk : <<d, 0>> \in files'
        BY <3>8 DEF Present
      <4>2. \A q \in Req, d \in Writable : OverlayOf(q, d)' => <<d, 1>> \in files'
        BY <3>5, <3>7, <3>8, <1>c DEF Present
      <4>3. QED
        BY <3>5, <4>1, <4>2 DEF Present
    <3>11. Pivoted'
      <4>1. \A q \in Req \ {r} :
              /\ Backing(q, Committing)' => \A d \in Writable : d < at'[q] => Leaving(d)'
              /\ Backing(q, {"delete"})' => \A d \in Left(q)' : Leaving(d)'
        BY <2>1, <3>3 DEF Pivoted, Same, Leaving, Left
      <4>2. /\ ~Backing(r, Committing)'
            /\ Backing(r, {"delete"})' => \A d \in Left(r)' : d \in Left(r)
        BY <3>1, <1>a, <1>b, <1>c DEF Left
      <4>3. \A d \in Left(r) : Leaving(d)'
        BY <2>1, <1>a DEF Pivoted, Leaving
      <4>4. QED
        BY <4>1, <4>2, <4>3 DEF Pivoted
    <3>12. Chained'
      <4>1. ASSUME NEW d \in Disk, top[d] = 1, d = at[r] PROVE job[d] = "pivoting"
        <5>1. d \in Left(r)
          BY <4>1, <1>b DEF Left, ReadOnlyOK
        <5>2. QED
          BY <4>1, <5>1, <2>1, <1>a DEF Pivoted, Leaving
      <4>2. QED
        BY <2>1, <3>8, <4>1 DEF Chained
    <3>13. QED
      BY <3>9, <3>10, <3>11, <3>12
  <2>4. QED
    BY <1>11, <2>2, <2>3 DEF Delete
<1>12. QED
  BY <1>1, <1>2, <1>3, <1>4, <1>5, <1>6, <1>7, <1>8, <1>9, <1>10, <1>11 DEF BackupStep

(***************************************************************************)
(* Every step keeps what ChainOK says of the chains.                       *)
(***************************************************************************)
LEMMA ChainStep ==
  Known /\ ReadOnlyOK /\ LayerOK /\ FileOK /\ ChainOK /\ [Next]_vars => ChainOK'
<1> SUFFICES ASSUME Known, ReadOnlyOK, LayerOK, FileOK, ChainOK, [Next]_vars, Steady', ~raced'
             PROVE  Running' /\ Present' /\ Pivoted' /\ Chained'
  BY DEF ChainOK
<1>1. Steady
  BY SteadyBefore DEF Known
<1>2. ASSUME NEW r \in Req, BackupStep(r) PROVE ~raced
  BY <1>2 DEF BackupStep, Overlay, Paths, Open, Copy, Snapshot, Relist, Commit, WaitTimeout,
     WaitEnds, Pivot, Delete
<1>3. Quiet \/ HostMove \/ \E r \in Req : BackupStep(r)
  BY Kinds DEF Known
<1>4. ~raced
  BY <1>2, <1>3 DEF Quiet, HostMove
<1>5. Running /\ Present /\ Pivoted /\ Chained
  BY <1>1, <1>4 DEF ChainOK
<1>6. CASE Quiet
  BY <1>5, <1>6, ChainQuiet DEF Quiet
<1>7. CASE HostMove
  BY <1>1, <1>4, <1>5, <1>7, ChainHost DEF Known
<1>8. ASSUME NEW r \in Req, BackupStep(r) PROVE Running' /\ Present' /\ Pivoted' /\ Chained'
  BY <1>1, <1>4, <1>5, <1>8, ChainBackup
<1>9. QED
  BY <1>3, <1>6, <1>7, <1>8

-----------------------------------------------------------------------------
(***************************************************************************)
(* BackupInv holds throughout every behaviour.                             *)
(***************************************************************************)
BackupInv == LayerInv /\ FileOK /\ ChainOK

LEMMA BackupInvariance == Safe => []BackupInv
<1>1. Init => FileOK /\ ChainOK
  <2> SUFFICES ASSUME Init PROVE FileOK /\ ChainOK
    OBVIOUS
  <2>1. \A r \in Req : op[r] = "none"
    BY DEF Init
  <2>2. files = Disk \X {0} /\ ~acpi /\ \A d \in Disk : top[d] = 0
    BY DEF Init, HostInit
  <2>3. \A d \in Disk : <<d, 0>> \in files
    BY <2>2
  <2>4. Listed
    BY <2>1 DEF Listed, Backing
  <2>5. Running /\ Present /\ Pivoted
    BY <2>1, <2>2, <2>3 DEF Running, Present, Pivoted, OverlayOf, Backing
  <2>6. Chained
    BY <2>2 DEF Chained
  <2>7. QED
    BY <2>4, <2>5, <2>6 DEF FileOK, ChainOK
<1>2. LayerInv => Known /\ ReadOnlyOK /\ LayerOK
  BY DEF LayerInv, IInv, Known
<1>3. LayerInv /\ FileOK /\ ChainOK /\ [Next]_vars => FileOK' /\ ChainOK'
  BY <1>2, FileStep, ChainStep
<1>4. QED
  BY <1>1, <1>3, LayerInvariance, PTL DEF Safe, BackupInv

(***************************************************************************)
(* As long as things are steady, no disk of the domain misses a layer that *)
(* it is not about to leave.                                               *)
(***************************************************************************)
THEOREM ChainsStayIntact == Safe => []ChainIntact
<1>1. BackupInv => ChainIntact
  <2> SUFFICES ASSUME BackupInv, Steady, ~raced, NEW d \in Disk, NEW n \in 0..top[d]
               PROVE  <<d, n>> \in files \/ (n = top[d] /\ job[d] = "pivoting")
    BY DEF ChainIntact
  <2>1. top[d] \in {0, 1}
    BY DEF BackupInv, LayerInv, LayerOK, Checked
  <2>2. n = 0 \/ (n = 1 /\ top[d] = 1)
    BY <2>1
  <2>3. QED
    BY <2>2 DEF BackupInv, ChainOK, Present, Chained
<1>2. QED
  BY <1>1, BackupInvariance, PTL

\* A MakeBackup answers TRUE at the end of its last look at the disks only.
LEMMA AnsweredByVerify ==
  ASSUME TypeOK, OpOK, [Next]_vars, NEW r \in Req, op[r] = "MakeBackup", pc[r] # "ok",
         pc'[r] = "ok"
  PROVE  Verify(r)
<1> USE DEF TypeOK, LocalTypeOK
<1>1. ASSUME NEW q \in Req, Enter(q) \/ Check(q) PROVE FALSE
  BY <1>1 DEF Enter, Check, Lookup, Power, Jobs, Job, Overlay, Paths, NextDisk, AfterJobs, Fail, Goto
<1>2. ASSUME NEW q \in Req, Backup(q) PROVE Verify(r)
  BY <1>2 DEF Backup, Open, Copy, Snapshot, Relist, Commit, WaitTimeout, PollReady, WaitEnds, Pivot,
     Delete, Verify, NextDisk, Fail, Goto
<1>3. ASSUME NEW q \in Req, Destroy(q) PROVE FALSE
  <2>1. pc[q] \in AfterCopy
    BY <1>3 DEF Destroy, ReadPersistent, ReadActive, Kill, UndefineDomain, ListPools, Erase, Confirm,
       AfterCopy
  <2>2. q # r
    BY <2>1 DEF OpOK
  <2>3. pc'[r] = pc[r]
    BY <1>3, <2>2 DEF Destroy, ReadPersistent, ReadActive, Kill, UndefineDomain, ListPools, Erase,
       Confirm, NextDisk, AfterKill, Fail, Goto
  <2>4. QED
    BY <2>3
<1>4. ASSUME NEW q \in Req, Create(q) \/ Ask(q) PROVE q # r
  BY <1>4 DEF Create, Ask, OpOK
<1>5. ASSUME NEW q \in Req, Create(q) \/ Ask(q) \/ Fault(q) PROVE FALSE
  BY <1>4, <1>5 DEF Create, Ask, Fault, Fail, Goto
<1>6. CASE Crash \/ Host \/ UNCHANGED vars
  BY <1>6 DEF Crash, Host, vars
<1>7. QED
  BY <1>1, <1>2, <1>3, <1>5, <1>6 DEF Next, Step, Finished

-----------------------------------------------------------------------------
(***************************************************************************)
(* MakeBackups that race.  Their snapshots pile up layers, each of which   *)
(* takes a pivot to get rid of, and every MakeBackup has one pivot for     *)
(* each disk and one overlay to delete: when all disks are back on their   *)
(* base images none of them is still at work.                              *)
(***************************************************************************)
\* Requests that have still to commit disk d.
Pending(d) == {r \in Req : Backing(r, Copying) \/ (Backing(r, Committing) /\ at[r] <= d)}

\* Layers that are being left count no more.
Pivoting(d) == IF job[d] = "pivoting" THEN 1 ELSE 0

LayersCounted ==
  \A d \in Writable :
    IsFiniteSet(Pending(d)) /\ Cardinality(Pending(d)) + Pivoting(d) <= top[d]

Relisted ==
  \A r \in Req : Backing(r, Committing \union {"delete"}) => \A d \in Writable : paths[r][d] > 0

\* There was no snapshot.
Untouched ==
  /\ \A d \in Disk : top[d] = 0
  /\ \A r \in Req : /\ ~Backing(r, Flying \union {"delete", "verify"})
                    /\ Backing(r, {"snapshot"}) => \A d \in Disk : paths[r][d] = 0

\* Request r took the first one, and compresses the base images.
TakesFirst(r) ==
  Backing(r, {"open", "copy"}) /\ Writable # {} /\ \A d \in Disk : paths[r][d] = 0

\* The request that had to failed: one pivot will always be missing.
Stuck ==
  Writable # {} /\ \A d \in Writable : Cardinality(Pending(d)) + Pivoting(d) < top[d]

BasesSaved == \A d \in Disk : <<d, 0>> \in saved

BaseOK == BasesSaved \/ Untouched \/ Stuck \/ \E r \in Req : TakesFirst(r)

\* The files of the overlays of disk d, and the requests that have still to delete one.
Overlays(d) == {f \in files : f[1] = d /\ f[2] > 0}
Owners(d) == {r \in Req : OverlayOf(r, d)}

NoOverlay == \A d \in Disk \ Writable : Overlays(d) = {}

NoneFailed == \A r \in Req : ~Backing(r, Failed)

OverlaysCounted ==
  NoneFailed => \A d \in LibvirtDir :
    /\ IsFiniteSet(Overlays(d)) /\ IsFiniteSet(Owners(d))
    /\ Cardinality(Overlays(d)) <= Cardinality(Owners(d))

CountOK == LayersCounted /\ Relisted /\ BaseOK /\ NoOverlay /\ OverlaysCounted

-----------------------------------------------------------------------------
\* The size of part of a set, of one more element and of one less.
LEMMA Fewer ==
  ASSUME NEW S, IsFiniteSet(S), NEW T \in SUBSET S
  PROVE  /\ IsFiniteSet(T) /\ Cardinality(S) \in Nat /\ Cardinality(T) \in Nat
         /\ Cardinality(T) <= Cardinality(S)
         /\ T # S => Cardinality(T) < Cardinality(S)
BY FS_Subset, FS_CardinalityType

LEMMA OneMore ==
  ASSUME NEW S, IsFiniteSet(S), NEW x, x \notin S
  PROVE  IsFiniteSet(S \union {x}) /\ Cardinality(S \union {x}) = Cardinality(S) + 1
BY FS_AddElement, FS_CardinalityType

LEMMA OneLess ==
  ASSUME NEW S, IsFiniteSet(S), NEW x \in S
  PROVE  IsFiniteSet(S \ {x}) /\ Cardinality(S \ {x}) = Cardinality(S) - 1
BY FS_RemoveElement, FS_CardinalityType

\* The next disk, and the last one.
LEMMA Beyond ==
  ASSUME NEW d \in Nat, NEW e \in Nat, d # e
  PROVE  /\ d >= e + 1 <=> d >= e
         /\ \A n \in Nat : d <= n /\ ~(e < n) => ~(d >= e)
OBVIOUS

(***************************************************************************)
(* Steps that add no pending request, and layers as many as they leave.    *)
(***************************************************************************)
LEMMA LayersKept ==
  ASSUME TypeOK, LayersCounted, TypeOK',
         \A d \in Writable : Pending(d)' \subseteq Pending(d)
                             /\ top'[d] - Pivoting(d)' >= top[d] - Pivoting(d)
  PROVE  /\ LayersCounted'
         /\ Stuck => Stuck'
         /\ \A q \in Req : q \notin UNION {Pending(d)' : d \in Writable}
                           /\ (\A d \in Writable : q \in Pending(d)) /\ Writable # {}
                             => Stuck'
<1> USE DEF TypeOK, HostTypeOK
<1>0. \A d \in Writable : d \in Disk /\ top[d] \in Nat /\ top'[d] \in Nat
                          /\ Pivoting(d) \in {0, 1} /\ Pivoting(d)' \in {0, 1}
  BY DiskAssumption DEF Pivoting
<1>1. ASSUME NEW d \in Writable
      PROVE  /\ IsFiniteSet(Pending(d)) /\ IsFiniteSet(Pending(d)')
             /\ Cardinality(Pending(d)) \in Nat /\ Cardinality(Pending(d)') \in Nat
             /\ Cardinality(Pending(d)') <= Cardinality(Pending(d))
             /\ Pending(d)' # Pending(d) => Cardinality(Pending(d)') < Cardinality(Pending(d))
             /\ Cardinality(Pending(d)) + Pivoting(d) <= top[d]
  BY Fewer DEF LayersCounted
<1>2. LayersCounted'
  <2>1. ASSUME NEW d \in Writable
        PROVE  Cardinality(Pending(d)') + Pivoting(d)' <= top'[d]
    BY <1>0, <1>1
  <2> QED BY <1>1, <2>1 DEF LayersCounted
<1>3. Stuck => Stuck'
  <2>1. ASSUME Stuck, NEW d \in Writable
        PROVE  Cardinality(Pending(d)') + Pivoting(d)' < top'[d]
    <3>1. Cardinality(Pending(d)) + Pivoting(d) < top[d]
      BY <2>1 DEF Stuck
    <3> QED BY <1>0, <1>1, <3>1
  <2> QED BY <2>1 DEF Stuck
<1>4. ASSUME NEW q \in Req, Writable # {},
             \A d \in Writable : q \in Pending(d) /\ q \notin Pending(d)'
      PROVE  Stuck'
  <2>1. ASSUME NEW d \in Writable
        PROVE  Cardinality(Pending(d)') + Pivoting(d)' < top'[d]
    <3>1. Cardinality(Pending(d)') < Cardinality(Pending(d))
      BY <1>1, <1>4
    <3> QED BY <1>0, <1>1, <3>1
  <2> QED BY <1>4, <2>1 DEF Stuck
<1> QED BY <1>2, <1>3, <1>4

(***************************************************************************)
(* What the host does, and what requests do that neither take a snapshot   *)
(* nor merge or delete one.                                                *)
(***************************************************************************)
Calm ==
  /\ \A d \in Disk : top'[d] - Pivoting(d)' >= top[d] - Pivoting(d) /\ top'[d] <= top[d]
  /\ files' \subseteq files /\ saved \subseteq saved'
  /\ \A r \in Req : Same(r) \/ Aside(r)

LEMMA HostCalm ==
  ASSUME TypeOK, JobOK, Quiet \/ HostMove
  PROVE  Calm
<1> USE DEF TypeOK, HostTypeOK
<1>1. CASE Quiet
  <2>1. \A d \in Disk : top[d] \in Nat /\ Pivoting(d)' = Pivoting(d) /\ Pivoting(d) \in {0, 1}
    BY <1>1 DEF Quiet, Pivoting
  <2> QED BY <1>1, <2>1 DEF Quiet, Calm
<1>2. CASE HostMove
  <2>1. ASSUME NEW d \in Disk
        PROVE  top'[d] - Pivoting(d)' >= top[d] - Pivoting(d) /\ top'[d] <= top[d]
    <3>0. top[d] \in Nat /\ (job[d] # "none" => top[d] > 0)
      BY DEF JobOK
    <3>1. CASE PowerOff
      BY <3>0, <3>1 DEF PowerOff, Pivoting
    <3>2. CASE HostStep
      <4>1. CASE GuestPowersOff
        BY <3>0, <4>1 DEF GuestPowersOff, PowerOff, Pivoting
      <4>2. ASSUME NEW e \in Disk, JobReady(e) \/ PivotCompletes(e) \/ JobAborts(e) \/ PivotFails(e)
            PROVE  top'[d] - Pivoting(d)' >= top[d] - Pivoting(d) /\ top'[d] <= top[d]
        BY <3>0, <4>2 DEF JobReady, PivotCompletes, JobAborts, PivotFails, Pivoting
      <4> QED BY <3>2, <4>1, <4>2 DEF HostStep
    <3> QED BY <1>2, <3>1, <3>2 DEF HostMove
  <2>2. files' = files
    BY <1>2 DEF HostMove, PowerOff, HostStep, GuestPowersOff, JobReady, PivotCompletes, JobAborts,
       PivotFails
  <2> QED BY <1>2, <2>1, <2>2 DEF HostMove, Calm
<1> QED BY <1>1, <1>2

LEMMA CountCalm ==
  ASSUME TypeOK, TypeOK', CountOK, Calm
  PROVE  CountOK'
<1> USE DEF Backing, Tracked, Flying, Copying, Committing
<1>0. \A r \in Req : Same(r) \/ Aside(r)
  BY DEF Calm
<1>1. \A d \in Writable : Pending(d)' \subseteq Pending(d)
  BY <1>0 DEF Pending, Same, Aside
<1>2. /\ LayersCounted' /\ (Stuck => Stuck')
      /\ \A q \in Req : q \notin UNION {Pending(d)' : d \in Writable}
                        /\ (\A d \in Writable : q \in Pending(d)) /\ Writable # {}
                          => Stuck'
  BY <1>1, LayersKept, DiskAssumption DEF Calm, CountOK
<1>3. Relisted'
  BY <1>0 DEF CountOK, Relisted, Same, Aside
<1>4. BaseOK'
  <2>1. CASE BasesSaved
    BY <2>1 DEF BasesSaved, BaseOK, Calm
  <2>2. CASE Untouched
    <3>1. \A d \in Disk : top'[d] = 0
      BY <2>2 DEF Untouched, Calm, TypeOK, HostTypeOK
    <3>2. ASSUME NEW r \in Req
          PROVE  (/\ ~Backing(r, Flying \union {"delete", "verify"})
                  /\ Backing(r, {"snapshot"}) => \A d \in Disk : paths[r][d] = 0)'
      BY <1>0, <2>2 DEF Untouched, Same, Aside
    <3> QED BY <3>1, <3>2 DEF Untouched, BaseOK
  <2>3. CASE Stuck
    BY <1>2, <2>3 DEF BaseOK
  <2>4. ASSUME NEW r \in Req, TakesFirst(r) PROVE BaseOK'
    <3>1. CASE Same(r)
      BY <2>4, <3>1 DEF Same, TakesFirst, BaseOK
    <3>2. CASE Aside(r)
      <4>1. \A d \in Writable : r \in Pending(d) /\ r \notin Pending(d)'
        BY <2>4, <3>2 DEF Aside, TakesFirst, Pending
      <4> QED BY <1>2, <2>4, <4>1 DEF BaseOK, TakesFirst
    <3> QED BY <1>0, <3>1, <3>2
  <2> QED BY <2>1, <2>2, <2>3, <2>4 DEF CountOK, BaseOK
<1>5. \A d \in Disk : Overlays(d)' \subseteq Overlays(d)
  BY DEF Overlays, Calm
<1>6. NoOverlay'
  BY <1>5 DEF CountOK, NoOverlay
<1>7. OverlaysCounted'
  <2> SUFFICES ASSUME NoneFailed', NEW d \in LibvirtDir
               PROVE  /\ IsFiniteSet(Overlays(d)') /\ IsFiniteSet(Owners(d)')
                      /\ Cardinality(Overlays(d)') <= Cardinality(Owners(d)')
    BY DEF OverlaysCounted
  <2>1. NoneFailed
    BY <1>0 DEF NoneFailed, Same, Aside
  <2>2. Owners(d)' = Owners(d)
    <3>1. ASSUME NEW r \in Req PROVE OverlayOf(r, d)' <=> OverlayOf(r, d)
      BY <1>0, <3>1 DEF OverlayOf, Same, Aside, NoneFailed
    <3> QED BY <3>1 DEF Owners
  <2>3. /\ IsFiniteSet(Overlays(d)) /\ IsFiniteSet(Owners(d))
        /\ Cardinality(Overlays(d)) <= Cardinality(Owners(d))
    BY <2>1 DEF CountOK, OverlaysCounted
  <2>4. Overlays(d)' \in SUBSET Overlays(d)
    BY <1>5, PlaceAssumption
  <2> QED BY <2>2, <2>3, <2>4, Fewer, FS_CardinalityType
<1> QED BY <1>2, <1>3, <1>4, <1>6, <1>7 DEF CountOK

(***************************************************************************)
(* The steps of a MakeBackup.  Most leave the layers and the files alone.  *)
(***************************************************************************)
LEMMA CountStill ==
  ASSUME TypeOK, TypeOK', CountOK, UNCHANGED <<top, files>>, saved \subseteq saved',
         \A d \in Disk : /\ Pivoting(d)' = Pivoting(d)
                         /\ Pending(d)' \subseteq Pending(d) /\ Owners(d)' = Owners(d),
         NoneFailed' => NoneFailed, Relisted', Untouched => Untouched',
         \A q \in Req : TakesFirst(q) => BaseOK'
  PROVE  CountOK'
<1>1. LayersCounted' /\ (Stuck => Stuck')
  <2>1. \A d \in Writable : Pending(d)' \subseteq Pending(d)
                            /\ top'[d] - Pivoting(d)' >= top[d] - Pivoting(d)
    BY DiskAssumption DEF TypeOK, HostTypeOK, Pivoting
  <2> QED BY <2>1, LayersKept DEF CountOK
<1>2. BaseOK'
  BY <1>1 DEF CountOK, BaseOK, BasesSaved
<1>3. \A d \in Disk : Overlays(d)' = Overlays(d)
  BY DEF Overlays
<1>4. NoOverlay' /\ OverlaysCounted'
  BY <1>3, PlaceAssumption DEF CountOK, NoOverlay, OverlaysCounted
<1> QED BY <1>1, <1>2, <1>4 DEF CountOK

LEMMA CountOnTheWay ==
  ASSUME TypeOK, TypeOK', JobOK, CopyOK, CountOK, NEW r \in Req, op[r] = "MakeBackup",
         Overlay(r) \/ Paths(r) \/ Open(r) \/ Copy(r)
  PROVE  CountOK'
<1> USE DEF TypeOK, LocalTypeOK, Backing, Flying, Copying, Committing
<1>f. ASSUME Fail(r), UNCHANGED <<hostVars, op, at, paths, saved, raced>>
      PROVE  CountOK'
  BY <1>f, FailQuiet, HostCalm, CountCalm DEF CountOK
<1>1. CASE Overlay(r)
  <2>1. CASE Fail(r)
    BY <1>1, <2>1, <1>f DEF Overlay, localVars
  <2>2. CASE ~Fail(r)
    <3>1. /\ UNCHANGED <<hostVars, op, at, paths, saved>>
          /\ pc[r] = "overlay" /\ pc' = [pc EXCEPT ![r] = "paths"]
      BY <1>1, <2>2 DEF Overlay, localVars, Goto
    <3>2. \A d \in Disk : /\ Pivoting(d)' = Pivoting(d)
                          /\ Pending(d)' = Pending(d) /\ Owners(d)' = Owners(d)
      BY <3>1 DEF Pivoting, Pending, Owners, OverlayOf, hostVars
    <3>3. (NoneFailed' => NoneFailed) /\ Relisted'
      BY <3>1 DEF NoneFailed, Failed, Relisted, CountOK
    <3>4. Untouched => Untouched'
      BY <3>1 DEF Untouched, hostVars
    <3>5. \A q \in Req : TakesFirst(q) => TakesFirst(q)'
      BY <3>1 DEF TakesFirst
    <3> QED BY <3>1, <3>2, <3>3, <3>4, <3>5, CountStill DEF BaseOK, hostVars
  <2> QED BY <2>1, <2>2
<1>2. CASE Paths(r)
  <2>1. CASE dom = "absent"
    BY <1>2, <2>1, <1>f DEF Paths
  <2>2. CASE dom # "absent"
    <3>1. /\ UNCHANGED <<hostVars, op, at, saved>> /\ paths' = [paths EXCEPT ![r] = top]
          /\ pc[r] = "paths" /\ pc' = [pc EXCEPT ![r] = "snapshot"]
      BY <1>2, <2>2 DEF Paths, ReadPaths, Goto
    <3>2. \A d \in Disk : /\ Pivoting(d)' = Pivoting(d)
                          /\ Pending(d)' = Pending(d) /\ Owners(d)' = Owners(d)
      BY <3>1 DEF Pivoting, Pending, Owners, OverlayOf, hostVars
    <3>3. (NoneFailed' => NoneFailed) /\ Relisted'
      BY <3>1 DEF NoneFailed, Failed, Relisted, CountOK
    <3>4. Untouched => Untouched'
      BY <3>1 DEF Untouched, hostVars
    <3>5. \A q \in Req : TakesFirst(q) => TakesFirst(q)'
      BY <3>1 DEF TakesFirst
    <3> QED BY <3>1, <3>2, <3>3, <3>4, <3>5, CountStill DEF BaseOK, hostVars
  <2> QED BY <2>1, <2>2
<1>3. CASE Open(r)
  <2>1. CASE Fail(r)
    BY <1>3, <2>1, <1>f DEF Open, localVars
  <2>2. CASE ~Fail(r)
    <3>1. /\ UNCHANGED <<hostVars, op, at, paths, saved>>
          /\ pc[r] = "open" /\ pc' = [pc EXCEPT ![r] = "copy"]
      BY <1>3, <2>2 DEF Open, localVars, Goto
    <3>2. \A d \in Disk : /\ Pivoting(d)' = Pivoting(d)
                          /\ Pending(d)' = Pending(d) /\ Owners(d)' = Owners(d)
      BY <3>1 DEF Pivoting, Pending, Owners, OverlayOf, hostVars
    <3>3. (NoneFailed' => NoneFailed) /\ Relisted'
      BY <3>1 DEF NoneFailed, Failed, Relisted, CountOK
    <3>4. Untouched => Untouched'
      BY <3>1 DEF Untouched, hostVars
    <3>5. \A q \in Req : TakesFirst(q) => TakesFirst(q)'
      BY <3>1 DEF TakesFirst
    <3> QED BY <3>1, <3>2, <3>3, <3>4, <3>5, CountStill DEF BaseOK, hostVars
  <2> QED BY <2>1, <2>2
<1>4. CASE Copy(r)
  <2>1. /\ UNCHANGED <<hostVars, op, paths>> /\ saved' = saved \union {Path(r)}
        /\ pc[r] = "copy"
        /\ \/ at[r] < NDisks /\ pc' = [pc EXCEPT ![r] = "open"]
           \/ ~(at[r] < NDisks) /\ pc' = [pc EXCEPT ![r] = "relist"]
        /\ \A q \in Req \ {r} : at'[q] = at[q]
    BY <1>4 DEF Copy, NextDisk, Goto
  <2>2. \A d \in Disk : /\ Pivoting(d)' = Pivoting(d)
                        /\ Pending(d)' = Pending(d) /\ Owners(d)' = Owners(d)
    <3>1. ASSUME NEW d \in Disk, NEW q \in Req
          PROVE  (q \in Pending(d)' <=> q \in Pending(d)) /\ (OverlayOf(q, d)' <=> OverlayOf(q, d))
      <4>1. CASE q = r
        BY <2>1, <4>1 DEF Pending, OverlayOf
      <4>2. CASE q # r
        BY <2>1, <4>2 DEF Pending, OverlayOf
      <4> QED BY <4>1, <4>2
    <3>2. \A d \in Disk : Pending(d) \subseteq Req /\ Pending(d)' \subseteq Req
      BY DEF Pending
    <3>3. \A d \in Disk : Pending(d)' = Pending(d)
      BY <3>1, <3>2
    <3>4. \A d \in Disk : Owners(d)' = Owners(d)
      BY <3>1 DEF Owners
    <3>5. \A d \in Disk : Pivoting(d)' = Pivoting(d)
      BY <2>1 DEF Pivoting, hostVars
    <3> QED BY <3>3, <3>4, <3>5
  <2>3. (NoneFailed' => NoneFailed) /\ Relisted'
    BY <2>1 DEF NoneFailed, Failed, Relisted, CountOK
  <2>4. Untouched => Untouched'
    BY <2>1 DEF Untouched
  <2>5. ASSUME NEW q \in Req, TakesFirst(q) PROVE BaseOK'
    <3>1. CASE q # r \/ at[r] < NDisks
      BY <2>1, <2>5, <3>1 DEF TakesFirst, BaseOK
    <3>2. CASE q = r /\ ~(at[r] < NDisks)
      <4>1. ASSUME NEW d \in Disk PROVE <<d, 0>> \in saved'
        <5>1. CASE d < at[r]
          BY <2>1, <2>5, <3>2, <5>1 DEF CopyOK, TakesFirst
        <5>2. CASE d = at[r]
          BY <2>1, <2>5, <3>2, <5>2 DEF Path, TakesFirst
        <5> QED BY <3>2, <5>1, <5>2, DiskFacts
      <4> QED BY <4>1 DEF BasesSaved, BaseOK
    <3> QED BY <3>1, <3>2
  <2> QED BY <2>1, <2>2, <2>3, <2>4, <2>5, CountStill DEF hostVars
<1> QED BY <1>1, <1>2, <1>3, <1>4

(***************************************************************************)
(* A snapshot is one more layer, one more overlay of each disk it covers,  *)
(* and one more request to merge and to delete them.                       *)
(***************************************************************************)
LEMMA CountSnapshot ==
  ASSUME TypeOK, TypeOK', CopyOK, CountOK, NEW r \in Req, op[r] = "MakeBackup",
         Snapshot(r), CanSnapshot
  PROVE  CountOK'
<1> USE DEF TypeOK, LocalTypeOK, Backing, Flying, Copying, Committing
<1>1. /\ UNCHANGED <<job, op, at, paths, saved>>
      /\ pc[r] = "snapshot" /\ pc' = [pc EXCEPT ![r] = "open"]
      /\ top' = [d \in Disk |-> IF d \in Writable THEN top[d] + 1 ELSE top[d]]
      /\ files' = files \union {<<d, top[d] + 1>> : d \in Writable}
      /\ Writable # {} /\ \A d \in Writable : <<d, top[d] + 1>> \notin files
  BY DEF Snapshot, CanSnapshot, TakeSnapshot, localVars, Goto
<1>2. \A d \in Disk : d \in Nat /\ top[d] \in Nat /\ Pivoting(d)' = Pivoting(d)
                      /\ Pivoting(d) \in {0, 1} /\ (d \in Writable => top'[d] = top[d] + 1)
  BY <1>1, DiskFacts DEF HostTypeOK, Pivoting
<1>3. ASSUME NEW d \in Disk
      PROVE  /\ Pending(d)' = Pending(d) \union {r} /\ r \notin Pending(d)
             /\ Owners(d)' = Owners(d) \union {r} /\ r \notin Owners(d)
  BY <1>1 DEF Pending, Owners, OverlayOf
<1>4. ASSUME NEW d \in Writable
      PROVE  /\ IsFiniteSet(Pending(d)') /\ Cardinality(Pending(d)) \in Nat
             /\ Cardinality(Pending(d)') = Cardinality(Pending(d)) + 1
             /\ Cardinality(Pending(d)) + Pivoting(d) <= top[d]
  <2>1. d \in Disk
    BY DiskAssumption
  <2>2. /\ IsFiniteSet(Pending(d)) /\ Cardinality(Pending(d)) \in Nat
        /\ Cardinality(Pending(d)) + Pivoting(d) <= top[d]
    BY FS_CardinalityType DEF CountOK, LayersCounted
  <2>3. Pending(d)' = Pending(d) \union {r} /\ r \notin Pending(d)
    BY <1>3, <2>1
  <2>4. /\ IsFiniteSet(Pending(d) \union {r})
        /\ Cardinality(Pending(d) \union {r}) = Cardinality(Pending(d)) + 1
    BY <2>2, <2>3, OneMore
  <2> QED BY <2>2, <2>3, <2>4
<1>5. LayersCounted'
  <2>1. ASSUME NEW d \in Writable
        PROVE  Cardinality(Pending(d)') + Pivoting(d)' <= top'[d]
    <3>1. d \in Disk
      BY DiskAssumption
    <3> QED BY SMTT(30), <1>2, <1>4, <3>1
  <2> QED BY <1>4, <2>1 DEF LayersCounted
<1>6. Relisted'
  BY <1>1 DEF CountOK, Relisted
<1>7. BaseOK'
  <2>1. CASE BasesSaved
    BY <1>1, <2>1 DEF BasesSaved, BaseOK
  <2>2. CASE Untouched
    <3>1. TakesFirst(r)'
      BY <1>1, <2>2 DEF Untouched, TakesFirst
    <3> QED BY <3>1 DEF BaseOK
  <2>3. CASE Stuck
    <3>1. ASSUME NEW d \in Writable
          PROVE  Cardinality(Pending(d)') + Pivoting(d)' < top'[d]
      <4>1. Cardinality(Pending(d)) + Pivoting(d) < top[d]
        BY <2>3 DEF Stuck
      <4> QED BY SMTT(30), <1>2, <1>4, <4>1, DiskAssumption
    <3> QED BY <1>1, <3>1 DEF Stuck, BaseOK
  <2>4. ASSUME NEW q \in Req, TakesFirst(q) PROVE BaseOK'
    BY <1>1, <2>4 DEF TakesFirst, BaseOK
  <2> QED BY <2>1, <2>2, <2>3, <2>4 DEF CountOK, BaseOK
<1>8. ASSUME NEW d \in Disk
      PROVE  /\ d \notin Writable => Overlays(d)' = Overlays(d)
             /\ d \in Writable => /\ Overlays(d)' = Overlays(d) \union {<<d, top[d] + 1>>}
                                  /\ <<d, top[d] + 1>> \notin Overlays(d)
  BY <1>1, <1>2 DEF Overlays
<1>9. NoOverlay'
  BY <1>8 DEF CountOK, NoOverlay
<1>10. OverlaysCounted'
  <2> SUFFICES ASSUME NoneFailed', NEW d \in LibvirtDir
               PROVE  /\ IsFiniteSet(Overlays(d)') /\ IsFiniteSet(Owners(d)')
                      /\ Cardinality(Overlays(d)') <= Cardinality(Owners(d)')
    BY DEF OverlaysCounted
  <2>1. NoneFailed
    BY <1>1 DEF NoneFailed, Failed
  <2>2. /\ IsFiniteSet(Overlays(d)) /\ IsFiniteSet(Owners(d))
        /\ Cardinality(Overlays(d)) <= Cardinality(Owners(d))
        /\ Cardinality(Overlays(d)) \in Nat /\ Cardinality(Owners(d)) \in Nat
    BY <2>1, FS_CardinalityType DEF CountOK, OverlaysCounted
  <2>3. IsFiniteSet(Owners(d)') /\ Cardinality(Owners(d)') = Cardinality(Owners(d)) + 1
    <3>1. Owners(d)' = Owners(d) \union {r} /\ r \notin Owners(d)
      BY <1>3, PlaceAssumption
    <3>2. /\ IsFiniteSet(Owners(d) \union {r})
          /\ Cardinality(Owners(d) \union {r}) = Cardinality(Owners(d)) + 1
      BY <2>2, <3>1, OneMore
    <3> QED BY <3>1, <3>2
  <2>4. CASE d \in Writable
    <3>1. /\ IsFiniteSet(Overlays(d)')
          /\ Cardinality(Overlays(d)') = Cardinality(Overlays(d)) + 1
      <4> DEFINE f == <<d, top[d] + 1>>
      <4>1. Overlays(d)' = Overlays(d) \union {f} /\ f \notin Overlays(d)
        BY <1>8, <2>4, PlaceAssumption
      <4> HIDE DEF f
      <4>2. /\ IsFiniteSet(Overlays(d) \union {f})
            /\ Cardinality(Overlays(d) \union {f}) = Cardinality(Overlays(d)) + 1
        BY <2>2, <4>1, OneMore
      <4> QED BY <4>1, <4>2
    <3> QED BY <2>2, <2>3, <3>1
  <2>5. CASE d \notin Writable
    <3>1. Overlays(d)' = Overlays(d)
      BY <1>8, <2>5, PlaceAssumption
    <3> QED BY <2>2, <2>3, <3>1
  <2> QED BY <2>4, <2>5
<1> QED BY <1>5, <1>6, <1>7, <1>9, <1>10 DEF CountOK

\* The loop over the disks goes on, or the deletions begin.
LEMMA MergedOne ==
  ASSUME TypeOK, NEW r \in Req, op[r] = "MakeBackup", pc[r] \in Committing, UNCHANGED op,
         \/ at' = [at EXCEPT ![r] = @ + 1] /\ pc' = [pc EXCEPT ![r] = "commit"]
         \/ at' = [at EXCEPT ![r] = 1] /\ pc' = [pc EXCEPT ![r] = "delete"]
  PROVE  /\ \A d \in Disk : Pending(d)' \subseteq Pending(d) /\ Owners(d)' = Owners(d)
         /\ \A d \in Disk : d = at[r] => r \in Pending(d) /\ r \notin Pending(d)'
         /\ at[r] \in Disk
<1> USE DEF TypeOK, LocalTypeOK, Backing, Flying, Copying, Committing
<1>0. at[r] \in Disk /\ at[r] \in Nat /\ \A d \in Disk : d \in Nat /\ d >= 1
  BY DEF Disk
<1>1. ASSUME NEW d \in Disk, NEW q \in Req
      PROVE  (q \in Pending(d)' => q \in Pending(d)) /\ (OverlayOf(q, d)' <=> OverlayOf(q, d))
  <2>1. CASE q = r
    BY <1>0, <2>1 DEF Pending, OverlayOf
  <2>2. CASE q # r
    BY <2>2 DEF Pending, OverlayOf
  <2> QED BY <2>1, <2>2
<1>2. \A d \in Disk : Pending(d)' \subseteq Req
  BY DEF Pending
<1>3. \A d \in Disk : d = at[r] => r \in Pending(d) /\ r \notin Pending(d)'
  BY <1>0 DEF Pending
<1> QED BY <1>0, <1>1, <1>2, <1>3 DEF Owners

(***************************************************************************)
(* The list of images made after the snapshot names an overlay of each     *)
(* disk it covers: the request itself has still to merge a layer.          *)
(***************************************************************************)
LEMMA CountMerges ==
  ASSUME TypeOK, TypeOK', JobOK, CountOK, NEW r \in Req, op[r] = "MakeBackup",
         Relist(r) \/ Commit(r) \/ WaitTimeout(r) \/ WaitEnds(r)
  PROVE  CountOK'
<1> USE DEF TypeOK, LocalTypeOK, Backing, Flying, Copying, Committing
<1>f. ASSUME Fail(r), UNCHANGED <<hostVars, op, at, paths, saved, raced>>
      PROVE  CountOK'
  BY <1>f, FailQuiet, HostCalm, CountCalm DEF CountOK
<1>1. CASE Relist(r)
  <2>1. CASE dom = "absent"
    BY <1>1, <2>1, <1>f DEF Relist
  <2>2. CASE dom # "absent"
    <3>1. /\ UNCHANGED <<hostVars, op, at, saved>> /\ paths' = [paths EXCEPT ![r] = top]
          /\ pc[r] = "relist" /\ pc' = [pc EXCEPT ![r] = "commit"]
      BY <1>1, <2>2 DEF Relist, ReadPaths, Goto
    <3>2. \A d \in Disk : /\ Pivoting(d)' = Pivoting(d)
                          /\ Pending(d)' \subseteq Pending(d) /\ Owners(d)' = Owners(d)
      BY <3>1 DEF Pivoting, Pending, Owners, OverlayOf, hostVars
    <3>3. Relisted'
      <4>1. ASSUME NEW d \in Writable PROVE top[d] > 0
        <5>1. r \in Pending(d) /\ d \in Disk /\ top[d] \in Nat /\ Pivoting(d) \in {0, 1}
          BY <3>1, DiskAssumption DEF Pending, HostTypeOK, Pivoting
        <5>2. /\ IsFiniteSet(Pending(d)) /\ Cardinality(Pending(d)) \in Nat
              /\ Cardinality(Pending(d)) # 0
              /\ Cardinality(Pending(d)) + Pivoting(d) <= top[d]
          BY <5>1, FS_EmptySet, FS_CardinalityType DEF CountOK, LayersCounted
        <5> QED BY <5>1, <5>2
      <4> QED BY <3>1, <4>1 DEF CountOK, Relisted
    <3>4. (NoneFailed' => NoneFailed) /\ (Untouched => Untouched')
      BY <3>1 DEF NoneFailed, Failed, Untouched
    <3>5. \A q \in Req : TakesFirst(q) => TakesFirst(q)'
      BY <3>1 DEF TakesFirst
    <3> QED BY <3>1, <3>2, <3>3, <3>4, <3>5, CountStill DEF BaseOK, hostVars
  <2> QED BY <2>1, <2>2
<1>2. CASE Commit(r)
  <2>1. CASE ~CanCommit(at[r])
    BY <1>2, <2>1, <1>f DEF Commit
  <2>2. CASE CanCommit(at[r])
    <3>1. /\ UNCHANGED <<top, files, op, at, paths, saved>>
          /\ job' = [job EXCEPT ![at[r]] = "running"] /\ job[at[r]] = "none"
          /\ pc[r] = "commit" /\ pc' = [pc EXCEPT ![r] = "wait"]
      BY <1>2, <2>2 DEF Commit, CanCommit, StartCommit, Goto
    <3>2. \A d \in Disk : /\ Pivoting(d)' = Pivoting(d)
                          /\ Pending(d)' \subseteq Pending(d) /\ Owners(d)' = Owners(d)
      BY <3>1 DEF Pivoting, Pending, Owners, OverlayOf, HostTypeOK
    <3>3. (NoneFailed' => NoneFailed) /\ (Untouched => Untouched') /\ Relisted'
      BY <3>1 DEF NoneFailed, Failed, Untouched, Relisted, CountOK
    <3>4. \A q \in Req : TakesFirst(q) => TakesFirst(q)'
      BY <3>1 DEF TakesFirst
    <3> QED BY <3>1, <3>2, <3>3, <3>4, CountStill DEF BaseOK
  <2> QED BY <2>1, <2>2
<1>3. CASE WaitTimeout(r)
  <2>1. /\ UNCHANGED <<hostVars, op, paths, saved>> /\ pc[r] = "wait"
        /\ \/ at' = [at EXCEPT ![r] = @ + 1] /\ pc' = [pc EXCEPT ![r] = "commit"]
           \/ at' = [at EXCEPT ![r] = 1] /\ pc' = [pc EXCEPT ![r] = "delete"]
    BY <1>3 DEF WaitTimeout, NextDisk, Goto
  <2>2. \A d \in Disk : /\ Pivoting(d)' = Pivoting(d)
                        /\ Pending(d)' \subseteq Pending(d) /\ Owners(d)' = Owners(d)
    BY <2>1, MergedOne DEF Pivoting, hostVars
  <2>3. (NoneFailed' => NoneFailed) /\ (Untouched => Untouched') /\ Relisted'
    BY <2>1 DEF NoneFailed, Failed, Untouched, Relisted, CountOK
  <2>4. \A q \in Req : TakesFirst(q) => TakesFirst(q)'
    BY <2>1 DEF TakesFirst
  <2> QED BY <2>1, <2>2, <2>3, <2>4, CountStill DEF BaseOK, hostVars
<1>4. CASE WaitEnds(r)
  <2>1. /\ UNCHANGED <<hostVars, op, at, paths, saved>>
        /\ pc[r] = "wait" /\ pc' = [pc EXCEPT ![r] = "pivot"]
    BY <1>4 DEF WaitEnds, Goto, localVars
  <2>2. \A d \in Disk : /\ Pivoting(d)' = Pivoting(d)
                        /\ Pending(d)' \subseteq Pending(d) /\ Owners(d)' = Owners(d)
    BY <2>1 DEF Pivoting, Pending, Owners, OverlayOf, hostVars
  <2>3. (NoneFailed' => NoneFailed) /\ (Untouched => Untouched') /\ Relisted'
    BY <2>1 DEF NoneFailed, Failed, Untouched, Relisted, CountOK
  <2>4. \A q \in Req : TakesFirst(q) => TakesFirst(q)'
    BY <2>1 DEF TakesFirst
  <2> QED BY <2>1, <2>2, <2>3, <2>4, CountStill DEF BaseOK, hostVars
<1> QED BY <1>1, <1>2, <1>3, <1>4

(***************************************************************************)
(* A pivot leaves one layer, and is the only one this request has for this *)
(* disk.                                                                   *)
(***************************************************************************)
LEMMA CountPivot ==
  ASSUME TypeOK, TypeOK', CountOK, NEW r \in Req, op[r] = "MakeBackup",
         Pivot(r), CanPivot(at[r])
  PROVE  CountOK'
<1> USE DEF TypeOK, LocalTypeOK, Backing, Flying, Copying, Committing
<1>1. /\ UNCHANGED <<top, files, op, paths, saved>> /\ pc[r] = "pivot"
      /\ job' = [job EXCEPT ![at[r]] = "pivoting"] /\ job[at[r]] = "ready"
      /\ \/ at' = [at EXCEPT ![r] = @ + 1] /\ pc' = [pc EXCEPT ![r] = "commit"]
         \/ at' = [at EXCEPT ![r] = 1] /\ pc' = [pc EXCEPT ![r] = "delete"]
  BY DEF Pivot, CanPivot, StartPivot, NextDisk, Goto
<1>2. /\ \A d \in Disk : Pending(d)' \subseteq Pending(d) /\ Owners(d)' = Owners(d)
      /\ \A d \in Disk : d = at[r] => r \in Pending(d) /\ r \notin Pending(d)'
  BY <1>1, MergedOne
<1>3. ASSUME NEW d \in Writable
      PROVE  /\ IsFiniteSet(Pending(d)') /\ Cardinality(Pending(d)') \in Nat
             /\ Cardinality(Pending(d)') + Pivoting(d)' <= Cardinality(Pending(d)) + Pivoting(d)
             /\ Cardinality(Pending(d)) + Pivoting(d) <= top[d]
             /\ top'[d] = top[d] /\ top[d] \in Nat /\ Pivoting(d)' \in Nat
             /\ Cardinality(Pending(d)) + Pivoting(d) \in Nat
             /\ Cardinality(Pending(d)') + Pivoting(d)' <= top'[d]
  <2>0. d \in Disk /\ top[d] \in Nat /\ Pivoting(d) \in {0, 1} /\ Pivoting(d)' \in {0, 1}
    BY DiskAssumption DEF HostTypeOK, Pivoting
  <2>1. /\ IsFiniteSet(Pending(d)) /\ Cardinality(Pending(d)) + Pivoting(d) <= top[d]
        /\ Pending(d)' \in SUBSET Pending(d)
    BY <1>2, <2>0 DEF CountOK, LayersCounted
  <2>2. /\ IsFiniteSet(Pending(d)') /\ Cardinality(Pending(d)') \in Nat
        /\ Cardinality(Pending(d)) \in Nat
        /\ Cardinality(Pending(d)') <= Cardinality(Pending(d))
        /\ Pending(d)' # Pending(d) => Cardinality(Pending(d)') < Cardinality(Pending(d))
    BY <2>1, Fewer
  <2>3. CASE d = at[r]
    <3>1. Cardinality(Pending(d)') < Cardinality(Pending(d))
      BY <1>2, <2>0, <2>2, <2>3
    <3>2. Pivoting(d) = 0 /\ Pivoting(d)' = 1
      BY <1>1, <2>0, <2>3 DEF Pivoting, HostTypeOK
    <3> QED BY <1>1, <2>0, <2>1, <2>2, <3>1, <3>2
  <2>4. CASE d # at[r]
    <3>1. Pivoting(d)' = Pivoting(d)
      BY <1>1, <2>0, <2>4 DEF Pivoting, HostTypeOK
    <3> QED BY <1>1, <2>0, <2>1, <2>2, <3>1
  <2> QED BY <2>3, <2>4
<1>4. LayersCounted'
  <2>1. ASSUME NEW d \in Writable
        PROVE  Cardinality(Pending(d)') + Pivoting(d)' <= top'[d]
    BY <1>3
  <2> QED BY <1>3, <2>1 DEF LayersCounted
<1>5. Stuck => Stuck'
  <2>1. ASSUME Stuck, NEW d \in Writable
        PROVE  Cardinality(Pending(d)') + Pivoting(d)' < top'[d]
    <3>1. Cardinality(Pending(d)) + Pivoting(d) < top[d]
      BY <2>1 DEF Stuck
    <3> QED BY <1>3, <3>1
  <2> QED BY <2>1 DEF Stuck
<1>6. Relisted'
  BY <1>1 DEF CountOK, Relisted
<1>7. BaseOK'
  <2>1. BasesSaved => BasesSaved'
    BY <1>1 DEF BasesSaved
  <2>2. ~Untouched
    BY <1>1 DEF Untouched
  <2>3. \A q \in Req : TakesFirst(q) => TakesFirst(q)'
    BY <1>1 DEF TakesFirst
  <2> QED BY <1>5, <2>1, <2>2, <2>3 DEF CountOK, BaseOK
<1>8. \A d \in Disk : Overlays(d)' = Overlays(d)
  BY <1>1 DEF Overlays
<1>9. NoneFailed' => NoneFailed
  BY <1>1 DEF NoneFailed, Failed
<1>10. NoOverlay' /\ OverlaysCounted'
  BY <1>2, <1>8, <1>9, PlaceAssumption DEF CountOK, NoOverlay, OverlaysCounted
<1> QED BY <1>4, <1>6, <1>7, <1>10 DEF CountOK

(***************************************************************************)
(* One overlay of a disk is deleted, and no other is left to this request. *)
(***************************************************************************)
LEMMA CountDelete ==
  ASSUME TypeOK, TypeOK', CountOK, NEW r \in Req, op[r] = "MakeBackup",
         Delete(r), ~Fail(r)
  PROVE  CountOK'
<1> USE DEF TypeOK, LocalTypeOK, Backing, Flying, Copying, Committing
<1>0. at[r] \in Disk /\ \A d \in Disk : d \in Nat /\ d >= 1
  BY DEF Disk
<1>1. /\ UNCHANGED <<top, job, op, paths, saved>> /\ pc[r] = "delete"
      /\ \/ at' = [at EXCEPT ![r] = @ + 1] /\ pc' = [pc EXCEPT ![r] = "delete"]
         \/ at' = [at EXCEPT ![r] = 1] /\ pc' = [pc EXCEPT ![r] = "verify"] /\ ~(at[r] < NDisks)
      /\ \/ (at[r] \notin LibvirtDir \/ paths[r][at[r]] = 0) /\ files' = files
         \/ paths[r][at[r]] # 0 /\ Path(r) \in files /\ files' = files \ {Path(r)}
  BY DEF Delete, RemoveFile, NextDisk, Goto, hostVars
<1>2. \A d \in Disk : Pending(d)' = Pending(d) /\ Pivoting(d)' = Pivoting(d)
  <2>1. ASSUME NEW d \in Disk, NEW q \in Req
        PROVE  q \in Pending(d)' <=> q \in Pending(d)
    <3>1. CASE q = r
      BY <1>1, <3>1 DEF Pending
    <3>2. CASE q # r
      BY <1>1, <3>2 DEF Pending
    <3> QED BY <3>1, <3>2
  <2>2. \A d \in Disk : Pending(d) \subseteq Req /\ Pending(d)' \subseteq Req
    BY DEF Pending
  <2>3. \A d \in Disk : Pending(d)' = Pending(d)
    BY <2>1, <2>2
  <2>4. \A d \in Disk : Pivoting(d)' = Pivoting(d)
    BY <1>1 DEF Pivoting
  <2> QED BY <2>3, <2>4
<1>3. LayersCounted' /\ (Stuck => Stuck')
  BY <1>1, <1>2, DiskAssumption DEF CountOK, LayersCounted, Stuck
<1>4. Relisted'
  BY <1>1 DEF CountOK, Relisted
<1>5. BaseOK'
  <2>1. BasesSaved => BasesSaved'
    BY <1>1 DEF BasesSaved
  <2>2. ~Untouched
    BY <1>1 DEF Untouched
  <2>3. \A q \in Req : TakesFirst(q) => TakesFirst(q)'
    BY <1>1 DEF TakesFirst
  <2> QED BY <1>3, <2>1, <2>2, <2>3 DEF CountOK, BaseOK
<1>6. \A d \in Disk : Overlays(d)' \subseteq Overlays(d)
  BY <1>1 DEF Overlays
<1>7. NoOverlay'
  BY <1>6 DEF CountOK, NoOverlay
<1>8. OverlaysCounted'
  <2> SUFFICES ASSUME NoneFailed', NEW d \in LibvirtDir
               PROVE  /\ IsFiniteSet(Overlays(d)') /\ IsFiniteSet(Owners(d)')
                      /\ Cardinality(Overlays(d)') <= Cardinality(Owners(d)')
    BY DEF OverlaysCounted
  <2>0. d \in Disk
    BY PlaceAssumption
  <2>1. NoneFailed
    BY <1>1 DEF NoneFailed, Failed
  <2>2. /\ IsFiniteSet(Overlays(d)) /\ IsFiniteSet(Owners(d))
        /\ Cardinality(Overlays(d)) <= Cardinality(Owners(d))
        /\ Cardinality(Overlays(d)) \in Nat /\ Cardinality(Owners(d)) \in Nat
    BY <2>1, FS_CardinalityType DEF CountOK, OverlaysCounted
  <2>3. /\ IsFiniteSet(Overlays(d)') /\ Cardinality(Overlays(d)') \in Nat
        /\ Cardinality(Overlays(d)') <= Cardinality(Overlays(d))
    BY <1>6, <2>0, <2>2, Fewer
  <2>4. CASE d # at[r]
    <3>1. ASSUME NEW q \in Req PROVE OverlayOf(q, d)' <=> OverlayOf(q, d)
      <4>1. CASE q = r
        <5>1. d \in Nat /\ at[r] \in Nat /\ NDisks \in Nat /\ d <= NDisks
          BY <1>0, <2>0, DiskAssumption DEF Disk
        <5>2. CASE at' = [at EXCEPT ![r] = @ + 1] /\ pc' = [pc EXCEPT ![r] = "delete"]
          <6>1. at'[r] = at[r] + 1
            BY <5>2
          <6>2. d >= at'[r] <=> d >= at[r]
            <7>1. d >= at[r] + 1 <=> d >= at[r]
              BY <2>4, <5>1, Beyond
            <7> QED BY <6>1, <7>1
          <6> QED BY <1>1, <4>1, <5>2, <6>2 DEF OverlayOf
        <5>3. CASE pc' = [pc EXCEPT ![r] = "verify"] /\ ~(at[r] < NDisks)
          <6>1. ~(d >= at[r])
            BY <2>4, <5>1, <5>3, Beyond
          <6> QED BY <1>1, <4>1, <5>3, <6>1 DEF OverlayOf
        <5> QED BY <1>1, <5>2, <5>3
      <4>2. CASE q # r
        BY <1>1, <4>2 DEF OverlayOf
      <4> QED BY <4>1, <4>2
    <3>2. Owners(d)' = Owners(d)
      BY <3>1 DEF Owners
    <3> QED BY <2>2, <2>3, <3>2
  <2>5. CASE d = at[r]
    <3>1. Owners(d)' = Owners(d) \ {r} /\ r \in Owners(d)
      <4>1. OverlayOf(r, d) /\ ~OverlayOf(r, d)'
        BY <1>0, <1>1, <2>0, <2>5 DEF OverlayOf
      <4>2. ASSUME NEW q \in Req \ {r} PROVE OverlayOf(q, d)' <=> OverlayOf(q, d)
        BY <1>1 DEF OverlayOf
      <4> QED BY <4>1, <4>2 DEF Owners
    <3>2. /\ IsFiniteSet(Owners(d)') /\ Cardinality(Owners(d)') = Cardinality(Owners(d)) - 1
      <4>1. /\ IsFiniteSet(Owners(d) \ {r})
            /\ Cardinality(Owners(d) \ {r}) = Cardinality(Owners(d)) - 1
        BY <2>2, <3>1, OneLess
      <4> QED BY <3>1, <4>1
    <3>3. CASE d \notin Writable
      <4>1. Overlays(d)' = {}
        BY <1>7, <2>0, <3>3 DEF NoOverlay
      <4>2. Cardinality(Owners(d)') \in Nat
        BY <3>2, FS_CardinalityType
      <4> QED BY <2>3, <3>2, <4>1, <4>2, FS_EmptySet
    <3>4. CASE d \in Writable
      <4>1. paths[r][at[r]] > 0
        BY <1>1, <2>5, <3>4 DEF CountOK, Relisted
      <4>2. Path(r) \in files /\ files' = files \ {Path(r)}
        BY <1>1, <2>5, <4>1
      <4>3. Path(r) \in Overlays(d) /\ Path(r) \notin Overlays(d)'
        BY <2>5, <4>1, <4>2 DEF Overlays, Path
      <4>4. Cardinality(Overlays(d)') < Cardinality(Overlays(d))
        BY <1>6, <2>0, <2>2, <4>3, Fewer
      <4> QED BY <2>2, <2>3, <3>2, <4>4
    <3> QED BY <3>3, <3>4
  <2> QED BY <2>4, <2>5
<1> QED BY <1>3, <1>4, <1>5, <1>7, <1>8 DEF CountOK

(***************************************************************************)
(* Every step of a MakeBackup.                                             *)
(***************************************************************************)
LEMMA CountBackup ==
  ASSUME TypeOK, TypeOK', JobOK, CopyOK, CountOK, NEW r \in Req, BackupStep(r)
  PROVE  CountOK'
<1>f. ASSUME Fail(r), UNCHANGED <<hostVars, op, at, paths, saved, raced>>
      PROVE  CountOK'
  BY <1>f, FailQuiet, HostCalm, CountCalm DEF CountOK
<1>0. op[r] = "MakeBackup"
  BY DEF BackupStep
<1>1. CASE Overlay(r) \/ Paths(r) \/ Open(r) \/ Copy(r)
  BY <1>0, <1>1, CountOnTheWay
<1>2. CASE Snapshot(r)
  <2>1. CASE CanSnapshot
    BY <1>0, <1>2, <2>1, CountSnapshot
  <2>2. CASE ~CanSnapshot
    BY <1>2, <2>2, <1>f DEF Snapshot, localVars
  <2> QED BY <2>1, <2>2
<1>3. CASE Relist(r) \/ Commit(r) \/ WaitTimeout(r) \/ WaitEnds(r)
  BY <1>0, <1>3, CountMerges
<1>4. CASE Pivot(r)
  <2>1. CASE CanPivot(at[r])
    BY <1>0, <1>4, <2>1, CountPivot
  <2>2. CASE ~CanPivot(at[r])
    BY <1>4, <2>2, <1>f DEF Pivot
  <2> QED BY <2>1, <2>2
<1>5. CASE Delete(r)
  <2>1. CASE ~Fail(r)
    BY <1>0, <1>5, <2>1, CountDelete
  <2>2. CASE Fail(r)
    <3>1. UNCHANGED <<hostVars, at>>
      <4>1. pc[r] = "delete" /\ pc'[r] = "error"
        BY <1>5, <2>2 DEF Delete, Fail, Goto, TypeOK, LocalTypeOK
      <4> QED BY <1>5, <4>1 DEF Delete, NextDisk, Goto, TypeOK, LocalTypeOK
    <3> QED BY <1>5, <2>2, <3>1, <1>f DEF Delete
  <2> QED BY <2>1, <2>2
<1> QED BY <1>1, <1>2, <1>3, <1>4, <1>5 DEF BackupStep

(***************************************************************************)
(* CountOK holds throughout every behaviour.                               *)
(***************************************************************************)
CountInv == LayerInv /\ CountOK

LEMMA CountInvariance == Safe => []CountInv
<1>1. Init => CountOK
  <2> SUFFICES ASSUME Init PROVE CountOK
    OBVIOUS
  <2>1. \A r \in Req : op[r] = "none" /\ pc[r] = "idle"
    BY DEF Init
  <2>2. \A d \in Disk : top[d] = 0 /\ job[d] = "none" /\ Overlays(d) = {}
    BY DEF Init, HostInit, Overlays
  <2>3. \A d \in Disk : Pending(d) = {} /\ Pivoting(d) = 0 /\ Owners(d) = {}
    BY <2>1, <2>2 DEF Pending, Pivoting, Owners, OverlayOf, Backing
  <2>4. LayersCounted
    BY <2>2, <2>3, FS_EmptySet, DiskAssumption DEF LayersCounted
  <2>5. Relisted /\ Untouched
    BY <2>1, <2>2 DEF Relisted, Untouched, Backing
  <2>6. NoOverlay
    BY <2>2 DEF NoOverlay
  <2>7. OverlaysCounted
    BY <2>2, <2>3, FS_EmptySet, PlaceAssumption DEF OverlaysCounted
  <2> QED BY <2>4, <2>5, <2>6, <2>7 DEF CountOK, BaseOK
<1>2. LayerInv => TypeOK /\ JobOK /\ CopyOK /\ OpOK
  BY DEF LayerInv, IInv
<1>3. ASSUME LayerInv, LayerInv', CountOK, [Next]_vars PROVE CountOK'
  <2>1. TypeOK' /\ TypeOK /\ JobOK /\ CopyOK /\ OpOK
    BY <1>2, <1>3 DEF LayerInv, IInv
  <2>2. CASE Quiet \/ HostMove
    BY <1>3, <2>1, <2>2, HostCalm, CountCalm
  <2>3. ASSUME NEW r \in Req, BackupStep(r) PROVE CountOK'
    BY <1>3, <2>1, <2>3, CountBackup
  <2> QED BY <1>3, <2>1, <2>2, <2>3, Kinds
<1>4. QED
  BY <1>1, <1>3, LayerInvariance, PTL DEF Safe, CountInv

(***************************************************************************)
(* TRUE means a complete backup, however many MakeBackups there were: every*)
(* base image compressed, every disk back on it, and no overlay left that  *)
(* is not another request's to answer for.                                 *)
(***************************************************************************)
THEOREM BackupsComplete == Safe => SuccessfulBackupIsComplete
<1>1. CountInv /\ [Next]_vars => [\A r \in Req : Succeeds(r) => Complete(r)]_vars
  <2> SUFFICES ASSUME CountInv, [Next]_vars, NEW r \in Req, Succeeds(r)
               PROVE  Complete(r)
    OBVIOUS
  <2>1. TypeOK /\ OpOK /\ JobOK /\ CountOK
    BY DEF CountInv, LayerInv, IInv
  <2>2. Verify(r)
    BY <2>1, AnsweredByVerify DEF Succeeds
  <2>3. pc[r] = "verify" /\ op[r] = "MakeBackup" /\ \A d \in Disk : top[d] = 0
    BY <2>1, <2>2 DEF Verify, Fail, Goto, TypeOK, LocalTypeOK, Succeeds
  <2>4. ASSUME NEW d \in Writable PROVE Pending(d) = {}
    <3>1. d \in Disk /\ top[d] = 0 /\ Pivoting(d) \in {0, 1}
      BY <2>3, DiskAssumption DEF Pivoting
    <3>2. IsFiniteSet(Pending(d)) /\ Cardinality(Pending(d)) + Pivoting(d) <= 0
      BY <2>1, <3>1 DEF CountOK, LayersCounted
    <3>3. Cardinality(Pending(d)) \in Nat
      BY <3>2, FS_CardinalityType
    <3>4. Cardinality(Pending(d)) = 0
      BY <3>1, <3>2, <3>3
    <3> QED BY <3>2, <3>4, FS_EmptySet
  <2>5. \A d \in Disk : <<d, 0>> \in saved
    <3>1. ~Untouched
      BY <2>3 DEF Untouched, Backing
    <3>2. ~Stuck
      <4>1. ASSUME Stuck PROVE FALSE
        <5>1. PICK d \in Writable : TRUE
          BY <4>1 DEF Stuck
        <5>2. d \in Disk /\ top[d] = 0 /\ Pivoting(d) \in {0, 1}
          BY <2>3, DiskAssumption DEF Pivoting
        <5>3. Cardinality(Pending(d)) = 0
          BY <2>4, FS_EmptySet
        <5>4. Cardinality(Pending(d)) + Pivoting(d) < top[d]
          BY <4>1 DEF Stuck
        <5> QED BY <5>2, <5>3, <5>4
      <4> QED BY <4>1
    <3>3. \A q \in Req : ~TakesFirst(q)
      BY <2>4 DEF TakesFirst, Pending, Backing, Copying
    <3> QED BY <2>1, <3>1, <3>2, <3>3 DEF CountOK, BaseOK, BasesSaved
  <2>6. ASSUME NEW d \in LibvirtDir, <<d, 1>> \in files
        PROVE  \E q \in Req \ {r} : op[q] = "MakeBackup" /\ pc[q] # "ok"
    <3>1. CASE NoneFailed
      <4>1. /\ IsFiniteSet(Overlays(d)) /\ IsFiniteSet(Owners(d))
            /\ Cardinality(Overlays(d)) <= Cardinality(Owners(d))
        BY <2>1, <3>1 DEF CountOK, OverlaysCounted
      <4>2. Overlays(d) # {}
        BY <2>6 DEF Overlays
      <4>3. Owners(d) # {}
        <5>1. Cardinality(Overlays(d)) \in Nat /\ Cardinality(Owners(d)) \in Nat
              /\ Cardinality(Overlays(d)) # 0
          BY <4>1, <4>2, FS_EmptySet, FS_CardinalityType
        <5>2. Cardinality(Owners(d)) # 0
          BY <4>1, <5>1
        <5> QED BY <5>2, FS_EmptySet
      <4>4. PICK q \in Req : OverlayOf(q, d)
        BY <4>3 DEF Owners
      <4> QED BY <2>3, <4>4 DEF OverlayOf, Backing, Flying, Copying, Committing
    <3>2. CASE ~NoneFailed
      BY <2>3, <3>2 DEF NoneFailed, Backing, Failed
    <3> QED BY <3>1, <3>2
  <2> QED BY <2>3, <2>5, <2>6 DEF Complete
<1>2. QED
  BY <1>1, CountInvariance, PTL DEF Safe, SuccessfulBackupIsComplete
==============================================================================
