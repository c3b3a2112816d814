--------------------------- MODULE SnapshotsProofs ---------------------------
(***************************************************************************)
(* Safety of Snapshots for any requests, names, plans and budgets, and what*)
(* InfoReport makes of it: the report of Info is true if nothing disturbs  *)
(* it.                                                                     *)
(***************************************************************************)
EXTENDS InfoReport, TLAPS, FiniteSetTheorems, FunctionTheorems, SequenceTheorems

(***************************************************************************)
(* A request that has begun knows what it is, and a name.                  *)
(***************************************************************************)
BegunOK == \A r \in Req : pc[r] # "idle" => op[r] \in Op /\ name[r] \in Name

(***************************************************************************)
(* A handle is held between lookup and last call, or by a refused revert.  *)
(***************************************************************************)
HeldOK ==
  \A r \in Req : held[r] # NoSnapshot =>
    \/ op[r] = "Remove" /\ pc[r] = "delete"
    \/ op[r] = "Revert" /\ pc[r] \in {"revert", "error"}

(***************************************************************************)
(* A request past its checks, told the truth and not overtaken, finds the  *)
(* domain as the checks found it: off, and then on its base image.         *)
(***************************************************************************)
QuietOK ==
  spent["misread"] = 0 =>
    \A r \in Checked \ raced :
      ~on /\ (pc[r] \in {"create", "find", "delete", "revert"} => image = "base")

(***************************************************************************)
(* So its snapshot lies in the base image, which no backup deletes.        *)
(***************************************************************************)
PlaceOK ==
  spent["misread"] = 0 =>
    \A n \in Made : snaps[n].place # "base" => snaps[n].maker \in raced

IInv == TypeOK /\ BegunOK /\ HeldOK /\ AnsweredSnapshotStays /\ QuietOK /\ PlaceOK

-----------------------------------------------------------------------------
(***************************************************************************)
(* The steps of a handler, with the request they belong to.                *)
(***************************************************************************)
LEMMA StepCases ==
  ASSUME NEW r \in Req, Step(r)
  PROVE  \/ Power(r) \/ Jobs(r) \/ Overlay(r)
         \/ op[r] = "Make" /\ Create(r)
         \/ op[r] \in {"Remove", "Revert"} /\ Find(r)
         \/ op[r] = "Remove" /\ Delete(r)
         \/ op[r] = "Revert" /\ Revert(r)
<1>1. CASE op[r] = "Make"
  BY <1>1 DEF Step, MakeSnapshot, Check
<1>2. CASE op[r] = "Remove"
  BY <1>2 DEF Step, RemoveSnapshot, Check
<1>3. CASE op[r] = "Revert"
  BY <1>3 DEF Step, RevertToSnapshot, Check
<1>4. CASE op[r] \notin {"Make", "Remove", "Revert"}
  BY <1>4 DEF Step
<1> QED BY <1>1, <1>2, <1>3, <1>4

(***************************************************************************)
(* A snapshot that is made is a record of its type.                        *)
(***************************************************************************)
LEMMA MadeIsSnapshot ==
  ASSUME TypeOK, NEW n \in Made
  PROVE  n \in Name /\ snaps[n] \in Snapshot
BY DEF TypeOK, Made

(***************************************************************************)
(* What the reactions of libvirt leave of the types.                       *)
(***************************************************************************)
LEMMA TakeTyped ==
  ASSUME TypeOK, NEW r \in Req, NEW n \in Name, CanTake(n), TakeSnapshot(r, n)
  PROVE  /\ on' \in BOOLEAN /\ image' \in Image /\ current' \in Name \union {NoSnapshot}
         /\ snaps' \in [Name -> Snapshot \union {NoSnapshot}]
<1>1. Take(r, current, on, image) \in Snapshot
  BY DEF TypeOK, CanTake, Take, Snapshot, Image
<1> QED BY <1>1 DEF TypeOK, TakeSnapshot

LEMMA DeleteTyped ==
  ASSUME TypeOK, NEW n \in Made, DeleteSnapshot(n)
  PROVE  /\ current' \in Name \union {NoSnapshot}
         /\ snaps' \in [Name -> Snapshot \union {NoSnapshot}]
<1>1. snaps[n].parent \in Name \union {NoSnapshot}
  BY MadeIsSnapshot DEF Snapshot
<1>2. \A m \in Made : [snaps[m] EXCEPT !.parent = snaps[n].parent] \in Snapshot
  BY <1>1, MadeIsSnapshot DEF Snapshot
<1> QED BY <1>1, <1>2, MadeIsSnapshot DEF TypeOK, DeleteSnapshot

LEMMA RevertTyped ==
  ASSUME TypeOK, NEW n, CanRevert(n), RevertSnapshot(n)
  PROVE  /\ on' \in BOOLEAN /\ image' \in {"base", "overlay"}
         /\ current' \in Name \union {NoSnapshot}
         /\ snaps' = snaps
BY MadeIsSnapshot DEF CanRevert, RevertSnapshot, Snapshot

LEMMA BackupTyped ==
  ASSUME TypeOK, BackupEnds
  PROVE  snaps' \in [Name -> Snapshot \union {NoSnapshot}]
<1>1. \A m \in Made : [snaps[m] EXCEPT !.place = "lost"] \in Snapshot
  BY MadeIsSnapshot DEF Snapshot
<1> QED BY <1>1 DEF TypeOK, BackupEnds, Made

(***************************************************************************)
(* Adversities are counted.                                                *)
(***************************************************************************)
LEMMA SpendTyped ==
  ASSUME TypeOK, NEW a \in Adversity, Spend(a)
  PROVE  spent' \in [Adversity -> Nat] /\ (spent'["misread"] = 0 => spent["misread"] = 0)
<1>1. spent[a] + 1 \in Nat /\ "misread" \in Adversity
  BY DEF TypeOK, Adversity
<1> QED BY <1>1 DEF TypeOK, Spend

LEMMA ToldTyped ==
  ASSUME TypeOK, NEW answer \in BOOLEAN, NEW truth \in BOOLEAN, Told(answer, truth)
  PROVE  /\ spent' \in [Adversity -> Nat]
         /\ spent'["misread"] = 0 => spent["misread"] = 0 /\ answer = truth
<1>1. spent["misread"] + 1 \in Nat \ {0}
  BY DEF TypeOK, Adversity
<1>2. CASE answer = truth /\ UNCHANGED spent
  BY <1>2 DEF TypeOK
<1>3. CASE answer = FALSE /\ Spend("misread")
  BY <1>1, <1>3 DEF TypeOK, Spend, Adversity
<1> QED BY <1>2, <1>3 DEF Told

(***************************************************************************)
(* What a deletion and the end of a backup leave of the other snapshots.   *)
(***************************************************************************)
LEMMA DeleteKeeps ==
  ASSUME TypeOK, NEW n \in Made, DeleteSnapshot(n)
  PROVE  /\ Made' \subseteq Made
         /\ \A m \in Made \ {n} : m \in Made' /\ snaps'[m].maker = snaps[m].maker
         /\ \A m \in Made' : snaps'[m].maker = snaps[m].maker /\ snaps'[m].place = snaps[m].place
<1>1. \A m \in Name : snaps'[m] = IF m \notin Made \/ m = n THEN NoSnapshot
                                  ELSE IF snaps[m].parent = n
                                       THEN [snaps[m] EXCEPT !.parent = snaps[n].parent]
                                       ELSE snaps[m]
  BY DEF DeleteSnapshot
<1>2. snaps[n].parent \in Name \union {NoSnapshot}
  BY MadeIsSnapshot DEF Snapshot
<1>3. ASSUME NEW m \in Made \ {n}
      PROVE  /\ snaps'[m] \in Snapshot
             /\ snaps'[m].maker = snaps[m].maker /\ snaps'[m].place = snaps[m].place
  <2>1. m \in Name /\ snaps[m] \in Snapshot
    BY MadeIsSnapshot
  <2> QED BY <1>1, <1>2, <2>1 DEF Snapshot
<1>4. Made' \subseteq Made \ {n}
  BY <1>1 DEF Made
<1> QED BY <1>3, <1>4, NoSnapshotAssumption DEF Made

LEMMA BackupKeeps ==
  ASSUME TypeOK, BackupEnds
  PROVE  /\ Made' = Made
         /\ \A m \in Made : /\ snaps'[m].maker = snaps[m].maker
                            /\ snaps[m].place = "base" => snaps'[m].place = "base"
<1>1. ASSUME NEW m \in Made
      PROVE  /\ snaps'[m] \in Snapshot /\ snaps'[m].maker = snaps[m].maker
             /\ snaps[m].place = "base" => snaps'[m].place = "base"
  <2>1. m \in Name /\ snaps[m] \in Snapshot
    BY MadeIsSnapshot
  <2> QED BY <2>1 DEF BackupEnds, Snapshot
<1>2. \A m \in Name \ Made : snaps'[m] = snaps[m]
  BY DEF BackupEnds
<1> QED BY <1>1, <1>2, NoSnapshotAssumption DEF Made

(***************************************************************************)
(* The actions, one by one.                                                *)
(***************************************************************************)
LEMMA Actions ==
  ASSUME SnapshotNext
  PROVE  \/ \E r \in Req :
              \/ Enter(r) \/ Power(r) \/ Jobs(r) \/ Overlay(r) \/ Fault(r)
              \/ op[r] = "Make" /\ Create(r)
              \/ op[r] \in {"Remove", "Revert"} /\ Find(r)
              \/ op[r] = "Remove" /\ Delete(r)
              \/ op[r] = "Revert" /\ Revert(r)
         \/ PowerOn \/ PowerOff \/ BackupBegins \/ BackupCommits \/ BackupEnds \/ Crash
BY StepCases DEF SnapshotNext, Host

LEMMA BegunStep ==
  ASSUME TypeOK, BegunOK, [SnapshotNext]_snapshotVars
  PROVE  BegunOK'
<1>1. CASE UNCHANGED snapshotVars
  BY <1>1 DEF BegunOK, snapshotVars, localVars
<1>2. ASSUME NEW r \in Req, Enter(r)
      PROVE  BegunOK'
  <2>1. PICK o \in Plan[r], n \in Name : /\ op' = [op EXCEPT ![r] = o]
                                         /\ name' = [name EXCEPT ![r] = n]
    BY <1>2 DEF Enter
  <2>2. o \in Op
    BY SnapshotPlanAssumption
  <2> QED BY <1>2, <2>1, <2>2 DEF Enter, Goto, BegunOK, TypeOK
<1>3. ASSUME NEW r \in Req, Power(r) \/ Jobs(r) \/ Overlay(r)
      PROVE  BegunOK'
  BY <1>3 DEF Power, Jobs, Overlay, Goto, Fail, BegunOK, TypeOK, localVars
<1>4. ASSUME NEW r \in Req, Create(r) \/ Find(r) \/ Delete(r) \/ Revert(r)
      PROVE  BegunOK'
  BY <1>4 DEF Create, Find, Delete, Revert, NotFound, Goto, Fail, BegunOK, TypeOK, localVars
<1>5. ASSUME NEW r \in Req, Fault(r)
      PROVE  BegunOK'
  BY <1>5 DEF Fault, NotFound, Goto, Fail, BegunOK, TypeOK
<1>6. CASE PowerOn \/ PowerOff \/ BackupBegins \/ BackupCommits \/ BackupEnds
  BY <1>6 DEF PowerOn, PowerOff, BackupBegins, BackupCommits, BackupEnds, BegunOK, localVars
<1>7. CASE Crash
  BY <1>7 DEF Crash, BegunOK, TypeOK
<1> QED BY <1>1, <1>2, <1>3, <1>4, <1>5, <1>6, <1>7, Actions

LEMMA TypeStep ==
  ASSUME TypeOK, BegunOK, [SnapshotNext]_snapshotVars
  PROVE  TypeOK'
<1> USE DEF Label, Ended
<1>1. CASE UNCHANGED snapshotVars
  BY <1>1 DEF TypeOK, snapshotVars, hostVars, localVars
<1>2. ASSUME NEW r \in Req, Enter(r)
      PROVE  TypeOK'
  <2>1. PICK o \in Plan[r], n \in Name : /\ op' = [op EXCEPT ![r] = o]
                                         /\ name' = [name EXCEPT ![r] = n]
    BY <1>2 DEF Enter
  <2>2. o \in Op
    BY SnapshotPlanAssumption
  <2> QED BY <1>2, <2>1, <2>2 DEF Enter, Goto, TypeOK, hostVars
<1>3. ASSUME NEW r \in Req, Power(r) \/ Jobs(r)
      PROVE  TypeOK'
  <2>1. spent' \in [Adversity -> Nat]
    <3>1. PICK active \in BOOLEAN : Told(active, on)
      BY <1>3 DEF Power, Jobs
    <3> QED BY <3>1, ToldTyped DEF TypeOK
  <2> QED BY <1>3, <2>1 DEF Power, Jobs, Goto, Fail, TypeOK, hostVars, localVars
<1>4. ASSUME NEW r \in Req, Overlay(r)
      PROVE  TypeOK'
  BY <1>4 DEF Overlay, Goto, Fail, TypeOK, hostVars, localVars
<1>5. ASSUME NEW r \in Req, Create(r)
      PROVE  TypeOK'
  <2>1. name[r] \in Name
    BY <1>5 DEF Create, BegunOK
  <2>2. /\ on' \in BOOLEAN /\ image' \in Image /\ current' \in Name \union {NoSnapshot}
        /\ snaps' \in [Name -> Snapshot \union {NoSnapshot}]
    <3>1. CASE CanTake(name[r])
      BY <1>5, <2>1, <3>1, TakeTyped DEF Create
    <3>2. CASE ~CanTake(name[r])
      BY <1>5, <3>2 DEF Create, TypeOK, hostVars
    <3> QED BY <3>1, <3>2
  <2> QED BY <1>5, <2>2 DEF Create, Goto, Fail, TypeOK, localVars
<1>6. ASSUME NEW r \in Req, Find(r)
      PROVE  TypeOK'
  <2>1. name[r] \in Made => snaps[name[r]].maker \in Req \union {Earlier}
    BY MadeIsSnapshot DEF Snapshot
  <2> QED BY <1>6, <2>1 DEF Find, NotFound, Goto, TypeOK, hostVars
<1>7. ASSUME NEW r \in Req, Delete(r)
      PROVE  TypeOK'
  <2>1. /\ current' \in Name \union {NoSnapshot} /\ on' \in BOOLEAN /\ image' \in Image
        /\ snaps' \in [Name -> Snapshot \union {NoSnapshot}]
    <3>1. CASE name[r] \in Made
      BY <1>7, <3>1, DeleteTyped DEF Delete, DeleteSnapshot, TypeOK
    <3>2. CASE name[r] \notin Made
      BY <1>7, <3>2 DEF Delete, TypeOK, hostVars
    <3> QED BY <3>1, <3>2
  <2> QED BY <1>7, <2>1 DEF Delete, Goto, Fail, Free, TypeOK
<1>8. ASSUME NEW r \in Req, Revert(r)
      PROVE  TypeOK'
  <2>1. /\ on' \in BOOLEAN /\ image' \in Image /\ current' \in Name \union {NoSnapshot}
        /\ snaps' = snaps /\ raced' \subseteq Req
    <3>1. CASE CanRevert(name[r])
      BY <1>8, <3>1, RevertTyped DEF Revert, Reverted, Image, Checked, TypeOK
    <3>2. CASE ~CanRevert(name[r])
      BY <1>8, <3>2 DEF Revert, TypeOK, hostVars
    <3> QED BY <3>1, <3>2
  <2> QED BY <1>8, <2>1 DEF Revert, Goto, Fail, Free, TypeOK
<1>9. ASSUME NEW r \in Req, Fault(r)
      PROVE  TypeOK'
  <2>1. spent' \in [Adversity -> Nat]
    BY <1>9, SpendTyped DEF Fault, Adversity
  <2> QED BY <1>9, <2>1 DEF Fault, NotFound, Goto, Fail, Free, TypeOK, hostVars
<1>10. CASE PowerOn \/ PowerOff \/ BackupBegins \/ BackupCommits
  BY <1>10 DEF PowerOn, PowerOff, BackupBegins, BackupCommits, StoppedImage, Image, Checked,
               TypeOK, localVars
<1>11. CASE BackupEnds
  <2>1. snaps' \in [Name -> Snapshot \union {NoSnapshot}]
    BY <1>11, BackupTyped
  <2> QED BY <1>11, <2>1 DEF BackupEnds, Image, TypeOK, localVars
<1>12. CASE Crash
  <2>1. spent' \in [Adversity -> Nat]
    BY <1>12, SpendTyped DEF Crash, Adversity
  <2> QED BY <1>12, <2>1 DEF Crash, TypeOK, hostVars
<1> QED BY <1>1, <1>2, <1>3, <1>4, <1>5, <1>6, <1>7, <1>8, <1>9, <1>10, <1>11, <1>12, Actions

LEMMA HeldStep ==
  ASSUME TypeOK, HeldOK, [SnapshotNext]_snapshotVars
  PROVE  HeldOK'
<1>1. CASE UNCHANGED snapshotVars
  BY <1>1 DEF HeldOK, snapshotVars, localVars
<1>2. ASSUME NEW r \in Req, Enter(r)
      PROVE  HeldOK'
  <2>1. held[r] = NoSnapshot /\ held' = held
    BY <1>2 DEF Enter, HeldOK
  <2>2. \A x \in Req \ {r} : op'[x] = op[x] /\ pc'[x] = pc[x]
    BY <1>2 DEF Enter, Goto, TypeOK
  <2> QED BY <2>1, <2>2 DEF HeldOK
<1>3. ASSUME NEW r \in Req, Power(r) \/ Jobs(r) \/ Overlay(r)
      PROVE  HeldOK'
  BY <1>3 DEF Power, Jobs, Overlay, Goto, Fail, HeldOK, TypeOK, localVars
<1>4. ASSUME NEW r \in Req, Create(r)
      PROVE  HeldOK'
  BY <1>4 DEF Create, Goto, Fail, HeldOK, TypeOK, localVars
<1>5. ASSUME NEW r \in Req, Find(r), op[r] \in {"Remove", "Revert"}
      PROVE  HeldOK'
  BY <1>5 DEF Find, NotFound, Goto, HeldOK, TypeOK
<1>6. ASSUME NEW r \in Req, Delete(r) \/ (op[r] = "Revert" /\ Revert(r))
      PROVE  HeldOK'
  BY <1>6 DEF Delete, Revert, Free, Goto, Fail, HeldOK, TypeOK
<1>7. ASSUME NEW r \in Req, Fault(r)
      PROVE  HeldOK'
  BY <1>7 DEF Fault, NotFound, Free, Goto, Fail, HeldOK, TypeOK
<1>8. CASE PowerOn \/ PowerOff \/ BackupBegins \/ BackupCommits \/ BackupEnds
  BY <1>8 DEF PowerOn, PowerOff, BackupBegins, BackupCommits, BackupEnds, HeldOK, localVars
<1>9. CASE Crash
  BY <1>9 DEF Crash, HeldOK
<1> QED BY <1>1, <1>2, <1>3, <1>4, <1>5, <1>6, <1>7, <1>8, <1>9, Actions

(***************************************************************************)
(* An answer is final.                                                     *)
(***************************************************************************)
LEMMA AnswerIsFinal ==
  ASSUME TypeOK, [SnapshotNext]_snapshotVars, NEW q \in Req, pc[q] = "ok"
  PROVE  pc'[q] = "ok" /\ op'[q] = op[q] /\ name'[q] = name[q]
<1>1. CASE UNCHANGED snapshotVars
  BY <1>1 DEF snapshotVars, localVars
<1>2. ASSUME NEW r \in Req, Enter(r)
      PROVE  pc'[q] = "ok" /\ op'[q] = op[q] /\ name'[q] = name[q]
  BY <1>2 DEF Enter, Goto, TypeOK
<1>3. ASSUME NEW r \in Req, Power(r) \/ Jobs(r) \/ Overlay(r)
      PROVE  pc'[q] = "ok" /\ op'[q] = op[q] /\ name'[q] = name[q]
  BY <1>3 DEF Power, Jobs, Overlay, Goto, Fail, TypeOK, localVars
<1>4. ASSUME NEW r \in Req, Create(r) \/ Find(r) \/ Delete(r) \/ Revert(r) \/ Fault(r)
      PROVE  pc'[q] = "ok" /\ op'[q] = op[q] /\ name'[q] = name[q]
  BY <1>4 DEF Create, Find, Delete, Revert, Fault, NotFound, Goto, Fail, TypeOK, localVars
<1>5. CASE PowerOn \/ PowerOff \/ BackupBegins \/ BackupCommits \/ BackupEnds
  BY <1>5 DEF PowerOn, PowerOff, BackupBegins, BackupCommits, BackupEnds, localVars
<1>6. CASE Crash
  BY <1>6 DEF Crash, Ended
<1> QED BY <1>1, <1>2, <1>3, <1>4, <1>5, <1>6, Actions

(***************************************************************************)
(* A MakeSnapshot answered TRUE has just taken its snapshot.               *)
(***************************************************************************)
LEMMA AnswerOfMake ==
  ASSUME TypeOK, [SnapshotNext]_snapshotVars, NEW q \in Req,
         pc[q] # "ok", pc'[q] = "ok", op'[q] = "Make"
  PROVE  op[q] = "Make" /\ Create(q)
<1>1. CASE UNCHANGED snapshotVars
  BY <1>1 DEF snapshotVars, localVars
<1>2. ASSUME NEW r \in Req, Enter(r)
      PROVE  FALSE
  BY <1>2 DEF Enter, Goto, TypeOK
<1>3. ASSUME NEW r \in Req, Power(r) \/ Jobs(r) \/ Overlay(r)
      PROVE  FALSE
  BY <1>3 DEF Power, Jobs, Overlay, Goto, Fail, TypeOK, localVars
<1>4. ASSUME NEW r \in Req, op[r] = "Make" /\ Create(r)
      PROVE  op[q] = "Make" /\ Create(q)
  BY <1>4 DEF Create, Goto, Fail, TypeOK
<1>5. ASSUME NEW r \in Req,
             \/ op[r] \in {"Remove", "Revert"} /\ Find(r)
             \/ op[r] = "Remove" /\ Delete(r)
             \/ op[r] = "Revert" /\ Revert(r)
      PROVE  FALSE
  BY <1>5 DEF Find, Delete, Revert, NotFound, Goto, Fail, TypeOK
<1>6. ASSUME NEW r \in Req, Fault(r)
      PROVE  FALSE
  BY <1>6 DEF Fault, NotFound, Goto, Fail, TypeOK
<1>7. CASE PowerOn \/ PowerOff \/ BackupBegins \/ BackupCommits \/ BackupEnds
  BY <1>7 DEF PowerOn, PowerOff, BackupBegins, BackupCommits, BackupEnds, localVars
<1>8. CASE Crash
  BY <1>8 DEF Crash
<1> QED BY <1>1, <1>2, <1>3, <1>4, <1>5, <1>6, <1>7, <1>8, Actions

(***************************************************************************)
(* A snapshot that is made stays as it is, whatever step is taken, but for *)
(* the answer TRUE of a RemoveSnapshot of its name.                        *)
(***************************************************************************)
LEMMA MadeStays ==
  ASSUME TypeOK, BegunOK, [SnapshotNext]_snapshotVars, NEW n \in Made
  PROVE  \/ n \in Made' /\ snaps'[n].maker = snaps[n].maker
         \/ \E q \in Req : op'[q] = "Remove" /\ pc'[q] = "ok" /\ name'[q] = n
<1>1. CASE snaps' = snaps
  BY <1>1 DEF Made
<1>2. ASSUME NEW r \in Req, Create(r)
      PROVE  n \in Made' /\ snaps'[n].maker = snaps[n].maker
  <2>1. n # name[r] \/ ~CanTake(name[r])
    BY DEF CanTake, Made
  <2> QED BY <1>2, <2>1 DEF Create, TakeSnapshot, Made, hostVars, TypeOK
<1>3. ASSUME NEW r \in Req, Delete(r), op[r] = "Remove", name[r] \in Made
      PROVE  \/ n \in Made' /\ snaps'[n].maker = snaps[n].maker
             \/ op'[r] = "Remove" /\ pc'[r] = "ok" /\ name'[r] = n
  <2>1. DeleteSnapshot(name[r])
    BY <1>3 DEF Delete
  <2>2. n # name[r] => n \in Made' /\ snaps'[n].maker = snaps[n].maker
    BY <1>3, <2>1, DeleteKeeps
  <2>3. op'[r] = "Remove" /\ pc'[r] = "ok" /\ name'[r] = name[r]
    BY <1>3 DEF Delete, Goto, TypeOK
  <2> QED BY <2>2, <2>3
<1>4. ASSUME NEW r \in Req, Delete(r), name[r] \notin Made
      PROVE  snaps' = snaps
  BY <1>4 DEF Delete, hostVars
<1>5. CASE BackupEnds
  BY <1>5, BackupKeeps
<1>6. ASSUME NEW r \in Req, Enter(r) \/ Power(r) \/ Jobs(r) \/ Overlay(r) \/ Find(r) \/ Fault(r)
      PROVE  snaps' = snaps
  BY <1>6 DEF Enter, Power, Jobs, Overlay, Find, Fault, hostVars
<1>7. ASSUME NEW r \in Req, Revert(r)
      PROVE  snaps' = snaps
  BY <1>7 DEF Revert, Reverted, RevertSnapshot, hostVars
<1>8. CASE PowerOn \/ PowerOff \/ BackupBegins \/ BackupCommits \/ Crash \/ UNCHANGED snapshotVars
  <2>1. snaps' = snaps
    BY <1>8 DEF PowerOn, PowerOff, BackupBegins, BackupCommits, Crash, snapshotVars, hostVars
  <2> QED BY <2>1, <1>1
<1> QED BY <1>1, <1>2, <1>3, <1>4, <1>5, <1>6, <1>7, <1>8, Actions

LEMMA AnsweredStep ==
  ASSUME TypeOK, BegunOK, AnsweredSnapshotStays, [SnapshotNext]_snapshotVars
  PROVE  AnsweredSnapshotStays'
<1> SUFFICES ASSUME NEW r \in Req, op'[r] = "Make", pc'[r] = "ok"
             PROVE  \/ name'[r] \in Made' /\ snaps'[name'[r]].maker = r
                    \/ \E q \in Req : op'[q] = "Remove" /\ pc'[q] = "ok" /\ name'[q] = name'[r]
  BY DEF AnsweredSnapshotStays
<1>1. CASE pc[r] = "ok"
  <2>1. op[r] = "Make" /\ name'[r] = name[r]
    BY <1>1, AnswerIsFinal
  <2>2. CASE name[r] \in Made /\ snaps[name[r]].maker = r
    BY <2>1, <2>2, MadeStays
  <2>3. CASE \E q \in Req : op[q] = "Remove" /\ pc[q] = "ok" /\ name[q] = name[r]
    BY <2>1, <2>3, AnswerIsFinal
  <2> QED BY <1>1, <2>1, <2>2, <2>3 DEF AnsweredSnapshotStays
<1>2. CASE pc[r] # "ok"
  <2>1. op[r] = "Make" /\ Create(r)
    BY <1>2, AnswerOfMake
  <2>2. CanTake(name[r]) /\ TakeSnapshot(r, name[r]) /\ name' = name
    BY <2>1 DEF Create, Goto, Fail, TypeOK, localVars
  <2>3. name[r] \in Name
    BY <2>1 DEF Create, BegunOK
  <2>4. snaps'[name[r]] = Take(r, current, on, image)
    BY <2>2, <2>3 DEF TakeSnapshot, TypeOK
  <2>5. Take(r, current, on, image) \in Snapshot
    BY <2>2 DEF TypeOK, CanTake, Take, Snapshot, Image
  <2>6. name[r] \in Made'
    BY <2>3, <2>4, <2>5, NoSnapshotAssumption DEF Made
  <2> QED BY <2>2, <2>4, <2>6 DEF Take
<1> QED BY <1>1, <1>2

LEMMA MisreadCounted ==
  ASSUME TypeOK, [SnapshotNext]_snapshotVars, spent'["misread"] = 0
  PROVE  spent["misread"] = 0
<1>1. ASSUME NEW r \in Req, Power(r) \/ Jobs(r)
      PROVE  spent["misread"] = 0
  <2>1. PICK active \in BOOLEAN : Told(active, on)
    BY <1>1 DEF Power, Jobs
  <2> QED BY <2>1, ToldTyped DEF TypeOK
<1>2. ASSUME NEW r \in Req, Fault(r) \/ Crash
      PROVE  spent["misread"] = 0
  BY <1>2, SpendTyped DEF Fault, Crash, Adversity
<1>3. ASSUME NEW r \in Req, Enter(r) \/ Overlay(r) \/ Create(r) \/ Find(r) \/ Delete(r) \/ Revert(r)
      PROVE  spent["misread"] = 0
  BY <1>3 DEF Enter, Overlay, Create, Find, Delete, Revert
<1>4. CASE PowerOn \/ PowerOff \/ BackupBegins \/ BackupCommits \/ BackupEnds
           \/ UNCHANGED snapshotVars
  BY <1>4 DEF PowerOn, PowerOff, BackupBegins, BackupCommits, BackupEnds, snapshotVars
<1>5. CASE Crash
  BY <1>5, SpendTyped DEF Crash, Adversity
<1> QED BY <1>1, <1>2, <1>3, <1>4, <1>5, Actions

LEMMA QuietStep ==
  ASSUME TypeOK, BegunOK, QuietOK, [SnapshotNext]_snapshotVars
  PROVE  QuietOK'
<1> SUFFICES ASSUME spent'["misread"] = 0, NEW x \in Checked', x \notin raced'
             PROVE  ~on' /\ (pc'[x] \in {"create", "find", "delete", "revert"} => image' = "base")
  BY DEF QuietOK
<1> USE DEF Checked, Ended
<1>0. spent["misread"] = 0
  BY MisreadCounted
<1>1. CASE UNCHANGED snapshotVars
  BY <1>0, <1>1 DEF QuietOK, snapshotVars, hostVars
<1>2. ASSUME NEW r \in Req, Enter(r)
      PROVE  ~on' /\ (pc'[x] \in {"create", "find", "delete", "revert"} => image' = "base")
  BY <1>0, <1>2 DEF Enter, Goto, QuietOK, TypeOK, hostVars
<1>3. ASSUME NEW r \in Req, Power(r)
      PROVE  ~on' /\ (pc'[x] \in {"create", "find", "delete", "revert"} => image' = "base")
  <2>1. PICK active \in BOOLEAN :
          /\ Told(active, on)
          /\ IF active THEN Fail(r) ELSE Goto(r, "jobs")
    BY <1>3 DEF Power
  <2>2. active = on
    BY <2>1, ToldTyped DEF TypeOK
  <2> QED BY <1>0, <1>3, <2>1, <2>2 DEF Power, Goto, Fail, QuietOK, TypeOK, hostVars
<1>4. ASSUME NEW r \in Req, Jobs(r)
      PROVE  ~on' /\ (pc'[x] \in {"create", "find", "delete", "revert"} => image' = "base")
  <2>1. pc[r] = "jobs" /\ (Goto(r, "error") \/ Goto(r, "overlay"))
    BY <1>4 DEF Jobs, Fail
  <2> QED BY <1>0, <1>4, <2>1 DEF Jobs, Goto, QuietOK, TypeOK, hostVars
<1>5. ASSUME NEW r \in Req, Overlay(r)
      PROVE  ~on' /\ (pc'[x] \in {"create", "find", "delete", "revert"} => image' = "base")
  BY <1>0, <1>5 DEF Overlay, Goto, Fail, QuietOK, TypeOK, hostVars
<1>6. ASSUME NEW r \in Req, Create(r)
      PROVE  ~on' /\ (pc'[x] \in {"create", "find", "delete", "revert"} => image' = "base")
  BY <1>0, <1>6 DEF Create, TakeSnapshot, Goto, Fail, QuietOK, TypeOK, hostVars
<1>7. ASSUME NEW r \in Req, Find(r)
      PROVE  ~on' /\ (pc'[x] \in {"create", "find", "delete", "revert"} => image' = "base")
  BY <1>0, <1>7 DEF Find, NotFound, Goto, QuietOK, TypeOK, hostVars
<1>8. ASSUME NEW r \in Req, Delete(r)
      PROVE  ~on' /\ (pc'[x] \in {"create", "find", "delete", "revert"} => image' = "base")
  BY <1>0, <1>8 DEF Delete, DeleteSnapshot, Goto, Fail, QuietOK, TypeOK, hostVars
<1>9. ASSUME NEW r \in Req, Revert(r)
      PROVE  ~on' /\ (pc'[x] \in {"create", "find", "delete", "revert"} => image' = "base")
  <2>1. x \in Checked /\ pc'[x] = pc[x]
    BY <1>9 DEF Revert, Goto, Fail, TypeOK
  <2>2. on' = on /\ image' = image /\ raced' = raced
    BY <1>9, <2>1 DEF Revert, Reverted, hostVars
  <2> QED BY <1>0, <2>1, <2>2 DEF QuietOK
<1>10. ASSUME NEW r \in Req, Fault(r)
       PROVE  ~on' /\ (pc'[x] \in {"create", "find", "delete", "revert"} => image' = "base")
  BY <1>0, <1>10 DEF Fault, NotFound, Goto, Fail, QuietOK, TypeOK, hostVars
<1>11. CASE PowerOn
  BY <1>11 DEF PowerOn
<1>12. CASE PowerOff \/ BackupBegins \/ BackupCommits \/ BackupEnds
  BY <1>0, <1>12 DEF PowerOff, BackupBegins, BackupCommits, BackupEnds, QuietOK
<1>13. CASE Crash
  BY <1>13 DEF Crash, TypeOK
<1> QED BY <1>1, <1>2, <1>3, <1>4, <1>5, <1>6, <1>7, <1>8, <1>9, <1>10, <1>11, <1>12, <1>13, Actions

LEMMA PlaceStep ==
  ASSUME TypeOK, BegunOK, QuietOK, PlaceOK, [SnapshotNext]_snapshotVars
  PROVE  PlaceOK'
<1> SUFFICES ASSUME spent'["misread"] = 0, NEW n \in Made', snaps'[n].place # "base"
             PROVE  snaps'[n].maker \in raced'
  BY DEF PlaceOK
<1>0. spent["misread"] = 0
  BY MisreadCounted
<1>1. raced \subseteq raced'
  <2>1. ASSUME NEW r \in Req, Revert(r)
        PROVE  raced \subseteq raced'
    BY <2>1 DEF Revert, Reverted
  <2>2. ASSUME NEW r \in Req, \/ Enter(r) \/ Power(r) \/ Jobs(r) \/ Overlay(r) \/ Create(r)
                              \/ Find(r) \/ Delete(r) \/ Fault(r)
        PROVE  raced \subseteq raced'
    BY <2>2 DEF Enter, Power, Jobs, Overlay, Create, Find, Delete, Fault
  <2>3. CASE PowerOn \/ PowerOff \/ BackupBegins \/ BackupCommits \/ BackupEnds \/ Crash
             \/ UNCHANGED snapshotVars
    BY <2>3 DEF PowerOn, PowerOff, BackupBegins, BackupCommits, BackupEnds, Crash, snapshotVars
  <2> QED BY <2>1, <2>2, <2>3, Actions
<1>2. CASE n \in Made /\ snaps'[n].maker = snaps[n].maker /\ snaps[n].place # "base"
  BY <1>0, <1>1, <1>2 DEF PlaceOK
<1>3. CASE snaps' = snaps
  BY <1>2, <1>3 DEF Made
<1>4. ASSUME NEW r \in Req, Create(r)
      PROVE  snaps'[n].maker \in raced'
  <2>1. CASE CanTake(name[r])
    <3>1. name[r] \in Name
      BY <1>4 DEF Create, BegunOK
    <3>2. CASE n # name[r]
      BY <1>2, <1>4, <2>1, <3>1, <3>2 DEF Create, TakeSnapshot, Made, TypeOK
    <3>3. CASE n = name[r]
      <4>1. snaps'[n] = Take(r, current, on, image)
        BY <1>4, <2>1, <3>1, <3>3 DEF Create, TakeSnapshot, TypeOK
      <4>2. image # "base"
        BY <4>1 DEF Take
      <4>3. r \in raced
        BY <1>0, <1>4, <4>2 DEF Create, QuietOK, Checked, Ended
      <4> QED BY <1>1, <4>1, <4>3 DEF Take
    <3> QED BY <3>2, <3>3
  <2>2. CASE ~CanTake(name[r])
    BY <1>3, <1>4, <2>2 DEF Create, hostVars
  <2> QED BY <2>1, <2>2
<1>5. ASSUME NEW r \in Req, Delete(r)
      PROVE  snaps'[n].maker \in raced'
  <2>1. CASE name[r] \in Made
    <3>1. n \in Made /\ snaps'[n].maker = snaps[n].maker /\ snaps'[n].place = snaps[n].place
      BY <1>5, <2>1, DeleteKeeps DEF Delete
    <3> QED BY <1>2, <3>1
  <2>2. CASE name[r] \notin Made
    BY <1>3, <1>5, <2>2 DEF Delete, hostVars
  <2> QED BY <2>1, <2>2
<1>6. CASE BackupEnds
  BY <1>2, <1>6, BackupKeeps
<1>7. ASSUME NEW r \in Req, \/ Enter(r) \/ Power(r) \/ Jobs(r) \/ Overlay(r) \/ Find(r)
                            \/ Revert(r) \/ Fault(r)
      PROVE  snaps' = snaps
  BY <1>7 DEF Enter, Power, Jobs, Overlay, Find, Revert, Reverted, RevertSnapshot, Fault, hostVars
<1>8. CASE PowerOn \/ PowerOff \/ BackupBegins \/ BackupCommits \/ Crash \/ UNCHANGED snapshotVars
  <2>1. snaps' = snaps
    BY <1>8 DEF PowerOn, PowerOff, BackupBegins, BackupCommits, Crash, snapshotVars, hostVars
  <2> QED BY <1>3, <2>1
<1> QED BY <1>3, <1>4, <1>5, <1>6, <1>7, <1>8, Actions

(***************************************************************************)
(* A step of a request that is not raced leaves a running guest alone.     *)
(***************************************************************************)
LEMMA GuestStep ==
  ASSUME TypeOK, QuietOK, [SnapshotNext]_snapshotVars,
         on, spent["misread"] = 0, NEW x \in Req, x \notin raced, pc[x] # pc'[x]
  PROVE  on' /\ image' = image
<1>1. CASE UNCHANGED snapshotVars
  BY <1>1 DEF snapshotVars
<1>2. x \notin Checked
  BY DEF QuietOK
<1>3. ASSUME NEW r \in Req, Create(r) \/ Revert(r)
      PROVE  FALSE
  <2>1. r = x
    BY <1>3 DEF Create, Revert, Goto, Fail, TypeOK
  <2> QED BY <1>2, <1>3, <2>1 DEF Create, Revert, Checked, Ended
<1>4. ASSUME NEW r \in Req, Delete(r)
      PROVE  on' /\ image' = image
  BY <1>4 DEF Delete, DeleteSnapshot, hostVars
<1>5. ASSUME NEW r \in Req, Enter(r) \/ Power(r) \/ Jobs(r) \/ Overlay(r) \/ Find(r) \/ Fault(r)
      PROVE  on' /\ image' = image
  BY <1>5 DEF Enter, Power, Jobs, Overlay, Find, Fault, hostVars
<1>6. CASE Crash
  BY <1>6 DEF Crash, hostVars
<1>7. CASE PowerOn \/ PowerOff \/ BackupBegins \/ BackupCommits \/ BackupEnds
  BY <1>7 DEF PowerOn, PowerOff, BackupBegins, BackupCommits, BackupEnds
<1> QED BY <1>1, <1>3, <1>4, <1>5, <1>6, <1>7, Actions

-----------------------------------------------------------------------------
LEMMA InitHolds ==
  ASSUME Init
  PROVE  IInv
<1>1. TypeOK
  <2>1. \A p \in Name \union {NoSnapshot} : Take(Earlier, p, FALSE, "base") \in Snapshot
    BY DEF Take, Snapshot
  <2>2. \A n \in Name : snaps[n] \in Snapshot \union {NoSnapshot}
    BY <2>1 DEF Init
  <2>3. current \in Name \union {NoSnapshot}
    BY DEF Init, Made
  <2> QED BY <2>2, <2>3 DEF Init, TypeOK, Image, Label, Ended
<1>2. BegunOK /\ HeldOK /\ AnsweredSnapshotStays
  BY DEF Init, BegunOK, HeldOK, AnsweredSnapshotStays
<1>3. QuietOK
  BY DEF Init, QuietOK, Checked
<1>4. PlaceOK
  <2>1. \A n \in Made : snaps[n].place = "base"
    BY DEF Init, Made, Take
  <2> QED BY <2>1 DEF PlaceOK
<1> QED BY <1>1, <1>2, <1>3, <1>4 DEF IInv

LEMMA Invariance == SnapshotSafe => []IInv
<1>1. Init => IInv
  BY InitHolds
<1>2. IInv /\ [SnapshotNext]_snapshotVars => IInv'
  BY TypeStep, BegunStep, HeldStep, AnsweredStep, QuietStep, PlaceStep DEF IInv
<1> QED BY <1>1, <1>2, PTL DEF SnapshotSafe

LEMMA SnapshotsKept ==
  ASSUME IInv
  PROVE  SnapshotsComeBack /\ AnsweredSnapshotStays /\ HandlesFreed
<1>1. ASSUME NEW n \in Made, snaps[n].place = "lost", ~(spent["misread"] > 0)
      PROVE  snaps[n].maker \in raced
  <2>1. spent["misread"] \in Nat
    BY DEF IInv, TypeOK, Adversity
  <2>2. spent["misread"] = 0
    BY <1>1, <2>1
  <2> QED BY <1>1, <2>2 DEF IInv, PlaceOK
<1> QED BY <1>1 DEF IInv, SnapshotsComeBack, HeldOK, HandlesFreed, Ended

(***************************************************************************)
(* Every variable keeps its type.                                          *)
(***************************************************************************)
THEOREM TypeCorrect == SnapshotSafe => []TypeOK
<1>1. IInv => TypeOK
  BY DEF IInv
<1> QED BY <1>1, Invariance, PTL

(***************************************************************************)
(* Handles are freed, but for the refused revert.                          *)
(***************************************************************************)
THEOREM HandlesAreFreed == SnapshotSafe => []HandlesFreed
<1>1. IInv => HandlesFreed
  BY SnapshotsKept
<1> QED BY <1>1, Invariance, PTL

(***************************************************************************)
(* No backup deletes the data of a snapshot that was neither overtaken nor *)
(* misled.                                                                 *)
(***************************************************************************)
THEOREM SnapshotsSurviveBackups == SnapshotSafe => []SnapshotsComeBack
<1>1. IInv => SnapshotsComeBack
  BY SnapshotsKept
<1> QED BY <1>1, Invariance, PTL

(***************************************************************************)
(* What MakeSnapshot answered TRUE for stays until it is removed by name.  *)
(***************************************************************************)
THEOREM AnswersHold == SnapshotSafe => []AnsweredSnapshotStays
<1>1. IInv => AnsweredSnapshotStays
  BY SnapshotsKept
<1> QED BY <1>1, Invariance, PTL

(***************************************************************************)
(* The handlers leave a running guest alone.                               *)
(***************************************************************************)
THEOREM GuestsLeftAlone == SnapshotSafe => GuestUndisturbed
<1> DEFINE Undisturbed ==
      on /\ spent["misread"] = 0 =>
        \A r \in Req \ raced : pc[r] # pc'[r] => on' /\ image' = image
<1>1. IInv /\ [SnapshotNext]_snapshotVars => [Undisturbed]_snapshotVars
  <2> SUFFICES ASSUME IInv, [SnapshotNext]_snapshotVars
               PROVE  Undisturbed
    OBVIOUS
  <2> QED BY GuestStep DEF IInv
<1>2. SnapshotSafe => [][Undisturbed]_snapshotVars
  BY <1>1, Invariance, PTL DEF SnapshotSafe
<1> QED BY <1>2 DEF GuestUndisturbed

-----------------------------------------------------------------------------
(***************************************************************************)
(* The report of Info.                                                     *)
(***************************************************************************)
AllFlags == {Flags[i] : i \in DOMAIN Flags}
Starting == {"idle", "active", "persistent", "now"}
Listing == {"next", "ok"} \union Describing
Quiet == seen = "nothing"
NoFault == spent["fault"] = 0 /\ spent["misread"] = 0
Excused == spent["fault"] > 0 \/ seen = "removal"

EntryType ==
  [name : Name \union {NoSnapshot}, children : Nat, root : BOOLEAN,
   parent : Name \union {NoSnapshot}, current : BOOLEAN, flags : SUBSET AllFlags,
   error : BOOLEAN]
ReportType ==
  [state : BOOLEAN, active : BOOLEAN, persistent : BOOLEAN,
   config : Seq(Value \union {Nothing}), count : 0..Cardinality(Name),
   entries : SUBSET EntryType]

(***************************************************************************)
(* The report is filled field after field.                                 *)
(***************************************************************************)
FieldsOK ==
  /\ live \in Value /\ stored \in Value
  /\ ipc \in Reading \union {"idle", "ok", "error"}
  /\ report \in ReportType
  /\ Len(report.config) <= 2
  /\ ipc \in Starting => report.config = << >>
  /\ ipc = "config" => Len(report.config) <= 1
  /\ todo \subseteq Name
  /\ entry \in EntryType
  /\ asked \in 0..Len(Flags)
  /\ seen \in Seen

(***************************************************************************)
(* Every snapshot of the list is to be described, being described, or has  *)
(* been, once.                                                             *)
(***************************************************************************)
ListedOnce ==
  /\ ipc \notin Listing => todo = {} /\ report.entries = {}
  /\ ipc = "ok" => todo = {}
  /\ ipc \in Describing => entry.name \in Name \ todo
  /\ \A e \in report.entries :
       /\ e.name \in Name \ todo
       /\ ipc \in Describing => e.name # entry.name
       /\ \A f \in report.entries : e.name = f.name => e = f

(***************************************************************************)
(* As long as no snapshot is removed those of the list are there, and what *)
(* is not a root keeps its parent; so errors have a reason.                *)
(***************************************************************************)
ErrorsOK ==
  /\ seen # "removal" =>
       /\ todo \subseteq Made
       /\ ipc \in Describing => entry.name \in Made
  /\ ~Excused =>
       /\ \A e \in report.entries : ~e.error
       /\ ipc \in Describing => ~entry.error
       /\ ipc = "parent" => snaps[entry.name].parent # NoSnapshot

(***************************************************************************)
(* While all is quiet the first half of the report is true.                *)
(***************************************************************************)
HeadOK ==
  Quiet /\ NoFault /\ ipc \notin {"idle", "error"} =>
    /\ report.state = on
    /\ ipc # "active" => report.active = on
    /\ ipc \notin {"active", "persistent"} => report.persistent
    /\ ipc = "config" => report.config = <<IF on THEN live ELSE stored>>
    /\ ipc \notin Starting \union {"config"} =>
         report.config = IF on THEN <<live, stored>> ELSE <<stored>>
    /\ ipc \notin Starting \union {"config", "count"} => report.count = Cardinality(Made)

\* The lists that name n, of the first k.
Naming(n, k) == {f \in {Flags[i] : i \in 1..k} : n \in Listed(f)}

(***************************************************************************)
(* While all is quiet the description of a snapshot with a name of its own *)
(* is true as far as it goes.                                              *)
(***************************************************************************)
EntryOK ==
  Quiet /\ ipc \in Describing /\ ~HasTwin(entry.name) =>
    LET n == entry.name IN
    /\ NoFault /\ ipc # "children" => entry.children = Cardinality(Children(n))
    /\ ~entry.error =>
         /\ ipc \in {"parent", "current", "flags"} =>
              entry.root = (snaps[n].parent = NoSnapshot)
         /\ entry.parent = IF ipc \in {"current", "flags"} THEN snaps[n].parent
                                                           ELSE NoSnapshot
         /\ ipc = "parent" => snaps[n].parent # NoSnapshot
         /\ ipc = "flags" => entry.current = (n = current)
         /\ entry.flags = Naming(n, asked)
    /\ ipc # "flags" => asked = 0

(***************************************************************************)
(* So is every description that is complete.                               *)
(***************************************************************************)
DescribedOK ==
  Quiet =>
    /\ \A e \in report.entries : HasTwin(e.name) \/
         LET n == e.name IN
         /\ NoFault => e.children = Cardinality(Children(n))
         /\ ~e.error => [e EXCEPT !.children = 0] = [TrueEntry(n) EXCEPT !.children = 0]
    /\ NoFault /\ ipc \in Listing =>
         Made = todo \union {e.name : e \in report.entries}
                     \union (IF ipc \in Describing THEN {entry.name} ELSE {})

ReportInv ==
  IInv /\ FieldsOK /\ ListedOnce /\ ErrorsOK /\ HeadOK /\ EntryOK /\ DescribedOK

-----------------------------------------------------------------------------
(***************************************************************************)
(* The steps of Info and those of the others.                              *)
(***************************************************************************)
LEMMA InfoActions ==
  ASSUME Info
  PROVE  \/ Stats \/ Active \/ Persistent \/ Now \/ Config \/ Count
         \/ List \/ NextSnapshot \/ CountChildren \/ Roots \/ Parent \/ Current \/ Flag
         \/ Described
BY DEF Info, DescribeSnapshots

LEMMA FaultSpent ==
  ASSUME TypeOK, Spend("fault")
  PROVE  /\ spent' \in [Adversity -> Nat]
         /\ spent'["fault"] > 0 /\ spent'["misread"] = spent["misread"]
BY DEF TypeOK, Spend, Adversity

LEMMA ToldInfo ==
  ASSUME TypeOK, NEW answer \in BOOLEAN, NEW truth \in BOOLEAN, Told(answer, truth)
  PROVE  /\ spent' \in [Adversity -> Nat] /\ spent'["fault"] = spent["fault"]
         /\ spent'["misread"] >= spent["misread"]
         /\ spent'["misread"] = 0 => answer = truth
BY DEF TypeOK, Told, Spend, Adversity

LEMMA InfoFrame ==
  ASSUME TypeOK, Info
  PROVE  /\ UNCHANGED <<hostVars, pc, localVars, raced, configVars>>
         /\ spent' \in [Adversity -> Nat]
         /\ spent["fault"] \in Nat /\ spent["misread"] \in Nat
         /\ spent'["fault"] >= spent["fault"] /\ spent'["misread"] >= spent["misread"]
<1>0. /\ spent \in [Adversity -> Nat]
      /\ spent["fault"] \in Nat /\ spent["misread"] \in Nat
  BY DEF TypeOK, Adversity
<1>1. ASSUME UNCHANGED spent \/ Spend("fault")
      PROVE  /\ spent' \in [Adversity -> Nat]
             /\ spent'["fault"] >= spent["fault"] /\ spent'["misread"] >= spent["misread"]
  BY <1>0, <1>1 DEF Spend, Adversity
<1>2. CASE Active \/ Persistent
  <2>1. PICK answer \in BOOLEAN, truth \in BOOLEAN : Told(answer, truth)
    BY <1>2 DEF Active, Persistent, TypeOK
  <2>2. UNCHANGED <<hostVars, pc, localVars, raced, configVars>>
    BY <1>2 DEF Active, Persistent, Rest
  <2>3. /\ spent' \in [Adversity -> Nat] /\ spent'["fault"] = spent["fault"]
        /\ spent'["misread"] >= spent["misread"]
    BY <2>1, ToldInfo
  <2> QED BY <1>0, <2>2, <2>3
<1>3. CASE Stats \/ Now \/ Config \/ Count
  BY <1>0, <1>1, <1>3 DEF Stats, Now, Config, Count, FaultOr, Rest
<1>4. CASE List \/ CountChildren \/ Roots \/ Parent \/ Current \/ Flag
  BY <1>0, <1>1, <1>4 DEF List, CountChildren, Roots, Parent, Current, Flag, FaultOr, Rest
<1>5. CASE NextSnapshot \/ Described
  BY <1>0, <1>1, <1>5 DEF NextSnapshot, Described, Rest
<1> QED BY <1>2, <1>3, <1>4, <1>5, InfoActions

LEMMA FaultMonotone ==
  ASSUME TypeOK, [SnapshotNext]_snapshotVars
  PROVE  spent["fault"] \in Nat /\ spent'["fault"] >= spent["fault"]
<1>0. spent \in [Adversity -> Nat] /\ spent["fault"] \in Nat
  BY DEF TypeOK, Adversity
<1>1. ASSUME NEW a \in Adversity, Spend(a)
      PROVE  spent'["fault"] >= spent["fault"]
  BY <1>0, <1>1 DEF Spend, Adversity
<1>2. ASSUME NEW r \in Req, Power(r) \/ Jobs(r)
      PROVE  spent'["fault"] >= spent["fault"]
  BY <1>0, <1>1, <1>2 DEF Power, Jobs, Told, Adversity
<1>3. ASSUME NEW r \in Req, Fault(r)
      PROVE  spent'["fault"] >= spent["fault"]
  BY <1>1, <1>3 DEF Fault, Adversity
<1>6. CASE Crash
  BY <1>0, <1>1, <1>6 DEF Crash, Adversity
<1>4. ASSUME NEW r \in Req, Enter(r) \/ Overlay(r) \/ Create(r) \/ Find(r) \/ Delete(r) \/ Revert(r)
      PROVE  spent'["fault"] >= spent["fault"]
  BY <1>0, <1>4 DEF Enter, Overlay, Create, Find, Delete, Revert
<1>5. CASE PowerOn \/ PowerOff \/ BackupBegins \/ BackupCommits \/ BackupEnds
           \/ UNCHANGED snapshotVars
  BY <1>0, <1>5 DEF PowerOn, PowerOff, BackupBegins, BackupCommits, BackupEnds, snapshotVars
<1> QED BY <1>0, <1>2, <1>3, <1>4, <1>5, <1>6, Actions

(***************************************************************************)
(* The invariant of Snapshots outlives a report: Info changes nothing.     *)
(***************************************************************************)
LEMMA SnapshotsStep ==
  ASSUME IInv, Info \/ [SnapshotNext]_snapshotVars
  PROVE  IInv'
<1>1. CASE Info
  <2> USE DEF IInv
  <2>1. UNCHANGED <<hostVars, pc, localVars, raced>> /\ spent' \in [Adversity -> Nat]
        /\ (spent'["misread"] = 0 => spent["misread"] = 0)
    BY <1>1, InfoFrame
  <2>2. TypeOK'
    BY <2>1 DEF TypeOK, hostVars, localVars
  <2>3. BegunOK' /\ HeldOK' /\ AnsweredSnapshotStays'
    BY <2>1 DEF BegunOK, HeldOK, AnsweredSnapshotStays, Made, hostVars, localVars
  <2>4. QuietOK'
    BY <2>1 DEF QuietOK, Checked, hostVars
  <2>5. PlaceOK'
    BY <2>1 DEF PlaceOK, Made, hostVars
  <2> QED BY <2>2, <2>3, <2>4, <2>5
<1>2. CASE [SnapshotNext]_snapshotVars
  BY <1>2, TypeStep, BegunStep, HeldStep, AnsweredStep, QuietStep, PlaceStep DEF IInv
<1> QED BY <1>1, <1>2

(***************************************************************************)
(* What Info reads does not change while all is quiet, and snapshots stay, *)
(* with their parents, unless one is removed.                              *)
(***************************************************************************)
OtherStep ==
  \/ Others /\ Noticed /\ UNCHANGED infoVars
  \/ UNCHANGED reportVars

LEMMA Steps ==
  ASSUME [InfoNext]_reportVars
  PROVE  (Info /\ UNCHANGED seen) \/ OtherStep
BY DEF InfoNext, OtherStep

LEMMA OtherFrame ==
  ASSUME IInv, FieldsOK, OtherStep
  PROVE  /\ [SnapshotNext]_snapshotVars /\ UNCHANGED infoVars
         /\ live' \in Value /\ stored' \in Value /\ seen' \in Seen
         /\ (NoFault' => NoFault) /\ (~Excused' => ~Excused)
<1>1. [SnapshotNext]_snapshotVars /\ UNCHANGED infoVars
  BY DEF OtherStep, Others, Reconfigure, reportVars
<1>2. live' \in Value /\ stored' \in Value /\ seen' \in Seen
  BY DEF OtherStep, Others, Reconfigure, Noticed, FieldsOK, Seen, reportVars, configVars
<1>3. spent["fault"] \in Nat /\ spent'["fault"] \in Nat /\ spent'["fault"] >= spent["fault"]
  <2>1. TypeOK'
    BY <1>1, SnapshotsStep DEF IInv
  <2> QED BY <1>1, <2>1, FaultMonotone DEF IInv, TypeOK, Adversity
<1>4. seen' # "removal" => seen # "removal"
  BY DEF OtherStep, Noticed, reportVars
<1> QED BY <1>1, <1>2, <1>3, <1>4, MisreadCounted DEF IInv, NoFault, Excused

LEMMA OtherQuiet ==
  ASSUME OtherStep, Quiet', ipc # "idle"
  PROVE  Quiet /\ UNCHANGED <<hostVars, configVars>>
BY DEF OtherStep, Noticed, Quiet, reportVars, snapshotVars

LEMMA OtherKeeps ==
  ASSUME IInv, OtherStep, ipc # "idle", seen' # "removal", NEW n \in Made
  PROVE  n \in Made' /\ snaps'[n].parent = snaps[n].parent
<1>0. n \in Name /\ snaps[n] \in Snapshot /\ snaps[n] # NoSnapshot
  BY MadeIsSnapshot DEF IInv, Made
<1>1. snaps'[n] # NoSnapshot
  <2>1. CASE UNCHANGED hostVars
    BY <1>0, <2>1 DEF hostVars
  <2>2. CASE ~UNCHANGED hostVars
    BY <2>2 DEF OtherStep, Noticed, reportVars, snapshotVars
  <2> QED BY <2>1, <2>2
<1>2. n \in Made'
  BY <1>0, <1>1 DEF Made
<1>3. [SnapshotNext]_snapshotVars
  BY DEF OtherStep, Others, Reconfigure, reportVars
<1>4. ASSUME NEW r \in Req, Create(r)
      PROVE  snaps'[n] = snaps[n]
  <2>1. n # name[r] \/ ~CanTake(name[r])
    BY <1>0 DEF CanTake
  <2> QED BY <1>0, <1>4, <2>1 DEF Create, TakeSnapshot, hostVars, IInv, TypeOK
<1>5. ASSUME NEW r \in Req, Delete(r)
      PROVE  snaps'[n] = snaps[n]
  <2>1. CASE name[r] \in Made
    <3>1. name[r] \in Name /\ snaps'[name[r]] = NoSnapshot
      BY <1>5, <2>1 DEF Delete, DeleteSnapshot, Made
    <3>2. ~UNCHANGED hostVars
      BY <2>1, <3>1 DEF Made, hostVars
    <3> QED BY <2>1, <3>1, <3>2 DEF OtherStep, Noticed, reportVars, snapshotVars
  <2>2. CASE name[r] \notin Made
    BY <1>5, <2>2 DEF Delete, hostVars
  <2> QED BY <2>1, <2>2
<1>6. CASE BackupEnds
  BY <1>0, <1>2, <1>6 DEF BackupEnds, Snapshot
<1>7. ASSUME NEW r \in Req, \/ Enter(r) \/ Power(r) \/ Jobs(r) \/ Overlay(r) \/ Find(r)
                            \/ Revert(r) \/ Fault(r)
      PROVE  snaps' = snaps
  BY <1>7 DEF Enter, Power, Jobs, Overlay, Find, Revert, Reverted, RevertSnapshot, Fault, hostVars
<1>8. CASE PowerOn \/ PowerOff \/ BackupBegins \/ BackupCommits \/ Crash \/ UNCHANGED snapshotVars
  <2>1. snaps' = snaps
    BY <1>8 DEF PowerOn, PowerOff, BackupBegins, BackupCommits, Crash, snapshotVars, hostVars
  <2> QED BY <1>2, <2>1
<1> QED BY <1>2, <1>3, <1>4, <1>5, <1>6, <1>7, <1>8, Actions

-----------------------------------------------------------------------------
(***************************************************************************)
(* Lists and entries.                                                      *)
(***************************************************************************)
LEMMA AppendToOne ==
  ASSUME NEW S, NEW a \in S, NEW b \in S
  PROVE  Append(<<a>>, b) = <<a, b>>
<1>1. /\ <<a>> \in Seq(S) /\ Len(<<a>>) = 1 /\ <<a>>[1] = a
      /\ <<a, b>> \in Seq(S) /\ Len(<<a, b>>) = 2 /\ <<a, b>>[1] = a /\ <<a, b>>[2] = b
  OBVIOUS
<1>2. ASSUME NEW s \in Seq(S), NEW t \in Seq(S),
             Len(s) = 1, s[1] = a, Len(t) = 2, t[1] = a, t[2] = b
      PROVE  Append(s, b) = t
  <2> DEFINE u == Append(s, b)
  <2>1. /\ u \in Seq(S) /\ Len(u) = Len(s) + 1
        /\ \A i \in 1..Len(s) : u[i] = s[i]
        /\ u[Len(s) + 1] = b
    BY AppendProperties
  <2> HIDE DEF u
  <2>2. Len(u) = 2 /\ u[1] = a /\ u[2] = b
    BY <1>2, <2>1
  <2>3. \A i \in 1..Len(u) : u[i] = t[i]
    BY <1>2, <2>2
  <2>4. u = t
    BY <1>2, <2>1, <2>2, <2>3, SeqEqual
  <2> QED BY <2>4 DEF u
<1> QED BY <1>1, <1>2

LEMMA FlagList ==
  /\ Len(Flags) = 9 /\ DOMAIN Flags = 1..9
  /\ \A i \in 1..9 : Flags[i] \in AllFlags
BY DEF Flags, AllFlags

LEMMA CountInRange ==
  ASSUME NEW S \in SUBSET Name
  PROVE  Cardinality(S) \in 0..Cardinality(Name)
BY NameAssumption, FS_Subset, FS_CardinalityType

LEMMA ListedMade ==
  ASSUME NEW flag
  PROVE  /\ Listed(flag) \subseteq Made
         /\ \A n \in Made : n \in Listed("ROOTS") <=> snaps[n].parent = NoSnapshot
BY DEF Listed

\* Without a twin a snapshot is found in a list if and only if it is there.
LEMMA FlagOfItsOwn ==
  ASSUME entry.name \in Made, ~HasTwin(entry.name), NEW flag
  PROVE  HasFlag(flag) <=> entry.name \in Listed(flag)
BY ListedMade DEF HasFlag, HasTwin

LEMMA NamingOneMore ==
  ASSUME NEW n, NEW k \in 0..8
  PROVE  Naming(n, k + 1) = Naming(n, k) \union
           (IF n \in Listed(Flags[k + 1]) THEN {Flags[k + 1]} ELSE {})
<1>1. 1..(k + 1) = 1..k \union {k + 1}
  OBVIOUS
<1> QED BY <1>1 DEF Naming

LEMMA FieldsStep ==
  ASSUME IInv, FieldsOK, [InfoNext]_reportVars
  PROVE  FieldsOK'
<1> USE DEF FieldsOK
<1>1. CASE OtherStep
  BY <1>1, OtherFrame DEF infoVars
<1> SUFFICES ASSUME Info, UNCHANGED seen PROVE FieldsOK'
  BY <1>1, Steps
<1>2. UNCHANGED <<live, stored>> /\ on \in BOOLEAN
  BY InfoFrame DEF IInv, TypeOK, configVars
<1>3. Made \subseteq Name /\ Cardinality(Made) \in 0..Cardinality(Name)
  BY CountInRange DEF Made
<1> USE DEF Reading, Describing, Starting, Proceed, FaultOr
<1>4. CASE Stats
  <2>1. [NoReport EXCEPT !.state = on] \in ReportType
    <3>1. 0 \in 0..Cardinality(Name)
      BY NameAssumption, FS_CardinalityType
    <3>2. << >> \in Seq(Value \union {Nothing}) /\ {} \in SUBSET EntryType
      OBVIOUS
    <3> QED BY <1>2, <3>1, <3>2 DEF NoReport, ReportType
  <2>2. [NoReport EXCEPT !.state = on].config = << >>
    BY DEF NoReport
  <2> QED BY <1>2, <1>4, <2>1, <2>2 DEF Stats
<1>5. CASE Active
  <2>1. PICK answer \in BOOLEAN : report' = [report EXCEPT !.active = answer]
    BY <1>5 DEF Active
  <2>2. report' \in ReportType /\ report'.config = report.config
    BY <2>1 DEF ReportType
  <2> QED BY <1>2, <1>5, <2>2 DEF Active
<1>6. CASE Persistent
  <2>1. PICK answer \in BOOLEAN : report' = [report EXCEPT !.persistent = answer]
    BY <1>6 DEF Persistent
  <2>2. report' \in ReportType /\ report'.config = report.config
    BY <2>1 DEF ReportType
  <2> QED BY <1>2, <1>6, <2>2 DEF Persistent
<1>7. ASSUME NEW v \in Value \union {Nothing}, report' = [report EXCEPT !.config = Append(@, v)]
      PROVE  report' \in ReportType /\ Len(report'.config) = Len(report.config) + 1
  <2>1. Append(report.config, v) \in Seq(Value \union {Nothing})
        /\ Len(Append(report.config, v)) = Len(report.config) + 1
    BY <1>7 DEF ReportType
  <2> QED BY <1>7, <2>1 DEF ReportType
<1>8. ASSUME Unread
      PROVE  report' \in ReportType /\ (report' = report \/ Len(report'.config) = Len(report.config) + 1)
  BY <1>7, <1>8 DEF Unread, Reported
<1>9. CASE Now
  <2>1. report.config = << >> /\ Len(report.config) = 0
    BY <1>9 DEF Now
  <2> DEFINE v == IF on THEN live ELSE stored
  <2>2. v \in Value \union {Nothing}
    OBVIOUS
  <2>3. Reported(v) \/ Unread
    BY <1>9 DEF Now
  <2>4. CASE Unread
    <3>1. report' \in ReportType /\ Len(report'.config) <= 1
      <4>1. CASE report' = report
        BY <1>8, <2>1, <2>4, <4>1
      <4>2. CASE Len(report'.config) = Len(report.config) + 1
        BY <1>8, <2>1, <2>4, <4>2
      <4> QED BY <1>8, <2>4, <4>1, <4>2
    <3> QED BY <1>2, <1>9, <3>1 DEF Now
  <2>5. CASE Reported(v)
    <3> HIDE DEF v
    <3>1. report' \in ReportType /\ Len(report'.config) = Len(report.config) + 1
      BY <1>7, <2>2, <2>5 DEF Reported
    <3> QED BY <1>2, <1>9, <2>1, <3>1 DEF Now
  <2> QED BY <2>3, <2>4, <2>5
<1>10. CASE Config
  <2>1. Len(report.config) <= 1 /\ Len(report.config) \in Nat
    BY <1>10 DEF Config, ReportType
  <2>2. report' \in ReportType /\ Len(report'.config) <= 2
    BY <1>2, <1>7, <1>8, <1>10, <2>1 DEF Config, Reported
  <2> QED BY <1>2, <1>10, <2>2 DEF Config
<1>11. CASE Count
  <2>1. report' \in ReportType /\ report'.config = report.config
    BY <1>3, <1>11 DEF Count, ReportType
  <2> QED BY <1>2, <1>11, <2>1 DEF Count
<1>12. CASE List
  BY <1>2, <1>3, <1>12 DEF List
<1>13. CASE NextSnapshot
  <2>1. \A n \in todo : Blank(n) \in EntryType
    BY DEF Blank, EntryType
  <2> QED BY <1>2, <1>13, <2>1 DEF NextSnapshot
<1>14. CASE CountChildren
  <2>1. Cardinality(Children(entry.name)) \in Nat
    BY CountInRange, NameAssumption, FS_CardinalityType DEF Children, Made
  <2>2. entry' \in EntryType
    BY <1>14, <2>1 DEF CountChildren, EntryType
  <2> QED BY <1>2, <1>14, <2>2 DEF CountChildren
<1>15. CASE Roots
  <2>1. HasFlag("ROOTS") \in BOOLEAN
    BY DEF HasFlag
  <2>2. entry' \in EntryType
    BY <1>15, <2>1 DEF Roots, EntryType
  <2> QED BY <1>2, <1>15, <2>2 DEF Roots
<1>16. CASE Parent
  <2>1. entry.name \in Made => snaps[entry.name].parent \in Name \union {NoSnapshot}
    BY MadeIsSnapshot DEF IInv, Snapshot
  <2>2. entry' \in EntryType
    BY <1>16, <2>1 DEF Parent, Flagged, EntryType
  <2> QED BY <1>2, <1>16, <2>2 DEF Parent
<1>17. CASE Current
  <2>1. entry' \in EntryType
    BY <1>17 DEF Current, Flagged, EntryType
  <2> QED BY <1>2, <1>17, <2>1 DEF Current
<1>18. CASE Flag
  <2>1. asked + 1 \in 1..9 /\ Flags[asked + 1] \in AllFlags
    BY <1>18, FlagList DEF Flag
  <2> DEFINE flag == Flags[asked + 1]
  <2>2. \/ entry' = [entry EXCEPT !.flags = @ \union {flag}]
        \/ entry' = [entry EXCEPT !.flags = @]
        \/ entry' = [entry EXCEPT !.error = TRUE]
    BY <1>18 DEF Flag, Flagged
  <2>3. flag \in AllFlags
    BY <2>1
  <2> HIDE DEF flag
  <2>4. entry' \in EntryType
    <3>1. entry.flags \union {flag} \in SUBSET AllFlags /\ entry.flags \in SUBSET AllFlags
      BY <2>3 DEF EntryType
    <3> QED BY <2>2, <3>1 DEF EntryType
  <2> QED BY <1>2, <1>18, <2>1, <2>4, FlagList DEF Flag
<1>19. CASE Described
  <2>1. report' \in ReportType /\ report'.config = report.config
    BY <1>19 DEF Described, ReportType
  <2> QED BY <1>2, <1>19, <2>1 DEF Described
<1> QED BY <1>4, <1>5, <1>6, <1>9, <1>10, <1>11, <1>12, <1>13, <1>14, <1>15, <1>16, <1>17, <1>18,
           <1>19, InfoActions

-----------------------------------------------------------------------------
(***************************************************************************)
(* Three kinds of steps: before there is a list, on one entry, and between *)
(* entries (List, NextSnapshot, Described).                                *)
(***************************************************************************)
HeadStep == Stats \/ Active \/ Persistent \/ Now \/ Config \/ Count
EntryStep == CountChildren \/ Roots \/ Parent \/ Current \/ Flag

LEMMA HeadFrame ==
  ASSUME FieldsOK, ListedOnce, HeadStep
  PROVE  /\ ipc \notin Listing /\ ipc' \notin Listing
         /\ todo = {} /\ report.entries = {} /\ report'.entries = {}
         /\ UNCHANGED <<todo, entry, asked>>
<1>0. report \in ReportType
  BY DEF FieldsOK
<1>1. ipc \notin Listing /\ ipc' \notin Listing /\ UNCHANGED <<todo, entry, asked>>
  BY DEF HeadStep, Stats, Active, Persistent, Now, Config, Count, FaultOr, Proceed, Listing,
         Describing
<1>2. todo = {} /\ report.entries = {}
  BY <1>1 DEF ListedOnce
<1>3. report'.entries = {}
  <2>1. CASE Stats
    BY <1>2, <2>1 DEF Stats, FaultOr, NoReport
  <2>2. CASE Active \/ Persistent
    BY <1>0, <1>2, <2>2 DEF Active, Persistent, ReportType
  <2>3. CASE Now \/ Config
    BY <1>0, <1>2, <2>3 DEF Now, Config, FaultOr, Unread, Reported, ReportType
  <2>4. CASE Count
    BY <1>0, <1>2, <2>4 DEF Count, FaultOr, ReportType
  <2> QED BY <2>1, <2>2, <2>3, <2>4 DEF HeadStep
<1> QED BY <1>1, <1>2, <1>3

LEMMA EntryFrame ==
  ASSUME FieldsOK, EntryStep
  PROVE  /\ ipc \in Describing /\ ipc' \in Describing
         /\ entry'.name = entry.name
         /\ UNCHANGED <<report, todo>>
<1>0. entry \in EntryType
  BY DEF FieldsOK
<1>1. CASE CountChildren
  BY <1>0, <1>1 DEF CountChildren, FaultOr, Proceed, Describing, EntryType
<1>2. CASE Roots
  BY <1>0, <1>2 DEF Roots, FaultOr, Proceed, Describing, EntryType
<1>3. CASE Parent
  BY <1>0, <1>3 DEF Parent, Flagged, FaultOr, Proceed, Describing, EntryType
<1>4. CASE Current
  BY <1>0, <1>4 DEF Current, Flagged, FaultOr, Proceed, Describing, EntryType
<1>5. CASE Flag
  BY <1>0, <1>5 DEF Flag, Flagged, FaultOr, Describing, EntryType
<1> QED BY <1>1, <1>2, <1>3, <1>4, <1>5 DEF EntryStep

LEMMA InfoKinds ==
  ASSUME Info
  PROVE  HeadStep \/ EntryStep \/ List \/ NextSnapshot \/ Described
BY InfoActions DEF HeadStep, EntryStep

LEMMA ListedOnceStep ==
  ASSUME IInv, FieldsOK, ListedOnce, [InfoNext]_reportVars
  PROVE  ListedOnce'
<1>1. CASE OtherStep
  BY <1>1, OtherFrame DEF infoVars, ListedOnce
<1>2. CASE HeadStep
  BY <1>2, HeadFrame DEF ListedOnce, Listing
<1>3. CASE EntryStep
  BY <1>3, EntryFrame DEF ListedOnce, Listing, Describing
<1>4. CASE List
  BY <1>4 DEF List, ListedOnce, Listing, Describing, Proceed
<1>5. CASE NextSnapshot
  <2>0. todo \subseteq Name /\ ipc = "next" /\ report' = report
    BY <1>5 DEF NextSnapshot, FieldsOK
  <2>1. CASE todo = {} /\ ipc' = "ok" /\ UNCHANGED <<todo, entry>>
    BY <2>0, <2>1 DEF ListedOnce, Listing, Describing
  <2>2. ASSUME NEW n \in todo, entry' = Blank(n), todo' = todo \ {n}, ipc' = "children"
        PROVE  ListedOnce'
    <3>1. entry'.name = n
      BY <2>2 DEF Blank
    <3> QED BY <2>0, <2>2, <3>1 DEF ListedOnce, Listing, Describing
  <2> QED BY <1>5, <2>1, <2>2 DEF NextSnapshot, Proceed
<1>6. CASE Described
  <2>1. report'.entries = report.entries \union {entry} /\ UNCHANGED <<todo, entry>>
        /\ ipc = "flags" /\ ipc' = "next"
    BY <1>6 DEF Described, Proceed, FieldsOK, ReportType
  <2> QED BY <2>1 DEF ListedOnce, Listing, Describing
<1> QED BY <1>1, <1>2, <1>3, <1>4, <1>5, <1>6, Steps, InfoKinds

LEMMA ErrorsStep ==
  ASSUME IInv, FieldsOK, ListedOnce, ErrorsOK, [InfoNext]_reportVars
  PROVE  ErrorsOK'
<1>1. CASE OtherStep
  <2>0. UNCHANGED infoVars /\ (~Excused' => ~Excused) /\ (seen' # "removal" => seen # "removal")
    BY <1>1, OtherFrame DEF OtherStep, Noticed, reportVars
  <2>1. CASE ipc = "idle"
    BY <2>0, <2>1 DEF ErrorsOK, ListedOnce, Listing, Describing, infoVars
  <2>2. CASE ipc # "idle"
    <3>1. ASSUME seen' # "removal"
          PROVE  \A n \in Made : n \in Made' /\ snaps'[n].parent = snaps[n].parent
      BY <1>1, <2>2, <3>1, OtherKeeps
    <3>2. (seen # "removal" => todo \subseteq Made)'
      BY <2>0, <3>1 DEF ErrorsOK, infoVars
    <3>3. (seen # "removal" /\ ipc \in Describing => entry.name \in Made)'
      BY <2>0, <3>1 DEF ErrorsOK, infoVars
    <3>4. (~Excused => /\ \A e \in report.entries : ~e.error
                       /\ ipc \in Describing => ~entry.error)'
      BY <2>0 DEF ErrorsOK, infoVars
    <3>5. (~Excused /\ ipc = "parent" => snaps[entry.name].parent # NoSnapshot)'
      BY <2>0, <3>1 DEF ErrorsOK, Excused, infoVars, Describing
    <3> QED BY <3>2, <3>3, <3>4, <3>5 DEF ErrorsOK
  <2> QED BY <2>1, <2>2
<1> SUFFICES ASSUME Info, UNCHANGED seen PROVE ErrorsOK'
  BY <1>1, Steps
<1>2. TypeOK /\ UNCHANGED snaps /\ Made' = Made /\ (~Excused' => ~Excused)
  <2>1. TypeOK /\ UNCHANGED snaps
    BY InfoFrame DEF IInv, hostVars
  <2>2. /\ spent["fault"] \in Nat /\ spent'["fault"] \in Nat
        /\ spent'["fault"] >= spent["fault"]
    BY <2>1, InfoFrame DEF Adversity
  <2> QED BY <2>1, <2>2 DEF Made, Excused
<1>3. ASSUME NEW found, NEW missed, FaultOr(found, missed), ~Excused'
      PROVE  found
  BY <1>2, <1>3, FaultSpent DEF FaultOr, Excused
<1>4. CASE HeadStep
  BY <1>4, HeadFrame DEF ErrorsOK, Listing, Describing
<1>5. CASE List
  <2>1. report' = report /\ (todo' = Made \/ todo' = {}) /\ ipc' = "next"
    BY <1>5 DEF List, FaultOr, Proceed
  <2> QED BY <1>2, <2>1 DEF ErrorsOK, Describing
<1>6. CASE NextSnapshot
  <2>0. UNCHANGED report
    BY <1>6 DEF NextSnapshot
  <2>1. CASE ipc' = "ok" /\ UNCHANGED <<todo, entry>>
    BY <1>2, <2>0, <2>1 DEF ErrorsOK, Describing
  <2>2. ASSUME NEW n \in todo, entry' = Blank(n), todo' = todo \ {n}, ipc' = "children"
        PROVE  ErrorsOK'
    <3>1. entry'.name = n /\ ~entry'.error
      BY <2>2 DEF Blank
    <3> QED BY <1>2, <2>0, <2>2, <3>1 DEF ErrorsOK
  <2> QED BY <1>6, <2>1, <2>2 DEF NextSnapshot, Proceed
<1>7. CASE EntryStep
  <2>1. ipc \in Describing /\ entry'.name = entry.name /\ UNCHANGED <<report, todo>>
    BY <1>7, EntryFrame
  <2>2. entry \in EntryType
    BY DEF FieldsOK
  <2>3. ASSUME ~Excused'
        PROVE  /\ ~entry'.error
               /\ ipc' = "parent" => snaps[entry.name].parent # NoSnapshot
    <3>0. /\ entry.name \in Made /\ ~entry.error
          /\ ipc = "parent" => snaps[entry.name].parent # NoSnapshot
      BY <1>2, <2>1, <2>3 DEF ErrorsOK, Excused
    <3>1. CASE CountChildren
      BY <2>2, <3>0, <3>1 DEF CountChildren, FaultOr, Proceed, EntryType
    <3>2. CASE Roots
      <4>1. /\ entry' = [entry EXCEPT !.root = HasFlag("ROOTS")]
            /\ Proceed(IF HasFlag("ROOTS") THEN "current" ELSE "parent")
        BY <1>3, <2>3, <3>2 DEF Roots
      <4>2. ~HasFlag("ROOTS") => snaps[entry.name].parent # NoSnapshot
        BY <3>0, ListedMade DEF HasFlag
      <4> QED BY <2>2, <3>0, <4>1, <4>2 DEF Proceed, EntryType
    <3>3. CASE Parent
      <4>1. entry' = [entry EXCEPT !.parent = snaps[entry.name].parent] /\ ipc' = "current"
        BY <1>3, <2>3, <3>0, <3>3 DEF Parent, Proceed
      <4> QED BY <2>2, <3>0, <4>1 DEF EntryType
    <3>4. CASE Current
      <4>1. entry' = [entry EXCEPT !.current = (entry.name = current)] /\ ipc' = "flags"
        BY <1>3, <2>3, <3>0, <3>4 DEF Current, Proceed
      <4> QED BY <2>2, <3>0, <4>1 DEF EntryType
    <3>5. CASE Flag
      <4>1. /\ ipc' = "flags"
            /\ \E flags : entry' = [entry EXCEPT !.flags = flags]
        BY <1>3, <2>3, <3>5 DEF Flag
      <4> QED BY <2>2, <3>0, <4>1 DEF EntryType
    <3> QED BY <1>7, <3>1, <3>2, <3>3, <3>4, <3>5 DEF EntryStep
  <2>4. (seen # "removal" => todo \subseteq Made)'
    BY <1>2, <2>1 DEF ErrorsOK
  <2>5. (seen # "removal" /\ ipc \in Describing => entry.name \in Made)'
    BY <1>2, <2>1 DEF ErrorsOK
  <2> QED BY <1>2, <2>1, <2>3, <2>4, <2>5 DEF ErrorsOK
<1>8. CASE Described
  <2>1. /\ report'.entries = report.entries \union {entry} /\ UNCHANGED <<todo, entry>>
        /\ ipc = "flags" /\ ipc' = "next"
    BY <1>8 DEF Described, Proceed, FieldsOK, ReportType
  <2> QED BY <1>2, <2>1 DEF ErrorsOK, Describing
<1> QED BY <1>4, <1>5, <1>6, <1>7, <1>8, InfoKinds

\* While all is quiet Info reads what is true.
LEMMA QuietFrame ==
  ASSUME IInv, Info, UNCHANGED seen
  PROVE  /\ UNCHANGED <<on, snaps, current, live, stored>> /\ on \in BOOLEAN
         /\ Made' = Made
         /\ (NoFault' => NoFault)
         /\ \A found, missed : FaultOr(found, missed) /\ NoFault' => found
         /\ \A answer, truth \in BOOLEAN : Told(answer, truth) /\ NoFault' => answer = truth
<1>1. /\ TypeOK /\ UNCHANGED <<on, snaps, current, live, stored>> /\ on \in BOOLEAN
  BY InfoFrame DEF IInv, TypeOK, hostVars, configVars
<1>2. NoFault' => NoFault
  <2>1. /\ spent' \in [Adversity -> Nat]
        /\ spent["fault"] \in Nat /\ spent["misread"] \in Nat
        /\ spent'["fault"] >= spent["fault"] /\ spent'["misread"] >= spent["misread"]
    BY <1>1, InfoFrame
  <2> QED BY <2>1 DEF NoFault
<1>3. ASSUME NEW found, NEW missed, FaultOr(found, missed), NoFault'
      PROVE  found
  BY <1>1, <1>3, FaultSpent DEF FaultOr, NoFault
<1>4. ASSUME NEW answer \in BOOLEAN, NEW truth \in BOOLEAN, Told(answer, truth), NoFault'
      PROVE  answer = truth
  BY <1>1, <1>4, ToldInfo DEF NoFault
<1> QED BY <1>1, <1>2, <1>3, <1>4 DEF Made

LEMMA HeadTrueStep ==
  ASSUME IInv, FieldsOK, HeadOK, [InfoNext]_reportVars
  PROVE  HeadOK'
<1>1. CASE OtherStep
  <2>1. CASE ipc = "idle"
    BY <1>1, <2>1, OtherFrame DEF HeadOK, infoVars
  <2>2. CASE ipc # "idle"
    <3>1. (Quiet' => Quiet /\ UNCHANGED <<hostVars, configVars>>) /\ (NoFault' => NoFault)
          /\ UNCHANGED infoVars
      BY <1>1, <2>2, OtherQuiet, OtherFrame
    <3> QED BY <3>1 DEF HeadOK, hostVars, configVars, infoVars, Made
  <2> QED BY <2>1, <2>2
<1> SUFFICES ASSUME Info, UNCHANGED seen, Quiet, NoFault' PROVE HeadOK'
  BY <1>1, Steps DEF HeadOK, Quiet
<1>2. /\ UNCHANGED <<on, live, stored>> /\ on \in BOOLEAN /\ Made' = Made /\ NoFault
      /\ report \in ReportType
  BY QuietFrame DEF FieldsOK
<1>3. ASSUME NEW found, NEW missed, FaultOr(found, missed)
      PROVE  found
  BY <1>3, QuietFrame
<1> USE DEF HeadOK, Starting, Proceed
<1>4. CASE Stats
  <2>1. report' = [NoReport EXCEPT !.state = on] /\ ipc' = "active"
    BY <1>3, <1>4 DEF Stats
  <2> QED BY <1>2, <2>1 DEF NoReport
<1>5. CASE Active
  <2>1. report' = [report EXCEPT !.active = on] /\ ipc = "active" /\ ipc' = "persistent"
    BY <1>2, <1>5, QuietFrame DEF Active
  <2> QED BY <1>2, <2>1 DEF ReportType
<1>6. CASE Persistent
  <2>1. report' = [report EXCEPT !.persistent = TRUE] /\ ipc = "persistent" /\ ipc' = "now"
    BY <1>6, QuietFrame DEF Persistent
  <2> QED BY <1>2, <2>1 DEF ReportType
<1>7. CASE Now
  <2>1. /\ report' = [report EXCEPT !.config = Append(@, IF on THEN live ELSE stored)]
        /\ ipc = "now" /\ ipc' = "config" /\ report.config = << >>
    BY <1>3, <1>7 DEF Now, Reported, FieldsOK
  <2>2. report'.config = <<IF on THEN live ELSE stored>>
    BY <1>2, <2>1 DEF ReportType
  <2> QED BY <1>2, <2>1, <2>2 DEF ReportType
<1>8. CASE Config
  <2>0. ipc = "config" /\ ipc' = "count" /\ report.persistent /\ report.active = on
        /\ report.config = <<IF on THEN live ELSE stored>>
    BY <1>2, <1>8 DEF Config
  <2>1. CASE on
    <3>1. report' = [report EXCEPT !.config = Append(@, stored)]
      BY <1>3, <1>8, <2>0, <2>1 DEF Config, Reported
    <3>2. Append(report.config, stored) = <<live, stored>>
      <4>1. report.config = <<live>>
        BY <2>0, <2>1
      <4>2. Append(<<live>>, stored) = <<live, stored>>
        BY AppendToOne DEF FieldsOK
      <4> QED BY <4>1, <4>2
    <3> QED BY <1>2, <2>0, <2>1, <3>1, <3>2 DEF ReportType
  <2>2. CASE ~on
    <3>1. report' = report
      BY <1>8, <2>0, <2>2 DEF Config
    <3> QED BY <1>2, <2>0, <2>2, <3>1
  <2> QED BY <2>1, <2>2
<1>9. CASE Count
  <2>1. report' = [report EXCEPT !.count = Cardinality(Made)] /\ ipc = "count" /\ ipc' = "list"
    BY <1>3, <1>9 DEF Count
  <2> QED BY <1>2, <2>1 DEF ReportType
<1>10. CASE List \/ NextSnapshot \/ EntryStep \/ Described
  <2>1. /\ ipc \notin Starting \union {"error", "config", "count"}
        /\ ipc' \notin Starting \union {"error", "config", "count"}
    <3>1. CASE EntryStep
      BY <3>1, EntryFrame DEF Describing
    <3>2. CASE List \/ NextSnapshot \/ Described
      BY <3>2 DEF List, NextSnapshot, Described
    <3> QED BY <1>10, <3>1, <3>2
  <2>2. /\ report'.state = report.state /\ report'.active = report.active
        /\ report'.persistent = report.persistent /\ report'.config = report.config
        /\ report'.count = report.count
    <3>1. CASE EntryStep
      BY <3>1, EntryFrame
    <3>2. CASE List \/ NextSnapshot \/ Described
      BY <1>2, <3>2 DEF List, NextSnapshot, Described, ReportType
    <3> QED BY <1>10, <3>1, <3>2
  <2> QED BY <1>2, <2>1, <2>2
<1> QED BY <1>4, <1>5, <1>6, <1>7, <1>8, <1>9, <1>10, InfoKinds DEF HeadStep

\* What is said of an entry of the name n, at the label at, with k lists asked for.
LEMMA EntryTold ==
  ASSUME UNCHANGED <<snaps, current>>, entry'.name = entry.name,
         Quiet' /\ ~HasTwin(entry.name) =>
           /\ NoFault' /\ ipc' # "children" => entry'.children = Cardinality(Children(entry.name))
           /\ ~entry'.error =>
                /\ ipc' \in {"parent", "current", "flags"} =>
                     entry'.root = (snaps[entry.name].parent = NoSnapshot)
                /\ entry'.parent = IF ipc' \in {"current", "flags"} THEN snaps[entry.name].parent
                                                                   ELSE NoSnapshot
                /\ ipc' = "parent" => snaps[entry.name].parent # NoSnapshot
                /\ ipc' = "flags" => entry'.current = (entry.name = current)
                /\ entry'.flags = Naming(entry.name, asked')
           /\ ipc' # "flags" => asked' = 0
  PROVE  EntryOK'
BY DEF EntryOK, HasTwin, Children, Naming, Listed, Made

LEMMA EntryTrueStep ==
  ASSUME IInv, FieldsOK, ListedOnce, ErrorsOK, EntryOK, [InfoNext]_reportVars
  PROVE  EntryOK'
<1>1. CASE OtherStep
  <2>1. CASE ipc = "idle"
    BY <1>1, <2>1, OtherFrame DEF EntryOK, Describing, infoVars
  <2>2. CASE ipc # "idle"
    <3>1. (Quiet' => Quiet /\ UNCHANGED <<hostVars, configVars>>) /\ (NoFault' => NoFault)
          /\ UNCHANGED infoVars
      BY <1>1, <2>2, OtherQuiet, OtherFrame
    <3> QED
      BY <3>1 DEF EntryOK, HasTwin, Children, Naming, Listed, Made, hostVars, infoVars
  <2> QED BY <2>1, <2>2
<1> SUFFICES ASSUME Info, UNCHANGED seen, Quiet PROVE EntryOK'
  BY <1>1, Steps DEF EntryOK, Quiet
<1>2. CASE HeadStep \/ List \/ Described
  <2>1. ipc' \notin Describing
    <3>1. CASE HeadStep
      BY <3>1, HeadFrame DEF Listing
    <3>2. CASE List \/ Described
      BY <3>2 DEF List, Described, Proceed, Describing
    <3> QED BY <1>2, <3>1, <3>2
  <2> QED BY <2>1 DEF EntryOK
<1>3. CASE NextSnapshot
  <2>1. CASE ipc' = "ok"
    BY <2>1 DEF EntryOK, Describing
  <2>2. ASSUME NEW n \in todo, entry' = Blank(n), ipc' = "children", asked' = 0
        PROVE  EntryOK'
    <3>1. entry'.parent = NoSnapshot /\ entry'.flags = {}
      BY <2>2 DEF Blank
    <3>2. {Flags[i] : i \in 1..0} = {}
      OBVIOUS
    <3>3. Naming(entry.name, asked)' = {}
      BY <2>2, <3>2 DEF Naming
    <3> QED BY <2>2, <3>1, <3>3 DEF EntryOK
  <2> QED BY <1>3, <2>1, <2>2 DEF NextSnapshot, Proceed
<1>4. CASE EntryStep
  <2> DEFINE n == entry.name
  <2>1. ipc \in Describing /\ entry'.name = n /\ entry \in EntryType /\ n \in Made
    BY <1>4, EntryFrame DEF ErrorsOK, Quiet, FieldsOK
  <2>2. UNCHANGED <<snaps, current>> /\ (NoFault' => NoFault)
        /\ \A found, missed : FaultOr(found, missed) /\ NoFault' => found
    BY QuietFrame
  <2>3. SUFFICES ASSUME ~HasTwin(n)
        PROVE  /\ NoFault' /\ ipc' # "children" => entry'.children = Cardinality(Children(n))
               /\ ~entry'.error =>
                    /\ ipc' \in {"parent", "current", "flags"} =>
                         entry'.root = (snaps[n].parent = NoSnapshot)
                    /\ entry'.parent = IF ipc' \in {"current", "flags"} THEN snaps[n].parent
                                                                       ELSE NoSnapshot
                    /\ ipc' = "parent" => snaps[n].parent # NoSnapshot
                    /\ ipc' = "flags" => entry'.current = (n = current)
                    /\ entry'.flags = Naming(n, asked')
               /\ ipc' # "flags" => asked' = 0
    BY <2>1, <2>2, EntryTold
  <2>4. /\ NoFault /\ ipc # "children" => entry.children = Cardinality(Children(n))
        /\ ~entry.error =>
             /\ ipc \in {"parent", "current", "flags"} =>
                  entry.root = (snaps[n].parent = NoSnapshot)
             /\ entry.parent = IF ipc \in {"current", "flags"} THEN snaps[n].parent
                                                              ELSE NoSnapshot
             /\ ipc = "parent" => snaps[n].parent # NoSnapshot
             /\ ipc = "flags" => entry.current = (n = current)
             /\ entry.flags = Naming(n, asked)
        /\ ipc # "flags" => asked = 0
    BY <2>1, <2>3 DEF EntryOK
  <2> HIDE DEF n
  <2>5. CASE CountChildren
    <3>1. ipc = "children" /\ ipc' = "roots" /\ asked' = asked
          /\ \E c : entry' = [entry EXCEPT !.children = c]
      BY <2>1, <2>5 DEF CountChildren, FaultOr, Proceed, EntryType
    <3>2. NoFault' => entry'.children = Cardinality(Children(n))
      BY <2>1, <2>2, <2>5 DEF CountChildren, EntryType, n
    <3> QED BY <2>1, <2>4, <3>1, <3>2 DEF EntryType
  <2>6. CASE Roots
    <3>1. ipc = "roots" /\ asked' = asked
          /\ \/ /\ entry' = [entry EXCEPT !.root = HasFlag("ROOTS")]
                /\ ipc' = IF HasFlag("ROOTS") THEN "current" ELSE "parent"
             \/ entry' = [entry EXCEPT !.error = TRUE] /\ ipc' = "parent"
      BY <2>6 DEF Roots, FaultOr, Proceed
    <3>2. HasFlag("ROOTS") = (snaps[n].parent = NoSnapshot)
      BY <2>1, <2>3, FlagOfItsOwn, ListedMade DEF n, HasFlag
    <3> QED BY <2>1, <2>2, <2>4, <3>1, <3>2 DEF EntryType
  <2>7. CASE Parent
    <3>1. ipc = "parent" /\ ipc' = "current" /\ asked' = asked
          /\ \/ entry' = [entry EXCEPT !.parent = snaps[n].parent]
             \/ entry' = [entry EXCEPT !.error = TRUE]
      BY <2>7 DEF Parent, Flagged, FaultOr, Proceed, n
    <3> QED BY <2>1, <2>2, <2>4, <3>1 DEF EntryType
  <2>8. CASE Current
    <3>1. ipc = "current" /\ ipc' = "flags" /\ asked' = asked
          /\ \/ entry' = [entry EXCEPT !.current = (n = current)]
             \/ entry' = [entry EXCEPT !.error = TRUE]
      BY <2>8 DEF Current, Flagged, FaultOr, Proceed, n
    <3> QED BY <2>1, <2>2, <2>4, <3>1 DEF EntryType
  <2>9. CASE Flag
    <3> DEFINE flag == Flags[asked + 1]
    <3>1. ipc = "flags" /\ ipc' = "flags" /\ asked' = asked + 1 /\ asked \in 0..8
          /\ \/ entry' = [entry EXCEPT !.flags = IF HasFlag(flag) THEN @ \union {flag} ELSE @]
             \/ entry' = [entry EXCEPT !.error = TRUE]
      BY <2>9, FlagList DEF Flag, Flagged, FaultOr, FieldsOK
    <3>2. HasFlag(flag) <=> n \in Listed(flag)
      BY <2>1, <2>3, FlagOfItsOwn DEF n
    <3>3. Naming(n, asked') = Naming(n, asked) \union (IF HasFlag(flag) THEN {flag} ELSE {})
      BY <3>1, <3>2, NamingOneMore
    <3> HIDE DEF flag
    <3>4. CASE entry' = [entry EXCEPT !.error = TRUE]
      BY <2>1, <2>2, <2>4, <3>1, <3>4 DEF EntryType
    <3>5. CASE entry' = [entry EXCEPT !.flags = IF HasFlag(flag) THEN @ \union {flag} ELSE @]
      <4>1. entry'.flags = entry.flags \union (IF HasFlag(flag) THEN {flag} ELSE {})
        BY <2>1, <3>5 DEF EntryType
      <4>2. /\ entry'.children = entry.children /\ entry'.root = entry.root
            /\ entry'.parent = entry.parent /\ entry'.current = entry.current
            /\ entry'.error = entry.error
        BY <2>1, <3>5 DEF EntryType
      <4> QED BY <2>1, <2>2, <2>4, <3>1, <3>3, <4>1, <4>2
    <3> QED BY <3>1, <3>4, <3>5
  <2> QED BY <1>4, <2>5, <2>6, <2>7, <2>8, <2>9 DEF EntryStep
<1> QED BY <1>2, <1>3, <1>4, InfoKinds

\* What is true of a snapshot follows from the tree and the current one.
LEMMA TruthKept ==
  ASSUME UNCHANGED <<snaps, current>>
  PROVE  /\ Made' = Made
         /\ \A n : /\ HasTwin(n)' <=> HasTwin(n)
                  /\ Children(n)' = Children(n)
                  /\ TrueEntry(n)' = TrueEntry(n)
<1>1. Made' = Made
  BY DEF Made
<1>2. \A n : (HasTwin(n)' <=> HasTwin(n)) /\ Children(n)' = Children(n)
  BY <1>1 DEF HasTwin, Children
<1>3. \A f : Listed(f)' = Listed(f)
  BY <1>1, <1>2 DEF Listed
<1>4. \A n : {f \in {Flags[i] : i \in DOMAIN Flags} : n \in Listed(f)'}
            = {f \in {Flags[i] : i \in DOMAIN Flags} : n \in Listed(f)}
  BY <1>3
<1>5. \A n : TrueEntry(n)' = TrueEntry(n)
  BY <1>2, <1>4 DEF TrueEntry
<1> QED BY <1>1, <1>2, <1>5

LEMMA DescribedTold ==
  ASSUME UNCHANGED <<snaps, current>>,
         Quiet' => \A e \in report'.entries : HasTwin(e.name) \/
           /\ NoFault' => e.children = Cardinality(Children(e.name))
           /\ ~e.error =>
                [e EXCEPT !.children = 0] = [TrueEntry(e.name) EXCEPT !.children = 0],
         Quiet' /\ NoFault' /\ ipc' \in Listing =>
           Made = todo' \union {e.name : e \in report'.entries}
                        \union (IF ipc' \in Describing THEN {entry'.name} ELSE {})
  PROVE  DescribedOK'
BY TruthKept DEF DescribedOK

\* A description that is complete and not marked.
LEMMA TrueOfAll ==
  ASSUME NEW e \in EntryType, ~e.error,
         e.root = (snaps[e.name].parent = NoSnapshot), e.parent = snaps[e.name].parent,
         e.current = (e.name = current), e.flags = Naming(e.name, 9)
  PROVE  [e EXCEPT !.children = 0] = [TrueEntry(e.name) EXCEPT !.children = 0]
<1>1. Naming(e.name, 9) = {f \in AllFlags : e.name \in Listed(f)}
  BY FlagList DEF Naming, AllFlags
<1>2. TrueEntry(e.name) =
        [name |-> e.name, children |-> Cardinality(Children(e.name)), root |-> e.root,
         parent |-> e.parent, current |-> e.current, flags |-> e.flags, error |-> e.error]
  BY <1>1 DEF TrueEntry, AllFlags, EntryType
<1>3. e = [name |-> e.name, children |-> e.children, root |-> e.root,
           parent |-> e.parent, current |-> e.current, flags |-> e.flags, error |-> e.error]
  BY DEF EntryType
<1>4. \A c : [[name |-> e.name, children |-> c, root |-> e.root, parent |-> e.parent,
               current |-> e.current, flags |-> e.flags, error |-> e.error] EXCEPT !.children = 0]
           = [name |-> e.name, children |-> 0, root |-> e.root, parent |-> e.parent,
              current |-> e.current, flags |-> e.flags, error |-> e.error]
  OBVIOUS
<1> QED BY <1>2, <1>3, <1>4

LEMMA DescribedTrueStep ==
  ASSUME IInv, FieldsOK, ListedOnce, ErrorsOK, EntryOK, DescribedOK, [InfoNext]_reportVars
  PROVE  DescribedOK'
<1>1. CASE OtherStep
  <2>1. CASE ipc = "idle"
    <3>1. UNCHANGED infoVars /\ report.entries = {} /\ ipc \notin Listing
      BY <1>1, <2>1, OtherFrame DEF ListedOnce, Listing, Describing
    <3> QED BY <3>1 DEF DescribedOK, infoVars
  <2>2. CASE ipc # "idle"
    <3>1. (Quiet' => Quiet /\ UNCHANGED <<hostVars, configVars>>) /\ (NoFault' => NoFault)
          /\ UNCHANGED infoVars
      BY <1>1, <2>2, OtherQuiet, OtherFrame
    <3> QED BY <3>1, TruthKept DEF DescribedOK, hostVars, infoVars
  <2> QED BY <2>1, <2>2
<1> SUFFICES ASSUME Info, UNCHANGED seen, Quiet PROVE DescribedOK'
  BY <1>1, Steps DEF DescribedOK, Quiet
<1>0. UNCHANGED <<snaps, current>> /\ (NoFault' => NoFault)
      /\ \A found, missed : FaultOr(found, missed) /\ NoFault' => found
  BY QuietFrame
<1>2. \A e \in report.entries : HasTwin(e.name) \/
        /\ NoFault => e.children = Cardinality(Children(e.name))
        /\ ~e.error => [e EXCEPT !.children = 0] = [TrueEntry(e.name) EXCEPT !.children = 0]
  BY DEF DescribedOK
<1>3. NoFault /\ ipc \in Listing =>
        Made = todo \union {e.name : e \in report.entries}
                    \union (IF ipc \in Describing THEN {entry.name} ELSE {})
  BY DEF DescribedOK
<1>4. CASE HeadStep
  BY <1>0, <1>4, HeadFrame, DescribedTold
<1>5. CASE EntryStep
  BY <1>0, <1>2, <1>3, <1>5, EntryFrame, DescribedTold DEF Listing
<1>6. CASE List
  <2>1. report' = report /\ report.entries = {} /\ ipc' = "next" /\ (NoFault' => todo' = Made)
    BY <1>0, <1>6 DEF List, Proceed, ListedOnce, Listing, Describing
  <2> QED BY <1>0, <2>1, DescribedTold DEF Describing
<1>7. CASE NextSnapshot
  <2>0. report' = report /\ ipc = "next"
    BY <1>7 DEF NextSnapshot
  <2>1. CASE todo = {} /\ ipc' = "ok" /\ UNCHANGED todo
    BY <1>0, <1>2, <1>3, <2>0, <2>1, DescribedTold DEF Listing, Describing
  <2>2. ASSUME NEW n \in todo, entry' = Blank(n), todo' = todo \ {n}, ipc' = "children"
        PROVE  DescribedOK'
    <3>1. entry'.name = n
      BY <2>2 DEF Blank
    <3> QED BY <1>0, <1>2, <1>3, <2>0, <2>2, <3>1, DescribedTold DEF Listing, Describing
  <2> QED BY <1>7, <2>1, <2>2 DEF NextSnapshot, Proceed
<1>8. CASE Described
  <2>1. /\ report'.entries = report.entries \union {entry} /\ UNCHANGED <<todo, entry>>
        /\ ipc = "flags" /\ ipc' = "next" /\ asked = 9 /\ entry \in EntryType
    BY <1>8, FlagList DEF Described, Proceed, FieldsOK, ReportType
  <2>2. ASSUME ~HasTwin(entry.name)
        PROVE  /\ NoFault => entry.children = Cardinality(Children(entry.name))
               /\ ~entry.error => [entry EXCEPT !.children = 0]
                                = [TrueEntry(entry.name) EXCEPT !.children = 0]
    <3>1. NoFault => entry.children = Cardinality(Children(entry.name))
      BY <2>1, <2>2 DEF EntryOK, Describing
    <3>2. ASSUME ~entry.error
          PROVE  /\ entry.root = (snaps[entry.name].parent = NoSnapshot)
                 /\ entry.parent = snaps[entry.name].parent
                 /\ entry.current = (entry.name = current)
                 /\ entry.flags = Naming(entry.name, 9)
      BY <2>1, <2>2, <3>2 DEF EntryOK, Describing
    <3> QED BY <2>1, <3>1, <3>2, TrueOfAll
  <2> QED BY <1>0, <1>2, <1>3, <2>1, <2>2, DescribedTold DEF Listing, Describing
<1> QED BY <1>4, <1>5, <1>6, <1>7, <1>8, InfoKinds

-----------------------------------------------------------------------------
LEMMA ReportInvariance == InfoSpec => []ReportInv
<1>1. InfoInit => ReportInv
  <2> SUFFICES ASSUME InfoInit PROVE ReportInv
    OBVIOUS
  <2>1. IInv
    BY InitHolds DEF InfoInit
  <2>2. NoReport \in ReportType /\ NoReport.config = << >> /\ NoReport.entries = {}
    <3>1. 0 \in 0..Cardinality(Name)
      BY NameAssumption, FS_CardinalityType
    <3>2. << >> \in Seq(Value \union {Nothing}) /\ {} \in SUBSET EntryType
      OBVIOUS
    <3> QED BY <3>1, <3>2 DEF NoReport, ReportType
  <2>3. FieldsOK
    <3>1. Blank(NoSnapshot) \in EntryType
      BY DEF Blank, EntryType
    <3>2. 0 \in 0..Len(Flags)
      BY FlagList
    <3> QED BY <2>2, <3>1, <3>2 DEF InfoInit, FieldsOK, Value, Starting, Seen
  <2>4. ListedOnce /\ ErrorsOK /\ HeadOK /\ EntryOK /\ DescribedOK
    BY <2>2 DEF InfoInit, ListedOnce, ErrorsOK, HeadOK, EntryOK, DescribedOK, Listing, Describing
  <2> QED BY <2>1, <2>3, <2>4 DEF ReportInv
<1>2. ReportInv /\ [InfoNext]_reportVars => ReportInv'
  <2> SUFFICES ASSUME ReportInv, [InfoNext]_reportVars PROVE ReportInv'
    OBVIOUS
  <2>1. IInv'
    <3>1. CASE Info
      BY <3>1, SnapshotsStep DEF ReportInv
    <3>2. CASE OtherStep
      BY <3>2, OtherFrame, SnapshotsStep DEF ReportInv
    <3> QED BY <3>1, <3>2, Steps
  <2> QED
    BY <2>1, FieldsStep, ListedOnceStep, ErrorsStep, HeadTrueStep, EntryTrueStep,
       DescribedTrueStep DEF ReportInv
<1> QED BY <1>1, <1>2, PTL DEF InfoSpec

(***************************************************************************)
(* The variables of the report keep their types; it has at most one entry  *)
(* for a name and at most two readings of a parameter.                     *)
(***************************************************************************)
THEOREM ReportTypeCorrect == InfoSpec => []InfoTypeOK
<1>1. ReportInv => InfoTypeOK
  <2> SUFFICES ASSUME ReportInv PROVE InfoTypeOK
    OBVIOUS
  <2> USE DEF ReportInv
  <2>1. report.config \in UNION {[1..k -> Value \union {Nothing}] : k \in 0..2}
    <3>1. report.config \in Seq(Value \union {Nothing}) /\ Len(report.config) <= 2
      BY DEF FieldsOK, ReportType
    <3>2. ASSUME NEW S, NEW s \in Seq(S), Len(s) <= 2
          PROVE  s \in UNION {[1..k -> S] : k \in 0..2}
      <4>1. Len(s) \in Nat /\ s \in [1..Len(s) -> S]
        BY LenProperties
      <4>2. Len(s) \in 0..2
        BY <3>2, <4>1
      <4> QED BY <4>1, <4>2
    <3> QED BY <3>1, <3>2
  <2>2. Cardinality(report.entries) <= Cardinality(Name)
    <3> DEFINE named == [e \in report.entries |-> e.name]
    <3>1. named \in [report.entries -> Name]
      BY DEF ListedOnce
    <3>2. \A e, f \in report.entries : named[e] = named[f] => e = f
      BY DEF ListedOnce
    <3> HIDE DEF named
    <3>3. named \in Injection(report.entries, Name)
      BY <3>1, <3>2 DEF Injection, IsInjective
    <3> QED BY <3>3, NameAssumption, FS_Injection
  <2>3. report.count \in 0..Cardinality(Name)
    BY DEF FieldsOK, ReportType
  <2> QED BY <2>1, <2>2, <2>3 DEF InfoTypeOK, FieldsOK, IInv
<1> QED BY <1>1, ReportInvariance, PTL

LEMMA SameEntry ==
  ASSUME NEW e \in EntryType, e.children = Cardinality(Children(e.name)),
         [e EXCEPT !.children = 0] = [TrueEntry(e.name) EXCEPT !.children = 0]
  PROVE  e = TrueEntry(e.name)
<1> DEFINE t == TrueEntry(e.name)
<1>1. /\ t = [name |-> t.name, children |-> t.children, root |-> t.root, parent |-> t.parent,
              current |-> t.current, flags |-> t.flags, error |-> t.error]
      /\ t.children = e.children
  BY DEF TrueEntry
<1> HIDE DEF t
<1>2. [e EXCEPT !.children = 0] = [t EXCEPT !.children = 0]
  BY DEF t
<1>3. /\ e.name = t.name /\ e.root = t.root /\ e.parent = t.parent
      /\ e.current = t.current /\ e.flags = t.flags /\ e.error = t.error
  BY <1>1, <1>2 DEF EntryType
<1>4. e = [name |-> e.name, children |-> e.children, root |-> e.root, parent |-> e.parent,
           current |-> e.current, flags |-> e.flags, error |-> e.error]
  BY DEF EntryType
<1>5. e = t
  BY <1>1, <1>3, <1>4
<1> QED BY <1>5 DEF t

(***************************************************************************)
(* A report that nothing disturbed is true.                                *)
(***************************************************************************)
THEOREM QuietReportsAreTrue == InfoSpec => []QuietReportIsTrue
<1>1. ReportInv => QuietReportIsTrue
  <2> SUFFICES ASSUME ReportInv, ipc = "ok", Quiet, NoFault
               PROVE  /\ report.state = on /\ report.active = on
                      /\ report.config = IF on THEN <<live, stored>> ELSE <<stored>>
                      /\ report.count = Cardinality(Made)
                      /\ {e.name : e \in report.entries} = Made
                      /\ \A e \in report.entries : HasTwin(e.name) \/ e = TrueEntry(e.name)
    BY DEF QuietReportIsTrue, Quiet, NoFault
  <2> USE DEF ReportInv
  <2>1. /\ report.state = on /\ report.active = on
        /\ report.config = IF on THEN <<live, stored>> ELSE <<stored>>
        /\ report.count = Cardinality(Made)
    BY DEF HeadOK, Starting
  <2>2. {e.name : e \in report.entries} = Made
    <3>1. todo = {}
      BY DEF ListedOnce
    <3> QED BY <3>1 DEF DescribedOK, Listing, Describing
  <2>3. ASSUME NEW e \in report.entries, ~HasTwin(e.name)
        PROVE  e = TrueEntry(e.name)
    <3>1. e \in EntryType /\ ~e.error
      BY <2>3 DEF FieldsOK, ReportType, ErrorsOK, Excused, Quiet, NoFault
    <3>2. /\ e.children = Cardinality(Children(e.name))
          /\ [e EXCEPT !.children = 0] = [TrueEntry(e.name) EXCEPT !.children = 0]
      BY <2>3, <3>1 DEF DescribedOK
    <3> QED BY <3>1, <3>2, SameEntry
  <2> QED BY <2>1, <2>2, <2>3
<1> QED BY <1>1, ReportInvariance, PTL

(***************************************************************************)
(* An entry that is not marked is true unless something changed.           *)
(***************************************************************************)
THEOREM UnmarkedEntriesAreTrue == InfoSpec => []UnmarkedEntryIsTrue
<1>1. ReportInv => UnmarkedEntryIsTrue
  BY DEF ReportInv, DescribedOK, UnmarkedEntryIsTrue, Quiet
<1> QED BY <1>1, ReportInvariance, PTL

(***************************************************************************)
(* An entry is marked for a reason.                                        *)
(***************************************************************************)
THEOREM MarksAreExplained == InfoSpec => []ErrorsAreExplained
<1>1. ReportInv => ErrorsAreExplained
  BY DEF ReportInv, ErrorsOK, ErrorsAreExplained, Excused
<1> QED BY <1>1, ReportInvariance, PTL

(***************************************************************************)
(* A report takes nothing away from what is proved of the snapshots.       *)
(***************************************************************************)
THEOREM ReportsDisturbNothing ==
  InfoSpec => /\ [](SnapshotsComeBack /\ AnsweredSnapshotStays /\ HandlesFreed)
              /\ GuestUndisturbed
<1> DEFINE Undisturbed ==
      on /\ spent["misread"] = 0 =>
        \A r \in Req \ raced : pc[r] # pc'[r] => on' /\ image' = image
<1>1. ReportInv => SnapshotsComeBack /\ AnsweredSnapshotStays /\ HandlesFreed
  BY SnapshotsKept DEF ReportInv
<1>2. ReportInv /\ [InfoNext]_reportVars => [Undisturbed]_snapshotVars
  <2> SUFFICES ASSUME ReportInv, [InfoNext]_reportVars
               PROVE  Undisturbed
    OBVIOUS
  <2>1. CASE Info
    BY <2>1, InfoFrame DEF ReportInv, IInv
  <2>2. CASE OtherStep
    BY <2>2, OtherFrame, GuestStep DEF ReportInv, IInv
  <2> QED BY <2>1, <2>2, Steps
<1>3. [][InfoNext]_reportVars /\ []ReportInv => [][Undisturbed]_snapshotVars
  BY <1>2, PTL
<1>4. InfoSpec => [][Undisturbed]_snapshotVars
  BY <1>3, ReportInvariance, PTL DEF InfoSpec
<1>5. InfoSpec => GuestUndisturbed
  BY <1>4 DEF GuestUndisturbed
<1> QED BY <1>1, <1>5, ReportInvariance, PTL
==============================================================================
