--------------------------- MODULE AdmissionProofs ---------------------------
(***************************************************************************)
(* Safety of Admission for any requests, names, plans and budgets.         *)
(***************************************************************************)
EXTENDS Admission, TLAPS

(***************************************************************************)
(* Which handler a label belongs to, and which volume a request made.      *)
(***************************************************************************)
OpOK ==
  \A r \in Req :
    /\ pc[r] \in Holding \union {"lookup"} => ask[r].op = "Destroy"
    /\ pc[r] \in {"name", "validate", "path", "define"} => ask[r].op = "Create"
    /\ pc[r] \in {"clone", "building"} => ask[r].op \in {"Create", "CloneImage"}

(***************************************************************************)
(* No two domains have one UUID.                                           *)
(***************************************************************************)
UniqueOK == \A m, n \in Name : domain[m] = domain[n] => m = n \/ domain[m] = NoUUID

(***************************************************************************)
(* Unless another Destroy undefined its domain, a handle stands for the    *)
(* domain that was looked up, and the volume is that of its name; so it    *)
(* has undefined no other domain.                                          *)
(***************************************************************************)
HandleOK ==
  \A r \in Req : r \notin raced =>
    /\ pc[r] \in Using => domain[Its(r)] = handle[r]
    /\ listed[r] \in {Its(r), NoVolume}
    /\ \A n \in Name : undefiner[n] = r => n = Its(r)

MakerOK == \A r \in Req, n \in Name : image[n] = r => Its(r) = n

(***************************************************************************)
(* A request waits for a clone that is its own and not finished.           *)
(***************************************************************************)
BuildOK ==
  \A r \in Req : pc[r] = "building" => image[Its(r)] = r /\ building[Its(r)] # NoVolume

(***************************************************************************)
(* A domain has its image, and the request that defined it has gone on; a  *)
(* Create about to define one has its image and finds no domain.           *)
(***************************************************************************)
OwnOK ==
  \A n \in Name : domain[n] # NoUUID =>
    /\ image[n] = definer[n] /\ building[n] = NoVolume
    /\ \A r \in Req : definer[n] = r => pc[r] = "ok"

PendingOK ==
  \A r \in Req : pc[r] = "define" =>
    image[Its(r)] = r /\ building[Its(r)] = NoVolume /\ domain[Its(r)] = NoUUID

(***************************************************************************)
(* A Destroy that has not undefined its domain finds it defined, and knows *)
(* so; the image it has listed is that of the domain.  One that has        *)
(* undefined it is the only one at work on the name, and the image is the  *)
(* one it has copied until it deletes it.                                  *)
(***************************************************************************)
HeldOK ==
  \A r \in Req :
    /\ pc[r] \in Using => domain[Its(r)] = handle[r]
    /\ pc[r] \in Listing => listed[r] = Its(r)
    /\ pc[r] = "undefine" => wasPersistent[r]

ErasingOK ==
  \A r \in Req : pc[r] \in {"pools", "erase"} =>
    /\ domain[Its(r)] = NoUUID
    /\ image[Its(r)] # NoImage /\ building[Its(r)] = NoVolume

AloneOK ==
  \A r, s \in Req : pc[r] \in {"pools", "erase"} /\ s # r /\ Its(s) = Its(r) =>
    pc[s] \notin {"building", "define"} \union (Holding \ {"confirm"})

CopiedOK ==
  \A r \in Req : pc[r] \in {"persist", "undefine", "pools", "erase"} =>
    <<Its(r), image[Its(r)]>> \in saved

OrderOK == OwnOK /\ PendingOK /\ HeldOK /\ ErasingOK /\ AloneOK /\ CopiedOK

IInv ==
  /\ TypeOK /\ OpOK /\ UniqueOK /\ HandleOK /\ MakerOK /\ BuildOK /\ NoOrphan
  /\ Trusted => OrderOK
-----------------------------------------------------------------------------
(***************************************************************************)
(* Every variable keeps its type; a Destroy goes on only with a domain in  *)
(* hand.                                                                   *)
(***************************************************************************)
LEMMA TypeStep == TypeOK /\ [Next]_vars => TypeOK'
<1> SUFFICES ASSUME TypeOK, [Next]_vars PROVE TypeOK'
  OBVIOUS
<1> USE DEF TypeOK, Label, Holding, Using, Listing, Ended, Adversity, Maker, Volume, Request,
    Its, hostVars, localVars, history
<1>1. ASSUME NEW r \in Req, Enter(r) PROVE TypeOK'
  BY SMTT(30), <1>1 DEF Enter, FirstStep, Goto
<1>2. ASSUME NEW r \in Req, FreeName(r) PROVE TypeOK'
  BY SMTT(30), <1>2 DEF FreeName, NotFound, Goto, Fail, Spend
<1>3. ASSUME NEW r \in Req, Validate(r) PROVE TypeOK'
  BY <1>3 DEF Validate, Goto, Fail
<1>4. ASSUME NEW r \in Req, FreePath(r) PROVE TypeOK'
  BY <1>4 DEF FreePath, NotFound, Goto, Fail, Spend
<1>5. ASSUME NEW r \in Req, Clone(r) PROVE TypeOK'
  <2>1. /\ pc[r] = "clone" /\ UNCHANGED <<domain, localVars, spent, history>>
        /\ \E l \in {"building", "error"} : pc' = [pc EXCEPT ![r] = l]
    BY <1>5 DEF Clone, Goto, Fail
  <2>2. image' \in [Volume -> Maker \union {NoImage}]
        /\ building' \in [Volume -> Volume \union {NoVolume}]
    <3>1. Its(r) \in Volume /\ ask[r].source \in Volume
      OBVIOUS
    <3>2. \/ UNCHANGED <<image, building>>
          \/ /\ image' = [image EXCEPT ![Its(r)] = r]
             /\ building' = [building EXCEPT ![Its(r)] = ask[r].source]
      BY <1>5 DEF Clone
    <3>3. CASE UNCHANGED <<image, building>>
      BY <3>3
    <3>4. CASE image' = [image EXCEPT ![Its(r)] = r]
               /\ building' = [building EXCEPT ![Its(r)] = ask[r].source]
      <4>1. image' \in [Volume -> Maker \union {NoImage}]
        BY <3>4
      <4>2. building' \in [Volume -> Volume \union {NoVolume}]
        BY <3>1, <3>4
      <4> QED BY <4>1, <4>2
    <3> QED BY <3>2, <3>3, <3>4
  <2> QED BY <2>1, <2>2
<1>6. ASSUME NEW r \in Req, Define(r) PROVE TypeOK'
  BY <1>6 DEF Define, Goto, Fail
<1>7. ASSUME NEW r \in Req, Lookup(r) PROVE TypeOK'
  BY <1>7 DEF Lookup, Goto, Fail
<1>8. ASSUME NEW r \in Req, Paths(r) PROVE TypeOK'
  <2>1. pc[r] = "paths" /\ UNCHANGED <<hostVars, ask, handle, wasPersistent, spent, history>>
    BY <1>8 DEF Paths
  <2>2. CASE Fail(r) /\ UNCHANGED listed
    BY <2>1, <2>2 DEF Fail, Goto
  <2>3. CASE ~(Fail(r) /\ UNCHANGED listed)
    <3>1. PICK n \in Name : listed' = [listed EXCEPT ![r] = n] /\ Goto(r, "copy")
      BY <1>8, <2>3 DEF Paths
    <3>2. n # NoVolume
      BY NobodyAssumption
    <3> QED BY <2>1, <3>1, <3>2 DEF Goto
  <2> QED BY <2>2, <2>3
<1>9. ASSUME NEW r \in Req, Copy(r) PROVE TypeOK'
  BY <1>9 DEF Copy, Goto, Fail
<1>10. ASSUME NEW r \in Req, ReadPersistent(r) PROVE TypeOK'
  BY <1>10 DEF ReadPersistent, Goto, Spend
<1>11. ASSUME NEW r \in Req, Undefine(r) PROVE TypeOK'
  BY <1>11 DEF Undefine, TakeDomain, Overtaken, Goto, Fail
<1>12. ASSUME NEW r \in Req, Pools(r) PROVE TypeOK'
  BY <1>12 DEF Pools, Goto, Spend
<1>13. ASSUME NEW r \in Req, Erase(r) PROVE TypeOK'
  BY <1>13 DEF Erase, CanDelete, Goto, Spend
<1>14. ASSUME NEW r \in Req, Confirm(r) PROVE TypeOK'
  BY <1>14 DEF Confirm, NotFound, Goto, Spend
<1>15. ASSUME NEW r \in Req, Fault(r) PROVE TypeOK'
  BY <1>15 DEF Fault, Goto, Fail, Spend
<1>16. ASSUME NEW v \in Volume, BuildEnds(v) PROVE TypeOK'
  BY <1>16 DEF BuildEnds, Waiting
<1>17. ASSUME NEW v \in Volume, BuildFails(v) PROVE TypeOK'
  BY <1>17 DEF BuildFails, Waiting, Spend
<1>18. CASE Crash
  BY <1>18 DEF Crash, Spend
<1>19. CASE UNCHANGED vars
  BY <1>19 DEF vars
<1>20. QED
  BY <1>1, <1>2, <1>3, <1>4, <1>5, <1>6, <1>7, <1>8, <1>9, <1>10, <1>11, <1>12,
     <1>13, <1>14, <1>15, <1>16, <1>17, <1>18, <1>19
  DEF Next, Create, Destroy, Finished

(***************************************************************************)
(* Trust once lost is lost.                                                *)
(***************************************************************************)
LEMMA TrustStep == TypeOK /\ [Next]_vars => (Trusted' => Trusted)
<1> SUFFICES ASSUME TypeOK, [Next]_vars PROVE (Trusted' => Trusted)
  OBVIOUS
<1> USE DEF TypeOK, Trusted, Adversity, hostVars, localVars, history
<1>1. ASSUME NEW r \in Req, Enter(r) PROVE (Trusted' => Trusted)
  BY <1>1 DEF Enter, FirstStep, Goto
<1>2. ASSUME NEW r \in Req, FreeName(r) PROVE (Trusted' => Trusted)
  BY <1>2 DEF FreeName, NotFound, Goto, Fail, Spend
<1>3. ASSUME NEW r \in Req, Validate(r) PROVE (Trusted' => Trusted)
  BY <1>3 DEF Validate, Goto, Fail
<1>4. ASSUME NEW r \in Req, FreePath(r) PROVE (Trusted' => Trusted)
  BY <1>4 DEF FreePath, NotFound, Goto, Fail, Spend
<1>5. ASSUME NEW r \in Req, Clone(r) PROVE (Trusted' => Trusted)
  BY <1>5 DEF Clone, Goto, Fail
<1>6. ASSUME NEW r \in Req, Define(r) PROVE (Trusted' => Trusted)
  BY <1>6 DEF Define, Goto, Fail
<1>7. ASSUME NEW r \in Req, Lookup(r) PROVE (Trusted' => Trusted)
  BY <1>7 DEF Lookup, Goto, Fail
<1>8. ASSUME NEW r \in Req, Paths(r) PROVE (Trusted' => Trusted)
  BY <1>8 DEF Paths, Goto, Fail
<1>9. ASSUME NEW r \in Req, Copy(r) PROVE (Trusted' => Trusted)
  BY <1>9 DEF Copy, Goto, Fail
<1>10. ASSUME NEW r \in Req, ReadPersistent(r) PROVE (Trusted' => Trusted)
  BY <1>10 DEF ReadPersistent, Goto, Spend
<1>11. ASSUME NEW r \in Req, Undefine(r) PROVE (Trusted' => Trusted)
  BY <1>11 DEF Undefine, TakeDomain, Overtaken, Goto, Fail
<1>12. ASSUME NEW r \in Req, Pools(r) PROVE (Trusted' => Trusted)
  BY <1>12 DEF Pools, Goto, Spend
<1>13. ASSUME NEW r \in Req, Erase(r) PROVE (Trusted' => Trusted)
  BY <1>13 DEF Erase, CanDelete, Goto, Spend
<1>14. ASSUME NEW r \in Req, Confirm(r) PROVE (Trusted' => Trusted)
  BY <1>14 DEF Confirm, NotFound, Goto, Spend
<1>15. ASSUME NEW r \in Req, Fault(r) PROVE (Trusted' => Trusted)
  BY <1>15 DEF Fault, Goto, Fail, Spend
<1>16. ASSUME NEW v \in Volume, BuildEnds(v) PROVE (Trusted' => Trusted)
  BY <1>16 DEF BuildEnds, Waiting
<1>17. ASSUME NEW v \in Volume, BuildFails(v) PROVE (Trusted' => Trusted)
  BY <1>17 DEF BuildFails, Waiting, Spend
<1>18. CASE Crash
  BY <1>18 DEF Crash, Spend
<1>19. CASE UNCHANGED vars
  BY <1>19 DEF vars
<1>20. QED
  BY <1>1, <1>2, <1>3, <1>4, <1>5, <1>6, <1>7, <1>8, <1>9, <1>10, <1>11, <1>12,
     <1>13, <1>14, <1>15, <1>16, <1>17, <1>18, <1>19
  DEF Next, Create, Destroy, Finished

(***************************************************************************)
(* libvirt keeps UUIDs apart, and only a Destroy takes a domain away from  *)
(* those that hold it.                                                     *)
(***************************************************************************)
LEMMA HandleStep ==
  TypeOK /\ UniqueOK /\ HandleOK /\ [Next]_vars => (UniqueOK /\ HandleOK)'
<1> SUFFICES ASSUME TypeOK, UniqueOK, HandleOK, [Next]_vars PROVE (UniqueOK /\ HandleOK)'
  OBVIOUS
<1> USE NobodyAssumption DEF TypeOK, UniqueOK, HandleOK, Holding, Using, Listing, Ended,
    Request, Its, hostVars, localVars, history
<1>1. ASSUME NEW r \in Req, Enter(r) PROVE (UniqueOK /\ HandleOK)'
  BY <1>1 DEF Enter, FirstStep, Goto
<1>2. ASSUME NEW r \in Req, FreeName(r) PROVE (UniqueOK /\ HandleOK)'
  BY <1>2 DEF FreeName, NotFound, Goto, Fail
<1>3. ASSUME NEW r \in Req, Validate(r) PROVE (UniqueOK /\ HandleOK)'
  BY <1>3 DEF Validate, Goto, Fail
<1>4. ASSUME NEW r \in Req, FreePath(r) PROVE (UniqueOK /\ HandleOK)'
  BY <1>4 DEF FreePath, NotFound, Goto, Fail
<1>5. ASSUME NEW r \in Req, Clone(r) PROVE (UniqueOK /\ HandleOK)'
  BY <1>5 DEF Clone, Goto, Fail
<1>6. ASSUME NEW r \in Req, Define(r) PROVE (UniqueOK /\ HandleOK)'
  BY <1>6 DEF Define, Goto, Fail
<1>7. ASSUME NEW r \in Req, Lookup(r) PROVE (UniqueOK /\ HandleOK)'
  BY <1>7 DEF Lookup, Goto, Fail
<1>8. ASSUME NEW r \in Req, Paths(r) PROVE (UniqueOK /\ HandleOK)'
  BY <1>8 DEF Paths, Goto, Fail
<1>9. ASSUME NEW r \in Req, Copy(r) PROVE (UniqueOK /\ HandleOK)'
  BY <1>9 DEF Copy, Goto, Fail
<1>10. ASSUME NEW r \in Req, ReadPersistent(r) PROVE (UniqueOK /\ HandleOK)'
  BY <1>10 DEF ReadPersistent, Goto
<1>11. ASSUME NEW r \in Req, Undefine(r) PROVE (UniqueOK /\ HandleOK)'
  BY <1>11 DEF Undefine, TakeDomain, Overtaken, Goto, Fail
<1>12. ASSUME NEW r \in Req, Pools(r) PROVE (UniqueOK /\ HandleOK)'
  BY <1>12 DEF Pools, Goto
<1>13. ASSUME NEW r \in Req, Erase(r) PROVE (UniqueOK /\ HandleOK)'
  BY <1>13 DEF Erase, CanDelete, Goto
<1>14. ASSUME NEW r \in Req, Confirm(r) PROVE (UniqueOK /\ HandleOK)'
  BY <1>14 DEF Confirm, NotFound, Goto
<1>15. ASSUME NEW r \in Req, Fault(r) PROVE (UniqueOK /\ HandleOK)'
  BY <1>15 DEF Fault, Goto, Fail
<1>16. ASSUME NEW v \in Volume, BuildEnds(v) PROVE (UniqueOK /\ HandleOK)'
  BY <1>16 DEF BuildEnds, Waiting
<1>17. ASSUME NEW v \in Volume, BuildFails(v) PROVE (UniqueOK /\ HandleOK)'
  BY <1>17 DEF BuildFails, Waiting
<1>18. CASE Crash
  BY <1>18 DEF Crash
<1>19. CASE UNCHANGED vars
  BY <1>19 DEF vars
<1>20. QED
  BY <1>1, <1>2, <1>3, <1>4, <1>5, <1>6, <1>7, <1>8, <1>9, <1>10, <1>11, <1>12,
     <1>13, <1>14, <1>15, <1>16, <1>17, <1>18, <1>19
  DEF Next, Create, Destroy, Finished

(***************************************************************************)
(* A Destroy that may be trusted undefines the domain of its name.         *)
(***************************************************************************)
LEMMA TakesItsDomain ==
  ASSUME TypeOK, UniqueOK, HeldOK, NEW r \in Req, Undefine(r)
  PROVE  /\ pc[r] = "undefine" /\ Goto(r, "pools")
         /\ domain[Its(r)] = handle[r] /\ handle[r] # NoUUID
         /\ domain' = [domain EXCEPT ![Its(r)] = NoUUID]
         /\ raced' = raced \union Overtaken(r)
         /\ UNCHANGED <<image, building, localVars, spent, definer, saved>>
<1>1. /\ pc[r] = "undefine" /\ wasPersistent[r] /\ Its(r) \in Name
      /\ domain[Its(r)] = handle[r] /\ handle[r] # NoUUID
  BY DEF Undefine, TypeOK, HeldOK, Using, Holding, Request, Its
<1>2. Alive(r)
  BY <1>1 DEF Alive
<1>3. TakeDomain(r) /\ Goto(r, "pools")
      /\ UNCHANGED <<image, building, localVars, spent, definer, saved>>
  BY <1>1, <1>2 DEF Undefine
<1>4. \A n \in Name : domain[n] = handle[r] <=> n = Its(r)
  BY <1>1 DEF UniqueOK
<1>5. domain' = [domain EXCEPT ![Its(r)] = NoUUID]
  BY <1>3, <1>4 DEF TakeDomain, TypeOK
<1> QED BY <1>1, <1>3, <1>5 DEF TakeDomain

(***************************************************************************)
(* Labels fit the handler; a volume that is being built has its maker      *)
(* waiting, unless that was killed.                                        *)
(***************************************************************************)
LEMMA FormStep ==
  TypeOK /\ OpOK /\ MakerOK /\ BuildOK /\ [Next]_vars
    => (OpOK /\ MakerOK /\ BuildOK)'
<1> SUFFICES ASSUME TypeOK, OpOK, MakerOK, BuildOK, [Next]_vars PROVE (OpOK /\ MakerOK /\ BuildOK)'
  OBVIOUS
<1> USE DEF TypeOK, OpOK, MakerOK, BuildOK, Holding, Using, Listing, Ended, Maker, Volume,
    Request, Its, hostVars, localVars, history
<1>1. ASSUME NEW r \in Req, Enter(r) PROVE (OpOK /\ MakerOK /\ BuildOK)'
  BY <1>1, NobodyAssumption DEF Enter, FirstStep, Goto, Op
<1>2. ASSUME NEW r \in Req, FreeName(r) PROVE (OpOK /\ MakerOK /\ BuildOK)'
  BY <1>2, NobodyAssumption DEF FreeName, NotFound, Goto, Fail
<1>3. ASSUME NEW r \in Req, Validate(r) PROVE (OpOK /\ MakerOK /\ BuildOK)'
  BY <1>3, NobodyAssumption DEF Validate, Goto, Fail
<1>4. ASSUME NEW r \in Req, FreePath(r) PROVE (OpOK /\ MakerOK /\ BuildOK)'
  BY <1>4, NobodyAssumption DEF FreePath, NotFound, Goto, Fail
<1>5. ASSUME NEW r \in Req, Clone(r) PROVE (OpOK /\ MakerOK /\ BuildOK)'
  BY <1>5, NobodyAssumption DEF Clone, Goto, Fail
<1>6. ASSUME NEW r \in Req, Define(r) PROVE (OpOK /\ MakerOK /\ BuildOK)'
  BY <1>6, NobodyAssumption DEF Define, Goto, Fail
<1>7. ASSUME NEW r \in Req, Lookup(r) PROVE (OpOK /\ MakerOK /\ BuildOK)'
  BY <1>7, NobodyAssumption DEF Lookup, Goto, Fail
<1>8. ASSUME NEW r \in Req, Paths(r) PROVE (OpOK /\ MakerOK /\ BuildOK)'
  BY <1>8, NobodyAssumption DEF Paths, Goto, Fail
<1>9. ASSUME NEW r \in Req, Copy(r) PROVE (OpOK /\ MakerOK /\ BuildOK)'
  BY <1>9, NobodyAssumption DEF Copy, Goto, Fail
<1>10. ASSUME NEW r \in Req, ReadPersistent(r) PROVE (OpOK /\ MakerOK /\ BuildOK)'
  BY <1>10, NobodyAssumption DEF ReadPersistent, Goto
<1>11. ASSUME NEW r \in Req, Undefine(r) PROVE (OpOK /\ MakerOK /\ BuildOK)'
  BY <1>11, NobodyAssumption DEF Undefine, TakeDomain, Overtaken, Goto, Fail
<1>12. ASSUME NEW r \in Req, Pools(r) PROVE (OpOK /\ MakerOK /\ BuildOK)'
  BY <1>12, NobodyAssumption DEF Pools, Goto
<1>13. ASSUME NEW r \in Req, Erase(r) PROVE (OpOK /\ MakerOK /\ BuildOK)'
  BY <1>13, NobodyAssumption DEF Erase, CanDelete, Goto
<1>14. ASSUME NEW r \in Req, Confirm(r) PROVE (OpOK /\ MakerOK /\ BuildOK)'
  BY <1>14, NobodyAssumption DEF Confirm, NotFound, Goto
<1>15. ASSUME NEW r \in Req, Fault(r) PROVE (OpOK /\ MakerOK /\ BuildOK)'
  BY <1>15, NobodyAssumption DEF Fault, Goto, Fail
<1>16. ASSUME NEW v \in Volume, BuildEnds(v) PROVE (OpOK /\ MakerOK /\ BuildOK)'
  BY <1>16, NobodyAssumption DEF BuildEnds, Waiting
<1>17. ASSUME NEW v \in Volume, BuildFails(v) PROVE (OpOK /\ MakerOK /\ BuildOK)'
  BY <1>17, NobodyAssumption DEF BuildFails, Waiting
<1>18. CASE Crash
  BY <1>18, NobodyAssumption DEF Crash
<1>19. CASE UNCHANGED vars
  BY <1>19 DEF vars
<1>20. QED
  BY <1>1, <1>2, <1>3, <1>4, <1>5, <1>6, <1>7, <1>8, <1>9, <1>10, <1>11, <1>12,
     <1>13, <1>14, <1>15, <1>16, <1>17, <1>18, <1>19
  DEF Next, Create, Destroy, Finished

(***************************************************************************)
(* A culprit stays one as long as it does not answer TRUE.                 *)
(***************************************************************************)
Clearing == {"pools", "erase", "confirm", "panic"}
Blamed == Clearing \union {"building", "define", "ok", "error", "lost"}

Culprit(n) == \E r \in Req : Made(r, n) \/ Bereft(r, n)

LEMMA CulpritStays ==
  ASSUME TypeOK, NoOrphan, NEW n \in Name,
         image[n] # NoImage, domain[n] = NoUUID, image'[n] = image[n],
         UNCHANGED ask, undefiner'[n] = undefiner[n], raced \subseteq raced',
         spent'["fault"] \in Nat, spent'["fault"] >= spent["fault"],
         \A s \in Req : pc[s] = "ok" => listed'[s] = listed[s],
         \A s \in Req : \/ pc'[s] = pc[s]
                        \/ pc'[s] \in {"error", "lost"}
                        \/ pc[s] \notin Blamed
                        \/ pc[s] \in Clearing /\ pc'[s] \in Clearing
  PROVE  Culprit(n)'
<1> SUFFICES \E r \in Req : Made(r, n)' \/ Bereft(r, n)'
  BY DEF Culprit
<1>1. PICK r \in Req : Made(r, n) \/ Bereft(r, n)
  BY DEF NoOrphan
<1>2. CASE Made(r, n)
  BY <1>2 DEF Made, Blamed, Clearing
<1>3. CASE Bereft(r, n)
  <2>1. spent["fault"] \in Nat
    BY DEF TypeOK, Adversity
  <2>2. CASE pc[r] \in Clearing \union {"error", "lost"}
    <3>1. pc'[r] \in Clearing \union {"error", "lost"}
      BY <2>2 DEF Blamed, Clearing
    <3> QED BY <1>3, <3>1 DEF Bereft, Clearing
  <2>3. CASE pc[r] = "ok"
    BY <1>3, <2>1, <2>3 DEF Bereft, Blamed, Clearing
  <2> QED BY <1>3, <2>2, <2>3 DEF Bereft, Clearing
<1> QED BY <1>1, <1>2, <1>3

LEMMA FaultsCounted ==
  ASSUME TypeOK
  PROVE  /\ spent["fault"] \in Nat
         /\ \A a \in Adversity : Spend(a) => /\ spent'["fault"] \in Nat
                                             /\ spent'["fault"] >= spent["fault"]
         /\ Spend("fault") => spent'["fault"] > 0
BY DEF TypeOK, Spend, Adversity

(***************************************************************************)
(* Whoever leaves an image behind has ended without success, or undefined  *)
(* another domain than the one it had listed.                              *)
(***************************************************************************)
LEMMA OrphanStep ==
  TypeOK /\ OpOK /\ HandleOK /\ MakerOK /\ BuildOK /\ NoOrphan /\ [Next]_vars => NoOrphan'
<1> SUFFICES ASSUME TypeOK, OpOK, HandleOK, MakerOK, BuildOK, NoOrphan, [Next]_vars,
                    NEW n \in Name, image'[n] # NoImage, domain'[n] = NoUUID
             PROVE  Culprit(n)'
  BY DEF NoOrphan, Culprit
<1> USE DEF Blamed, Clearing, hostVars, localVars, history
<1>0. Adversity = {"fault", "misread", "crash"} /\ n \in Volume
  BY DEF Adversity, Volume
<1>1. ASSUME NEW r \in Req, Enter(r) \/ Validate(r) PROVE Culprit(n)'
  BY <1>1, CulpritStays, FaultsCounted DEF Enter, Validate, FirstStep, Goto, Fail, TypeOK
<1>2. ASSUME NEW r \in Req, FreeName(r) \/ FreePath(r) PROVE Culprit(n)'
  BY <1>0, <1>2, CulpritStays, FaultsCounted DEF FreeName, FreePath, NotFound, Goto, Fail, TypeOK
<1>3. ASSUME NEW r \in Req, Clone(r) PROVE Culprit(n)'
  <2>1. pc[r] = "clone" /\ UNCHANGED <<domain, localVars, spent, history>>
        /\ \A s \in Req \ {r} : pc'[s] = pc[s]
    BY <1>3 DEF Clone, Goto, Fail, TypeOK
  <2>2. CASE image'[n] = image[n]
    BY <2>1, <2>2, CulpritStays, FaultsCounted
  <2>3. CASE image'[n] # image[n]
    <3>1. image'[n] = r /\ pc'[r] = "building"
      BY <1>0, <1>3, <2>3 DEF Clone, Goto, TypeOK
    <3> QED BY <3>1 DEF Culprit, Made
  <2> QED BY <2>2, <2>3
<1>4. ASSUME NEW r \in Req, Define(r) PROVE Culprit(n)'
  <2>1. pc[r] = "define" /\ UNCHANGED <<image, localVars, spent, undefiner, raced>>
        /\ \A s \in Req \ {r} : pc'[s] = pc[s]
    BY <1>4 DEF Define, Goto, Fail, TypeOK
  <2>2. CASE pc'[r] = "error"
    <3>1. domain' = domain
      BY <1>4, <2>2 DEF Define, Goto, TypeOK
    <3> QED BY <2>1, <2>2, <3>1, CulpritStays, FaultsCounted
  <2>3. CASE pc'[r] # "error"
    <3>1. domain' = [domain EXCEPT ![Its(r)] = ask[r].uuid] /\ ask[r].uuid # NoUUID
      BY <1>4, <2>3, NobodyAssumption DEF Define, Goto, Fail, TypeOK, Request
    <3>2. n # Its(r) /\ domain[n] = NoUUID
      BY <3>1 DEF TypeOK
    <3>3. PICK s \in Req : Made(s, n) \/ Bereft(s, n)
      BY <2>1, <3>2 DEF NoOrphan
    <3>4. s # r
      BY <2>1, <3>2, <3>3 DEF Made, Bereft, MakerOK
    <3> QED BY <2>1, <3>3, <3>4 DEF Culprit, Made, Bereft
  <2> QED BY <2>2, <2>3
<1>5. ASSUME NEW r \in Req, Lookup(r) \/ Copy(r) PROVE Culprit(n)'
  BY <1>5, CulpritStays, FaultsCounted DEF Lookup, Copy, Goto, Fail, TypeOK
<1>6. ASSUME NEW r \in Req, Paths(r) PROVE Culprit(n)'
  BY <1>6, CulpritStays, FaultsCounted DEF Paths, Goto, Fail, TypeOK
<1>7. ASSUME NEW r \in Req, ReadPersistent(r) PROVE Culprit(n)'
  BY <1>0, <1>7, CulpritStays, FaultsCounted DEF ReadPersistent, Goto, TypeOK
<1>8. ASSUME NEW r \in Req, Undefine(r) PROVE Culprit(n)'
  <2>1. pc[r] = "undefine" /\ UNCHANGED <<image, localVars, spent>> /\ raced \subseteq raced'
        /\ \A s \in Req \ {r} : pc'[s] = pc[s]
    BY <1>8 DEF Undefine, TakeDomain, Goto, Fail, TypeOK
  <2>2. CASE domain[n] = NoUUID
    <3>1. undefiner'[n] = undefiner[n] \/ domain[n] = handle[r]
      BY <1>8 DEF Undefine, TakeDomain
    <3>2. handle[r] # NoUUID
      BY <2>1 DEF TypeOK, Holding, Using
    <3> QED BY <2>1, <2>2, <3>1, <3>2, CulpritStays, FaultsCounted
  <2>3. CASE domain[n] # NoUUID
    <3>1. undefiner'[n] = r /\ pc'[r] = "pools"
      BY <1>8, <2>3 DEF Undefine, TakeDomain, Goto, TypeOK
    <3> QED BY <3>1 DEF Culprit, Bereft
  <2> QED BY <2>2, <2>3
<1>9. ASSUME NEW r \in Req, Pools(r) PROVE Culprit(n)'
  BY <1>0, <1>9, CulpritStays, FaultsCounted DEF Pools, Goto, TypeOK
<1>10. ASSUME NEW r \in Req, Erase(r) PROVE Culprit(n)'
  BY <1>0, <1>10, CulpritStays, FaultsCounted DEF Erase, Goto, TypeOK
<1>11. ASSUME NEW r \in Req, Confirm(r) PROVE Culprit(n)'
  <2>1. pc[r] = "confirm" /\ UNCHANGED <<hostVars, localVars, history>>
        /\ pc' = [pc EXCEPT ![r] = pc'[r]] /\ pc'[r] \in {"ok", "panic"}
        /\ spent'["fault"] \in Nat /\ spent'["fault"] >= spent["fault"]
    BY <1>0, <1>11, FaultsCounted DEF Confirm, NotFound, Goto, TypeOK
  <2>2. CASE pc'[r] = "panic"
    <3>1. \A s \in Req : pc'[s] = pc[s] \/ (pc[s] \in Clearing /\ pc'[s] \in Clearing)
      BY <2>1, <2>2 DEF TypeOK
    <3> QED BY <2>1, <3>1, CulpritStays
  <2>3. CASE pc'[r] = "ok"
    <3>1. PICK s \in Req : Made(s, n) \/ Bereft(s, n)
      BY <2>1 DEF NoOrphan
    <3>2. CASE s # r
      <4>1. pc'[s] = pc[s]
        BY <2>1, <3>2 DEF TypeOK
      <4> QED BY <2>1, <3>1, <4>1, FaultsCounted DEF Culprit, Made, Bereft
    <3>3. CASE s = r
      <4>1. undefiner[n] = r
        BY <2>1, <3>1, <3>3 DEF Made, Bereft, OpOK, Holding, Listing
      <4>2. CASE image[listed[r]] # NoImage
        <5>1. spent'["fault"] > 0
          BY <1>11, <2>3, <4>2, FaultsCounted DEF Confirm, NotFound, Goto, TypeOK
        <5> QED BY <2>1, <2>3, <4>1, <5>1 DEF Culprit, Bereft
      <4>3. CASE image[listed[r]] = NoImage
        <5>1. listed[r] # n /\ listed[r] # NoVolume
          BY <2>1, <4>3 DEF TypeOK, Listing
        <5>2. r \in raced
          BY <4>1, <5>1 DEF HandleOK
        <5> QED BY <2>1, <2>3, <4>1, <5>1, <5>2 DEF Culprit, Bereft
      <4> QED BY <4>2, <4>3
    <3> QED BY <3>2, <3>3
  <2> QED BY <2>1, <2>2, <2>3
<1>12. ASSUME NEW r \in Req, Fault(r) PROVE Culprit(n)'
  BY <1>0, <1>12, CulpritStays, FaultsCounted DEF Fault, Goto, Fail, TypeOK
<1>13. ASSUME NEW v \in Volume, BuildEnds(v) PROVE Culprit(n)'
  <2>1. UNCHANGED <<domain, image, localVars, spent, history>>
        /\ \A s \in Req : \/ pc'[s] = pc[s]
                          \/ /\ pc[s] = "building" /\ ask[s].op \in {"Create", "CloneImage"}
                             /\ ask[s].op = "Create" => pc'[s] = "define"
    BY <1>13 DEF BuildEnds, Waiting, OpOK
  <2>2. PICK s \in Req : Made(s, n) \/ Bereft(s, n)
    BY <2>1 DEF NoOrphan
  <2> QED BY <2>1, <2>2 DEF Culprit, Made, Bereft
<1>14. ASSUME NEW v \in Volume, BuildFails(v) PROVE Culprit(n)'
  BY <1>0, <1>14, CulpritStays, FaultsCounted DEF BuildFails, Waiting, TypeOK
<1>15. CASE Crash
  BY <1>0, <1>15, CulpritStays, FaultsCounted DEF Crash
<1>16. CASE UNCHANGED vars
  BY <1>16, CulpritStays, FaultsCounted DEF vars
<1>17. QED
  BY <1>1, <1>2, <1>3, <1>4, <1>5, <1>6, <1>7, <1>8, <1>9, <1>10, <1>11, <1>12, <1>13, <1>14,
     <1>15, <1>16
  DEF Next, Create, Destroy, Finished

(***************************************************************************)
(* Nobody but the Destroy that undefined it takes the image of a domain.   *)
(***************************************************************************)
LEMMA OwnStep ==
  TypeOK /\ UniqueOK /\ OpOK /\ BuildOK /\ OrderOK /\ Trusted' /\ [Next]_vars
    => OwnOK'
<1> SUFFICES ASSUME TypeOK, UniqueOK, OpOK, BuildOK, OrderOK, Trusted', [Next]_vars PROVE OwnOK'
  OBVIOUS
<1> USE DEF TypeOK, OpOK, BuildOK, OrderOK, Holding, Using, Listing, Ended, Maker, Volume,
    Request, Its, Trusted, Adversity, hostVars, localVars, history, OwnOK,
    PendingOK, ErasingOK, HeldOK
<1>1. ASSUME NEW r \in Req, Enter(r) PROVE OwnOK'
  BY <1>1, NobodyAssumption DEF Enter, FirstStep, Goto
<1>2. ASSUME NEW r \in Req, FreeName(r) PROVE OwnOK'
  BY <1>2, NobodyAssumption DEF FreeName, NotFound, Goto, Fail, Spend
<1>3. ASSUME NEW r \in Req, Validate(r) PROVE OwnOK'
  BY <1>3, NobodyAssumption DEF Validate, Goto, Fail
<1>4. ASSUME NEW r \in Req, FreePath(r) PROVE OwnOK'
  BY <1>4, NobodyAssumption DEF FreePath, NotFound, Goto, Fail, Spend
<1>5. ASSUME NEW r \in Req, Clone(r) PROVE OwnOK'
  BY <1>5, NobodyAssumption DEF Clone, Goto, Fail
<1>6. ASSUME NEW r \in Req, Define(r) PROVE OwnOK'
  BY <1>6, NobodyAssumption DEF Define, Goto, Fail
<1>7. ASSUME NEW r \in Req, Lookup(r) PROVE OwnOK'
  BY <1>7, NobodyAssumption DEF Lookup, Goto, Fail
<1>8. ASSUME NEW r \in Req, Paths(r) PROVE OwnOK'
  BY <1>8, NobodyAssumption DEF Paths, Goto, Fail
<1>9. ASSUME NEW r \in Req, Copy(r) PROVE OwnOK'
  BY <1>9, NobodyAssumption DEF Copy, Goto, Fail
<1>10. ASSUME NEW r \in Req, ReadPersistent(r) PROVE OwnOK'
  BY <1>10, NobodyAssumption DEF ReadPersistent, Goto, Spend
<1>11. ASSUME NEW r \in Req, Undefine(r) PROVE OwnOK'
  <2>1. /\ domain' = [domain EXCEPT ![Its(r)] = NoUUID] /\ pc' = [pc EXCEPT ![r] = "pools"]
        /\ pc[r] = "undefine" /\ UNCHANGED <<image, building, definer>>
    BY <1>11, TakesItsDomain DEF Goto
  <2> QED BY <2>1
<1>12. ASSUME NEW r \in Req, Pools(r) PROVE OwnOK'
  BY <1>12, NobodyAssumption DEF Pools, Goto, Spend
<1>13. ASSUME NEW r \in Req, Erase(r) PROVE OwnOK'
  BY <1>13, NobodyAssumption DEF Erase, CanDelete, Goto, Spend
<1>14. ASSUME NEW r \in Req, Confirm(r) PROVE OwnOK'
  BY <1>14, NobodyAssumption DEF Confirm, NotFound, Goto, Spend
<1>15. ASSUME NEW r \in Req, Fault(r) PROVE OwnOK'
  BY <1>15, NobodyAssumption DEF Fault, Goto, Fail, Spend
<1>16. ASSUME NEW v \in Volume, BuildEnds(v) PROVE OwnOK'
  BY <1>16, NobodyAssumption DEF BuildEnds, Waiting
<1>17. ASSUME NEW v \in Volume, BuildFails(v) PROVE OwnOK'
  BY <1>17, NobodyAssumption DEF BuildFails, Waiting, Spend
<1>18. CASE Crash
  BY <1>18, NobodyAssumption DEF Crash, Spend
<1>19. CASE UNCHANGED vars
  BY <1>19 DEF vars
<1>20. QED
  BY <1>1, <1>2, <1>3, <1>4, <1>5, <1>6, <1>7, <1>8, <1>9, <1>10, <1>11, <1>12,
     <1>13, <1>14, <1>15, <1>16, <1>17, <1>18, <1>19
  DEF Next, Create, Destroy, Finished

(***************************************************************************)
(* The name of an image that exists stays free for the Create that made    *)
(* it.                                                                     *)
(***************************************************************************)
LEMMA PendingStep ==
  TypeOK /\ UniqueOK /\ OpOK /\ BuildOK /\ OrderOK /\ Trusted' /\ [Next]_vars
    => PendingOK'
<1> SUFFICES ASSUME TypeOK, UniqueOK, OpOK, BuildOK, OrderOK, Trusted', [Next]_vars PROVE PendingOK'
  OBVIOUS
<1> USE DEF TypeOK, OpOK, BuildOK, OrderOK, Holding, Using, Listing, Ended, Maker, Volume,
    Request, Its, Trusted, Adversity, hostVars, localVars, history, OwnOK,
    PendingOK, ErasingOK, HeldOK, AloneOK
<1>1. ASSUME NEW r \in Req, Enter(r) PROVE PendingOK'
  BY <1>1, NobodyAssumption DEF Enter, FirstStep, Goto
<1>2. ASSUME NEW r \in Req, FreeName(r) PROVE PendingOK'
  BY <1>2, NobodyAssumption DEF FreeName, NotFound, Goto, Fail, Spend
<1>3. ASSUME NEW r \in Req, Validate(r) PROVE PendingOK'
  BY <1>3, NobodyAssumption DEF Validate, Goto, Fail
<1>4. ASSUME NEW r \in Req, FreePath(r) PROVE PendingOK'
  BY <1>4, NobodyAssumption DEF FreePath, NotFound, Goto, Fail, Spend
<1>5. ASSUME NEW r \in Req, Clone(r) PROVE PendingOK'
  BY <1>5, NobodyAssumption DEF Clone, Goto, Fail
<1>6. ASSUME NEW r \in Req, Define(r) PROVE PendingOK'
  BY <1>6, NobodyAssumption DEF Define, Goto, Fail
<1>7. ASSUME NEW r \in Req, Lookup(r) PROVE PendingOK'
  BY <1>7, NobodyAssumption DEF Lookup, Goto, Fail
<1>8. ASSUME NEW r \in Req, Paths(r) PROVE PendingOK'
  BY <1>8, NobodyAssumption DEF Paths, Goto, Fail
<1>9. ASSUME NEW r \in Req, Copy(r) PROVE PendingOK'
  BY <1>9, NobodyAssumption DEF Copy, Goto, Fail
<1>10. ASSUME NEW r \in Req, ReadPersistent(r) PROVE PendingOK'
  BY <1>10, NobodyAssumption DEF ReadPersistent, Goto, Spend
<1>11. ASSUME NEW r \in Req, Undefine(r) PROVE PendingOK'
  BY <1>11, TakesItsDomain, NobodyAssumption DEF Overtaken, Goto
<1>12. ASSUME NEW r \in Req, Pools(r) PROVE PendingOK'
  BY <1>12, NobodyAssumption DEF Pools, Goto, Spend
<1>13. ASSUME NEW r \in Req, Erase(r) PROVE PendingOK'
  BY <1>13, NobodyAssumption DEF Erase, CanDelete, Goto, Spend
<1>14. ASSUME NEW r \in Req, Confirm(r) PROVE PendingOK'
  BY <1>14, NobodyAssumption DEF Confirm, NotFound, Goto, Spend
<1>15. ASSUME NEW r \in Req, Fault(r) PROVE PendingOK'
  BY <1>15, NobodyAssumption DEF Fault, Goto, Fail, Spend
<1>16. ASSUME NEW v \in Volume, BuildEnds(v) PROVE PendingOK'
  BY <1>16, NobodyAssumption DEF BuildEnds, Waiting
<1>17. ASSUME NEW v \in Volume, BuildFails(v) PROVE PendingOK'
  BY <1>17, NobodyAssumption DEF BuildFails, Waiting, Spend
<1>18. CASE Crash
  BY <1>18, NobodyAssumption DEF Crash, Spend
<1>19. CASE UNCHANGED vars
  BY <1>19 DEF vars
<1>20. QED
  BY <1>1, <1>2, <1>3, <1>4, <1>5, <1>6, <1>7, <1>8, <1>9, <1>10, <1>11, <1>12,
     <1>13, <1>14, <1>15, <1>16, <1>17, <1>18, <1>19
  DEF Next, Create, Destroy, Finished

(***************************************************************************)
(* A Destroy holds its domain until it or another one undefines it.        *)
(***************************************************************************)
LEMMA HeldStep ==
  TypeOK /\ UniqueOK /\ OrderOK /\ Trusted' /\ TypeOK' /\ HandleOK' /\ [Next]_vars
    => HeldOK'
<1> SUFFICES ASSUME TypeOK, UniqueOK, OrderOK, Trusted', TypeOK', HandleOK', [Next]_vars
             PROVE HeldOK'
  OBVIOUS
<1> DEFINE Told == \A q \in Req : pc[q] = "undefine" => wasPersistent[q]
<1>0. SUFFICES Told'
  BY DEF HeldOK, HandleOK, TypeOK, Trusted, Using, Listing
<1> USE DEF TypeOK, OrderOK, Holding, Using, Listing, Ended, Request, Its, Trusted,
    Adversity, hostVars, localVars, history, HeldOK
<1>1. ASSUME NEW r \in Req, Enter(r) PROVE Told'
  BY <1>1 DEF Enter, FirstStep, Goto
<1>2. ASSUME NEW r \in Req, FreeName(r) PROVE Told'
  BY <1>2 DEF FreeName, NotFound, Goto, Fail, Spend
<1>3. ASSUME NEW r \in Req, Validate(r) PROVE Told'
  BY <1>3 DEF Validate, Goto, Fail
<1>4. ASSUME NEW r \in Req, FreePath(r) PROVE Told'
  BY <1>4 DEF FreePath, NotFound, Goto, Fail, Spend
<1>5. ASSUME NEW r \in Req, Clone(r) PROVE Told'
  BY <1>5 DEF Clone, Goto, Fail
<1>6. ASSUME NEW r \in Req, Define(r) PROVE Told'
  BY <1>6 DEF Define, Goto, Fail
<1>7. ASSUME NEW r \in Req, Lookup(r) PROVE Told'
  BY <1>7 DEF Lookup, Goto, Fail
<1>8. ASSUME NEW r \in Req, Paths(r) PROVE Told'
  BY <1>8 DEF Paths, Goto, Fail
<1>9. ASSUME NEW r \in Req, Copy(r) PROVE Told'
  BY <1>9 DEF Copy, Goto, Fail
<1>10. ASSUME NEW r \in Req, ReadPersistent(r) PROVE Told'
  <2>1. pc[r] = "persist" /\ Its(r) \in Name /\ Alive(r)
    BY <1>10 DEF ReadPersistent, Alive
  <2>2. wasPersistent' = [wasPersistent EXCEPT ![r] = TRUE]
    <3>1. PICK answer \in BOOLEAN :
            /\ wasPersistent' = [wasPersistent EXCEPT ![r] = answer]
            /\ answer = Alive(r) \/ Spend("misread")
      BY <1>10 DEF ReadPersistent
    <3>2. ~Spend("misread")
      BY DEF Spend
    <3> QED BY <2>1, <3>1, <3>2
  <2> QED BY <1>10, <2>2 DEF ReadPersistent, Goto
<1>11. ASSUME NEW r \in Req, Undefine(r) PROVE Told'
  BY <1>11, TakesItsDomain DEF Overtaken, Goto
<1>12. ASSUME NEW r \in Req, Pools(r) PROVE Told'
  BY <1>12 DEF Pools, Goto, Spend
<1>13. ASSUME NEW r \in Req, Erase(r) PROVE Told'
  BY <1>13 DEF Erase, CanDelete, Goto, Spend
<1>14. ASSUME NEW r \in Req, Confirm(r) PROVE Told'
  BY <1>14 DEF Confirm, NotFound, Goto, Spend
<1>15. ASSUME NEW r \in Req, Fault(r) PROVE Told'
  BY <1>15 DEF Fault, Goto, Fail, Spend
<1>16. ASSUME NEW v \in Volume, BuildEnds(v) PROVE Told'
  BY <1>16 DEF BuildEnds, Waiting
<1>17. ASSUME NEW v \in Volume, BuildFails(v) PROVE Told'
  BY <1>17 DEF BuildFails, Waiting, Spend
<1>18. CASE Crash
  BY <1>18 DEF Crash, Spend
<1>19. CASE UNCHANGED vars
  BY <1>19 DEF vars
<1>20. QED
  BY <1>1, <1>2, <1>3, <1>4, <1>5, <1>6, <1>7, <1>8, <1>9, <1>10, <1>11, <1>12,
     <1>13, <1>14, <1>15, <1>16, <1>17, <1>18, <1>19
  DEF Next, Create, Destroy, Finished

(***************************************************************************)
(* While an image is there nobody makes another domain of its name.        *)
(***************************************************************************)
LEMMA ErasingStep ==
  TypeOK /\ UniqueOK /\ OpOK /\ BuildOK /\ OrderOK /\ Trusted' /\ [Next]_vars
    => ErasingOK'
<1> SUFFICES ASSUME TypeOK, UniqueOK, OpOK, BuildOK, OrderOK, Trusted', [Next]_vars PROVE ErasingOK'
  OBVIOUS
<1> USE DEF TypeOK, OpOK, BuildOK, OrderOK, Holding, Using, Listing, Ended, Maker, Volume,
    Request, Its, Trusted, Adversity, hostVars, localVars, history, ErasingOK,
    AloneOK, OwnOK, HeldOK
<1>1. ASSUME NEW r \in Req, Enter(r) PROVE ErasingOK'
  BY <1>1, NobodyAssumption DEF Enter, FirstStep, Goto
<1>2. ASSUME NEW r \in Req, FreeName(r) PROVE ErasingOK'
  BY <1>2, NobodyAssumption DEF FreeName, NotFound, Goto, Fail, Spend
<1>3. ASSUME NEW r \in Req, Validate(r) PROVE ErasingOK'
  BY <1>3, NobodyAssumption DEF Validate, Goto, Fail
<1>4. ASSUME NEW r \in Req, FreePath(r) PROVE ErasingOK'
  BY <1>4, NobodyAssumption DEF FreePath, NotFound, Goto, Fail, Spend
<1>5. ASSUME NEW r \in Req, Clone(r) PROVE ErasingOK'
  BY <1>5, NobodyAssumption DEF Clone, Goto, Fail
<1>6. ASSUME NEW r \in Req, Define(r) PROVE ErasingOK'
  BY <1>6, NobodyAssumption DEF Define, Goto, Fail
<1>7. ASSUME NEW r \in Req, Lookup(r) PROVE ErasingOK'
  BY <1>7, NobodyAssumption DEF Lookup, Goto, Fail
<1>8. ASSUME NEW r \in Req, Paths(r) PROVE ErasingOK'
  BY <1>8, NobodyAssumption DEF Paths, Goto, Fail
<1>9. ASSUME NEW r \in Req, Copy(r) PROVE ErasingOK'
  BY <1>9, NobodyAssumption DEF Copy, Goto, Fail
<1>10. ASSUME NEW r \in Req, ReadPersistent(r) PROVE ErasingOK'
  BY <1>10, NobodyAssumption DEF ReadPersistent, Goto, Spend
<1>11. ASSUME NEW r \in Req, Undefine(r) PROVE ErasingOK'
  BY <1>11, TakesItsDomain, NobodyAssumption DEF Overtaken, Goto
<1>12. ASSUME NEW r \in Req, Pools(r) PROVE ErasingOK'
  BY <1>12, NobodyAssumption DEF Pools, Goto, Spend
<1>13. ASSUME NEW r \in Req, Erase(r) PROVE ErasingOK'
  BY <1>13, NobodyAssumption DEF Erase, CanDelete, Goto, Spend
<1>14. ASSUME NEW r \in Req, Confirm(r) PROVE ErasingOK'
  BY <1>14, NobodyAssumption DEF Confirm, NotFound, Goto, Spend
<1>15. ASSUME NEW r \in Req, Fault(r) PROVE ErasingOK'
  BY <1>15, NobodyAssumption DEF Fault, Goto, Fail, Spend
<1>16. ASSUME NEW v \in Volume, BuildEnds(v) PROVE ErasingOK'
  BY <1>16, NobodyAssumption DEF BuildEnds, Waiting
<1>17. ASSUME NEW v \in Volume, BuildFails(v) PROVE ErasingOK'
  BY <1>17, NobodyAssumption DEF BuildFails, Waiting, Spend
<1>18. CASE Crash
  BY <1>18, NobodyAssumption DEF Crash, Spend
<1>19. CASE UNCHANGED vars
  BY <1>19 DEF vars
<1>20. QED
  BY <1>1, <1>2, <1>3, <1>4, <1>5, <1>6, <1>7, <1>8, <1>9, <1>10, <1>11, <1>12,
     <1>13, <1>14, <1>15, <1>16, <1>17, <1>18, <1>19
  DEF Next, Create, Destroy, Finished

(***************************************************************************)
(* Nobody gets hold of a name while its image is being deleted.            *)
(***************************************************************************)
LEMMA AloneStep ==
  TypeOK /\ UniqueOK /\ OpOK /\ BuildOK /\ OrderOK /\ Trusted' /\ [Next]_vars
    => AloneOK'
<1> SUFFICES ASSUME TypeOK, UniqueOK, OpOK, BuildOK, OrderOK, Trusted', [Next]_vars PROVE AloneOK'
  OBVIOUS
<1> USE DEF TypeOK, OpOK, BuildOK, OrderOK, Holding, Using, Listing, Ended, Maker, Volume,
    Request, Its, Trusted, Adversity, hostVars, localVars, history, ErasingOK,
    AloneOK, OwnOK, PendingOK, HeldOK, Overtaken
<1>1. ASSUME NEW r \in Req, Enter(r) PROVE AloneOK'
  BY <1>1, NobodyAssumption DEF Enter, FirstStep, Goto
<1>2. ASSUME NEW r \in Req, FreeName(r) PROVE AloneOK'
  BY <1>2, NobodyAssumption DEF FreeName, NotFound, Goto, Fail, Spend
<1>3. ASSUME NEW r \in Req, Validate(r) PROVE AloneOK'
  BY <1>3, NobodyAssumption DEF Validate, Goto, Fail
<1>4. ASSUME NEW r \in Req, FreePath(r) PROVE AloneOK'
  BY <1>4, NobodyAssumption DEF FreePath, NotFound, Goto, Fail, Spend
<1>5. ASSUME NEW r \in Req, Clone(r) PROVE AloneOK'
  BY <1>5, NobodyAssumption DEF Clone, Goto, Fail
<1>6. ASSUME NEW r \in Req, Define(r) PROVE AloneOK'
  BY <1>6, NobodyAssumption DEF Define, Goto, Fail
<1>7. ASSUME NEW r \in Req, Lookup(r) PROVE AloneOK'
  BY <1>7, NobodyAssumption DEF Lookup, Goto, Fail
<1>8. ASSUME NEW r \in Req, Paths(r) PROVE AloneOK'
  BY <1>8, NobodyAssumption DEF Paths, Goto, Fail
<1>9. ASSUME NEW r \in Req, Copy(r) PROVE AloneOK'
  BY <1>9, NobodyAssumption DEF Copy, Goto, Fail
<1>10. ASSUME NEW r \in Req, ReadPersistent(r) PROVE AloneOK'
  BY <1>10, NobodyAssumption DEF ReadPersistent, Goto, Spend
<1>11. ASSUME NEW r \in Req, Undefine(r) PROVE AloneOK'
  BY <1>11, TakesItsDomain, NobodyAssumption DEF Overtaken, Goto
<1>12. ASSUME NEW r \in Req, Pools(r) PROVE AloneOK'
  BY <1>12, NobodyAssumption DEF Pools, Goto, Spend
<1>13. ASSUME NEW r \in Req, Erase(r) PROVE AloneOK'
  BY <1>13, NobodyAssumption DEF Erase, CanDelete, Goto, Spend
<1>14. ASSUME NEW r \in Req, Confirm(r) PROVE AloneOK'
  BY <1>14, NobodyAssumption DEF Confirm, NotFound, Goto, Spend
<1>15. ASSUME NEW r \in Req, Fault(r) PROVE AloneOK'
  BY <1>15, NobodyAssumption DEF Fault, Goto, Fail, Spend
<1>16. ASSUME NEW v \in Volume, BuildEnds(v) PROVE AloneOK'
  BY <1>16, NobodyAssumption DEF BuildEnds, Waiting
<1>17. ASSUME NEW v \in Volume, BuildFails(v) PROVE AloneOK'
  BY <1>17, NobodyAssumption DEF BuildFails, Waiting, Spend
<1>18. CASE Crash
  BY <1>18, NobodyAssumption DEF Crash, Spend
<1>19. CASE UNCHANGED vars
  BY <1>19 DEF vars
<1>20. QED
  BY <1>1, <1>2, <1>3, <1>4, <1>5, <1>6, <1>7, <1>8, <1>9, <1>10, <1>11, <1>12,
     <1>13, <1>14, <1>15, <1>16, <1>17, <1>18, <1>19
  DEF Next, Create, Destroy, Finished

(***************************************************************************)
(* The image copied is the image of the domain until it is deleted.        *)
(***************************************************************************)
LEMMA CopiedStep ==
  TypeOK /\ UniqueOK /\ OpOK /\ BuildOK /\ OrderOK /\ Trusted' /\ [Next]_vars
    => CopiedOK'
<1> SUFFICES ASSUME TypeOK, UniqueOK, OpOK, BuildOK, OrderOK, Trusted', [Next]_vars PROVE CopiedOK'
  OBVIOUS
<1> USE DEF TypeOK, OpOK, BuildOK, OrderOK, Holding, Using, Listing, Ended, Maker, Volume,
    Request, Its, Trusted, Adversity, hostVars, localVars, history, CopiedOK,
    OwnOK, PendingOK, ErasingOK, AloneOK, HeldOK
<1>1. ASSUME NEW r \in Req, Enter(r) PROVE CopiedOK'
  BY <1>1, NobodyAssumption DEF Enter, FirstStep, Goto
<1>2. ASSUME NEW r \in Req, FreeName(r) PROVE CopiedOK'
  BY <1>2, NobodyAssumption DEF FreeName, NotFound, Goto, Fail, Spend
<1>3. ASSUME NEW r \in Req, Validate(r) PROVE CopiedOK'
  BY <1>3, NobodyAssumption DEF Validate, Goto, Fail
<1>4. ASSUME NEW r \in Req, FreePath(r) PROVE CopiedOK'
  BY <1>4, NobodyAssumption DEF FreePath, NotFound, Goto, Fail, Spend
<1>5. ASSUME NEW r \in Req, Clone(r) PROVE CopiedOK'
  BY <1>5, NobodyAssumption DEF Clone, Goto, Fail
<1>6. ASSUME NEW r \in Req, Define(r) PROVE CopiedOK'
  BY <1>6, NobodyAssumption DEF Define, Goto, Fail
<1>7. ASSUME NEW r \in Req, Lookup(r) PROVE CopiedOK'
  BY <1>7, NobodyAssumption DEF Lookup, Goto, Fail
<1>8. ASSUME NEW r \in Req, Paths(r) PROVE CopiedOK'
  BY <1>8, NobodyAssumption DEF Paths, Goto, Fail
<1>9. ASSUME NEW r \in Req, Copy(r) PROVE CopiedOK'
  BY <1>9, NobodyAssumption DEF Copy, Goto, Fail
<1>10. ASSUME NEW r \in Req, ReadPersistent(r) PROVE CopiedOK'
  BY <1>10, NobodyAssumption DEF ReadPersistent, Goto, Spend
<1>11. ASSUME NEW r \in Req, Undefine(r) PROVE CopiedOK'
  BY <1>11, TakesItsDomain, NobodyAssumption DEF Overtaken, Goto
<1>12. ASSUME NEW r \in Req, Pools(r) PROVE CopiedOK'
  BY <1>12, NobodyAssumption DEF Pools, Goto, Spend
<1>13. ASSUME NEW r \in Req, Erase(r) PROVE CopiedOK'
  BY <1>13, NobodyAssumption DEF Erase, CanDelete, Goto, Spend
<1>14. ASSUME NEW r \in Req, Confirm(r) PROVE CopiedOK'
  BY <1>14, NobodyAssumption DEF Confirm, NotFound, Goto, Spend
<1>15. ASSUME NEW r \in Req, Fault(r) PROVE CopiedOK'
  BY <1>15, NobodyAssumption DEF Fault, Goto, Fail, Spend
<1>16. ASSUME NEW v \in Volume, BuildEnds(v) PROVE CopiedOK'
  BY <1>16, NobodyAssumption DEF BuildEnds, Waiting
<1>17. ASSUME NEW v \in Volume, BuildFails(v) PROVE CopiedOK'
  BY <1>17, NobodyAssumption DEF BuildFails, Waiting, Spend
<1>18. CASE Crash
  BY <1>18, NobodyAssumption DEF Crash, Spend
<1>19. CASE UNCHANGED vars
  BY <1>19 DEF vars
<1>20. QED
  BY <1>1, <1>2, <1>3, <1>4, <1>5, <1>6, <1>7, <1>8, <1>9, <1>10, <1>11, <1>12,
     <1>13, <1>14, <1>15, <1>16, <1>17, <1>18, <1>19
  DEF Next, Create, Destroy, Finished

-----------------------------------------------------------------------------
(***************************************************************************)
(* IInv holds throughout every behaviour.                                  *)
(***************************************************************************)
LEMMA Invariance == Safe => []IInv
<1>1. Init => IInv
  <2> SUFFICES ASSUME Init PROVE IInv
    OBVIOUS
  <2> USE NobodyAssumption
  <2>1. ask \in [Req -> Request]
    BY AdmissionPlanAssumption DEF Init
  <2>2. TypeOK
    BY <2>1 DEF Init, TypeOK, Label, Holding, Using, Listing, Maker, Volume
  <2>3. OpOK /\ UniqueOK /\ HandleOK /\ MakerOK /\ BuildOK
    BY DEF Init, OpOK, UniqueOK, HandleOK, MakerOK, BuildOK, Holding, Using, Listing, Volume, Maker
  <2>4. NoOrphan
    BY DEF Init, NoOrphan, Volume
  <2>5. OrderOK
    BY DEF Init, OrderOK, OwnOK, PendingOK, HeldOK, ErasingOK, AloneOK, CopiedOK, Using, Listing,
           Volume
  <2>6. QED
    BY <2>2, <2>3, <2>4, <2>5 DEF IInv
<1>2. IInv /\ [Next]_vars => IInv'
  <2> SUFFICES ASSUME IInv, [Next]_vars PROVE IInv'
    OBVIOUS
  <2>1. (TypeOK /\ OpOK /\ UniqueOK /\ HandleOK /\ MakerOK /\ BuildOK /\ NoOrphan)'
    BY TypeStep, HandleStep, FormStep, OrphanStep DEF IInv
  <2>2. ASSUME Trusted' PROVE OrderOK'
    <3>1. OrderOK
      BY <2>2, TrustStep DEF IInv
    <3>2. OwnOK' /\ PendingOK' /\ HeldOK'
      BY <2>1, <2>2, <3>1, OwnStep, PendingStep, HeldStep DEF IInv
    <3>3. ErasingOK' /\ AloneOK' /\ CopiedOK'
      BY <2>2, <3>1, ErasingStep, AloneStep, CopiedStep DEF IInv
    <3>4. QED
      BY <3>2, <3>3 DEF OrderOK
  <2>3. QED
    BY <2>1, <2>2 DEF IInv
<1>3. QED
  BY <1>1, <1>2, PTL DEF Safe

(***************************************************************************)
(* Every variable keeps its type.                                          *)
(***************************************************************************)
THEOREM TypeCorrect == Safe => []TypeOK
<1>1. IInv => TypeOK
  BY DEF IInv
<1>2. QED
  BY <1>1, Invariance, PTL

(***************************************************************************)
(* However many Creates, CloneImages and Destroys there are, a domain has  *)
(* the image its own Create made.                                          *)
(***************************************************************************)
THEOREM ImagesBelong == Safe => []DomainHasItsImage
<1>1. IInv => DomainHasItsImage
  BY DEF IInv, OrderOK, OwnOK, DomainHasItsImage
<1>2. QED
  BY <1>1, Invariance, PTL

(***************************************************************************)
(* No Create overwrites the definition of a domain.                        *)
(***************************************************************************)
THEOREM DefinedOnce == Safe => []NoRedefinition
<1>1. IInv => NoRedefinition
  BY DEF IInv, OrderOK, PendingOK, NoRedefinition
<1>2. QED
  BY <1>1, Invariance, PTL

(***************************************************************************)
(* Every image that is left over is left by a request without success.     *)
(***************************************************************************)
THEOREM OrphansAccountedFor == Safe => []NoOrphan
<1>1. IInv => NoOrphan
  BY DEF IInv
<1>2. QED
  BY <1>1, Invariance, PTL

(***************************************************************************)
(* Destroy answers TRUE of a domain that is gone.                          *)
(***************************************************************************)
THEOREM DestroyedGone == Safe => DestroyedIsGone
<1> DEFINE Gone(r) ==
      Trusted /\ pc[r] = "confirm" /\ pc'[r] = "ok" /\ UNCHANGED spent
        => domain[Its(r)] = NoUUID
<1>1. IInv /\ [Next]_vars => [\A r \in Req : Gone(r)]_vars
  <2> SUFFICES ASSUME IInv, [Next]_vars, NEW r \in Req, Trusted,
                      pc[r] = "confirm", pc'[r] = "ok", UNCHANGED spent
               PROVE  domain[Its(r)] = NoUUID
    OBVIOUS
  <2>1. TypeOK /\ OwnOK /\ listed[r] = Its(r)
    BY DEF IInv, OrderOK, HeldOK, Listing
  <2>2. Confirm(r)
    <3>1. ASSUME NEW s \in Req, s # r, Create(s) \/ Destroy(s) \/ Enter(s) \/ Fault(s) PROVE FALSE
      <4>1. pc'[r] = pc[r]
        BY <2>1, <3>1 DEF TypeOK, Create, FreeName, Validate, FreePath, Clone, Define, Destroy,
           Lookup, Paths, Copy, ReadPersistent, Undefine, Pools, Erase, Confirm, Enter, Fault,
           Goto, Fail
      <4>2. QED
        BY <4>1
    <3>2. ~(Create(r) \/ Enter(r) \/ Fault(r))
      BY DEF Create, FreeName, Validate, FreePath, Clone, Define, Enter, Fault
    <3>3. ASSUME NEW v \in Volume, BuildEnds(v) \/ BuildFails(v) PROVE FALSE
      BY <3>3 DEF BuildEnds, BuildFails, Waiting
    <3>4. ~Crash /\ ~UNCHANGED vars
      BY <2>1 DEF Crash, vars, Ended, TypeOK
    <3>5. Destroy(r)
      BY <3>1, <3>2, <3>3, <3>4 DEF Next, Finished
    <3>6. QED
      BY <3>5 DEF Destroy, Lookup, Paths, Copy, ReadPersistent, Undefine, Pools, Erase
  <2>3. image[Its(r)] = NoImage
    <3>1. ~Spend("fault")
      BY <2>1 DEF TypeOK, Spend, Adversity
    <3>2. QED
      BY <2>1, <2>2, <3>1 DEF TypeOK, Confirm, NotFound, Goto
  <2>4. Its(r) \in Name
    BY <2>1 DEF TypeOK, Request, Its
  <2>5. QED
    BY <2>1, <2>3, <2>4, NobodyAssumption DEF TypeOK, OwnOK
<1>2. QED
  BY <1>1, Invariance, PTL DEF Safe, DestroyedIsGone

(***************************************************************************)
(* What Destroy deletes it has copied.                                     *)
(***************************************************************************)
THEOREM ErasedSaved == Safe => ErasedWasSaved
<1> DEFINE Kept(n) ==
      Trusted /\ building[n] = NoVolume /\ image[n] # NoImage /\ image'[n] = NoImage
        => <<n, image[n]>> \in saved
<1>1. IInv /\ [Next]_vars => [\A n \in Name : Kept(n)]_vars
  <2> SUFFICES ASSUME IInv, [Next]_vars, NEW n \in Name, Trusted,
                      building[n] = NoVolume, image[n] # NoImage, image'[n] = NoImage
               PROVE  <<n, image[n]>> \in saved
    OBVIOUS
  <2>1. TypeOK /\ CopiedOK /\ HeldOK
    BY DEF IInv, OrderOK
  <2>2. ASSUME NEW r \in Req, Enter(r) \/ Create(r) \/ Fault(r) PROVE FALSE
    <3>1. CASE Clone(r)
      BY <2>1, <3>1, NobodyAssumption DEF TypeOK, Clone, hostVars, Maker, Volume
    <3>2. CASE ~Clone(r)
      BY <2>2, <3>2 DEF Enter, Create, FreeName, Validate, FreePath, Define, Fault, hostVars
    <3>3. QED
      BY <3>1, <3>2
  <2>3. ASSUME NEW r \in Req, Destroy(r) PROVE pc[r] = "erase" /\ Its(r) = n
    <3>1. Erase(r)
      BY <2>3 DEF Destroy, Lookup, Paths, Copy, ReadPersistent, Undefine, Pools, Confirm, hostVars
    <3>2. QED
      BY <2>1, <3>1 DEF TypeOK, HeldOK, Erase, Volume, Holding, Listing
  <2>4. ASSUME NEW v \in Volume, BuildEnds(v) \/ BuildFails(v) PROVE FALSE
    BY <2>1, <2>4 DEF TypeOK, BuildEnds, BuildFails, Volume
  <2>5. ~Crash /\ ~UNCHANGED vars
    BY DEF Crash, vars, hostVars
  <2>6. QED
    BY <2>1, <2>2, <2>3, <2>4, <2>5 DEF Next, Finished, CopiedOK
<1>2. QED
  BY <1>1, Invariance, PTL DEF Safe, ErasedWasSaved
=============================================================================
