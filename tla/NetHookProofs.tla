---------------------------- MODULE NetHookProofs ----------------------------
(***************************************************************************)
(* Safety of NetHook for any requests, rates, metadata, interfaces and     *)
(* budgets.                                                                *)
(***************************************************************************)
EXTENDS NetHook, TLAPS

(***************************************************************************)
(* The domain, the hook and the variables of the hook go together.         *)
(***************************************************************************)
HookOK ==
  /\ on = "off" <=> hpc = "idle"
  /\ on = "on" <=> hpc = "done"
  /\ hpc \in {"idle", "read", "done"} => at = 1 /\ found = {}
  /\ hpc # "apply" => left = {}
  /\ left # {} => at \in Nic
  /\ hpc = "lookup" => at # 0
  /\ hpc = "apply" => at <= Len(Devices)

(***************************************************************************)
(* What is missing is written with a default: two metadata are the same to *)
(* SetNetworkSpeed if they agree but for that, and for the rate.           *)
(***************************************************************************)
Filled(m) == [f \in Field |-> IF m[f] = "" THEN Default[f] ELSE m[f]]
Alike(m, n) == \A f \in Field \ {"max_tx_rate"} : Filled(m)[f] = Filled(n)[f]

(***************************************************************************)
(* A request that is not overtaken writes to a domain that is off, on the  *)
(* grounds of metadata that differ from the stored ones in nothing but     *)
(* what other requests like it have written.                               *)
(***************************************************************************)
GroundsOK ==
  \A r \in Req \ raced :
    /\ pc[r] \in {"get", "set"} => on = "off"
    /\ pc[r] = "set" => Readable(got[r]) /\ Alike(got[r], stored)

SpeedOK == \A r \in Req : pc[r] # "idle" => speed[r] \in Speed

(***************************************************************************)
(* So the stored metadata say what was asked for, and those a domain is    *)
(* started with what had been asked for by then.                           *)
(***************************************************************************)
PromiseOK ==
  /\ promised = Request(stored)
  /\ on = "starting" => due = Request(live)
  /\ hpc \in {"lookup", "apply"} => due = meta

(***************************************************************************)
(* The hook has applied what is due to the interfaces it has been at, and  *)
(* to this one all that is not left.                                       *)
(***************************************************************************)
Settled(i, f) == <<i, f>> \in failed \/ due[f] = "" \/ vf[i][f] = due[f]

ProgressOK ==
  /\ hpc = "lookup" => \A i \in Ours : i < at => i \in found \/ \A f \in Field : Settled(i, f)
  /\ hpc = "apply" => \A i \in Ours :
       \/ \A f \in Field : Settled(i, f)
       \/ i \in found /\ (i < at => \A f \in Field : Settled(i, f))
                      /\ (i = at => \A f \in Field \ left : Settled(i, f))
  /\ hpc = "done" /\ Lower => \A i \in Ours : \A f \in Field : Settled(i, f)

IInv == TypeOK /\ HookOK /\ SpeedOK /\ GroundsOK /\ PromiseOK /\ ProgressOK

-----------------------------------------------------------------------------
(***************************************************************************)
(* Metadata.                                                               *)
(***************************************************************************)
LEMMA DefaultTyped == Default \in Metadata /\ NoMetadata \in Metadata /\ Foreign \in Metadata
<1>1. \A f \in Field : Default[f] \in Text
  BY TextAssumption DEF Default
<1>2. Default \in Metadata
  BY <1>1 DEF Default, Metadata
<1>3. NoMetadata \in Metadata /\ Foreign \in Metadata
  BY TextAssumption DEF NoMetadata, Foreign, Metadata
<1> QED BY <1>2, <1>3

LEMMA UnderstoodTyped ==
  ASSUME NEW m \in Metadata
  PROVE  Understood(m) \in Metadata /\ Request(m) \in Metadata
<1>1. \A f \in Field : Understood(m)[f] \in Text
  BY DefaultTyped, TextAssumption DEF Understood, Metadata
<1>2. Understood(m) \in Metadata
  BY <1>1 DEF Understood, Metadata
<1> QED BY <1>2, DefaultTyped DEF Request

LEMMA RewrittenTyped ==
  ASSUME NEW m \in Metadata, NEW s \in Text
  PROVE  Rewritten(m, s) \in Metadata
BY DefaultTyped DEF Rewritten, Metadata

(***************************************************************************)
(* To rewrite metadata is to rewrite what they ask for.                    *)
(***************************************************************************)
LEMMA RewrittenRequest ==
  ASSUME NEW m \in Metadata, NEW n \in Metadata, NEW s \in Speed, Readable(m), Alike(m, n)
  PROVE  Request(Rewritten(m, s)) = Rewritten(Request(n), s)
<1>1. s \in Text /\ s # "" /\ s # "bad"
  BY SpeedAssumption
<1>2. /\ Rewritten(m, s)["max_tx_rate"] = s
      /\ \A f \in Field \ {"max_tx_rate"} : Rewritten(m, s)[f] = Filled(n)[f]
  BY DEF Rewritten, Alike, Filled, Field, Number
<1>3. ~Empty(Rewritten(m, s))
  BY <1>1, <1>2 DEF Empty, Field, Number
<1>4. Filled(n)["qos"] # "bad"
  <2>1. m["qos"] # "bad" /\ Filled(m)["qos"] = Filled(n)["qos"]
    BY DEF Readable, Alike, Number, Field
  <2> QED BY <2>1 DEF Filled, Default, Field, Number
<1>5. ASSUME NEW f \in Field
      PROVE  Understood(Rewritten(m, s))[f] = Rewritten(Request(n), s)[f]
  <2>1. CASE f = "max_tx_rate"
    BY <1>1, <1>2, <2>1 DEF Understood, Rewritten
  <2>2. CASE f = "qos"
    <3>1. n["qos"] # "bad"
      BY <1>4 DEF Filled, Field, Number
    <3> QED BY <1>2, <2>2, <3>1
            DEF Understood, Rewritten, Filled, Default, Request, NoMetadata, Empty, Field, Number
  <2>3. CASE f \in Switch
    <3>1. f \notin Number /\ f # "max_tx_rate" /\ Default[f] # "" /\ Default[f] # "bad"
      BY <2>3 DEF Switch, Number, Default, Field
    <3>2. Understood(Rewritten(m, s))[f] =
            IF n[f] = "" \/ n[f] = "bad" THEN Default[f] ELSE n[f]
      BY <1>2, <3>1 DEF Understood, Filled
    <3>3. Request(n)[f] = IF n[f] = "bad" THEN Default[f] ELSE n[f]
      BY <3>1 DEF Request, Understood, NoMetadata, Empty
    <3> QED BY <3>1, <3>2, <3>3 DEF Rewritten
  <2> QED BY <2>1, <2>2, <2>3 DEF Field, Number
<1> QED BY <1>3, <1>5 DEF Request, Understood, Rewritten

(***************************************************************************)
(* Metadata rewritten with another rate are alike.                         *)
(***************************************************************************)
LEMMA RewrittenAlike ==
  ASSUME NEW m \in Metadata, NEW k \in Metadata, NEW n \in Metadata, NEW s,
         Alike(m, n), Alike(k, n)
  PROVE  Alike(k, Rewritten(m, s))
<1>1. ASSUME NEW f \in Field \ {"max_tx_rate"}
      PROVE  Filled(Rewritten(m, s))[f] = Filled(m)[f]
  BY DEF Filled, Rewritten
<1> QED BY <1>1 DEF Alike

-----------------------------------------------------------------------------
(***************************************************************************)
(* The steps of the hook and of the requests, one by one.                  *)
(***************************************************************************)
LEMMA Actions ==
  ASSUME Next
  PROVE  \/ \E r \in Req : Enter(r) \/ Jobs(r) \/ Inactive(r) \/ Get(r) \/ Set(r) \/ Fault(r)
         \/ Read \/ Lookup \/ LookedUp \/ Collect
         \/ \E f \in Field : Command(f)
         \/ PowerOn \/ PowerOff \/ Edit
BY DEF Next, SetNetworkSpeed, Hook

LEMMA NicTyped == Nic = 1..Len(Devices) /\ Len(Devices) \in Nat /\ Ours \subseteq Nic
BY DevicesAssumption DEF Nic, Ours

LEMMA SpendTyped ==
  ASSUME TypeOK, NEW a \in Adversity, Spend(a)
  PROVE  spent' \in [Adversity -> Nat]
<1>1. spent[a] + 1 \in Nat
  BY DEF TypeOK
<1> QED BY <1>1 DEF TypeOK, Spend

LEMMA TypeStep ==
  ASSUME TypeOK, HookOK, [Next]_netVars
  PROVE  TypeOK'
<1> USE DEF TypeOK, domainVars, requestVars, hookVars, historyVars
<1>1. CASE UNCHANGED netVars
  BY <1>1 DEF netVars
<1>2. ASSUME NEW r \in Req, Enter(r) \/ Jobs(r)
      PROVE  TypeOK'
  BY <1>2, SpeedAssumption DEF Enter, Jobs, Goto, Ended
<1>12. ASSUME NEW r \in Req, Inactive(r) \/ Fault(r)
      PROVE  TypeOK'
  <2>1. spent' \in [Adversity -> Nat]
    BY <1>12, SpendTyped DEF Inactive, Fault, Adversity
  <2> QED BY <1>12, <2>1 DEF Inactive, Fault, Goto, Ended
<1>3. ASSUME NEW r \in Req, Get(r)
      PROVE  TypeOK'
  BY <1>3 DEF Get, Goto, CurrentMetadata, Ended
<1>4. ASSUME NEW r \in Req, Set(r)
      PROVE  TypeOK'
  <2>1. Rewritten(got[r], speed[r]) \in Metadata /\ Rewritten(promised, speed[r]) \in Metadata
    BY RewrittenTyped
  <2>2. stored' \in Metadata /\ live' \in Metadata
    BY <1>4, <2>1 DEF Set
  <2>3. promised' \in Metadata
    BY <1>4, <2>1, <2>2, UnderstoodTyped DEF Set
  <2> QED BY <1>4, <2>2, <2>3, DefaultTyped DEF Set, Goto, Ended
<1>5. CASE Read
  <2>1. spent' \in [Adversity -> Nat]
    BY <1>5, SpendTyped DEF Read, Adversity
  <2>2. failed' \subseteq Nic \X Field
    BY <1>5, NicTyped DEF Read
  <2>3. Understood(live) \in Metadata
    BY UnderstoodTyped
  <2> QED BY <1>5, <2>1, <2>2, <2>3, DefaultTyped DEF Read, Exit
<1>6. CASE Lookup \/ LookedUp
  BY <1>6 DEF Lookup, LookedUp, Spend, Adversity
<1>7. CASE Collect
  BY <1>7, DefaultTyped DEF Collect, Exit
<1>8. ASSUME NEW f \in Field, Command(f)
      PROVE  TypeOK'
  <2>1. at \in Nic
    BY <1>8 DEF Command, HookOK
  <2>2. [vf EXCEPT ![at][f] = meta[f]] \in [Nic -> Metadata]
    BY <2>1 DEF Metadata
  <2>3. spent' \in [Adversity -> Nat]
    BY <1>8, SpendTyped DEF Command, Adversity
  <2>4. vf' \in [Nic -> Metadata]
    BY <1>8, <2>2 DEF Command, Applied, Refused
  <2>5. failed' \subseteq Nic \X Field
    <3>1. <<at, f>> \in Nic \X Field
      BY <2>1
    <3>2. failed' \subseteq failed \union {<<at, f>>}
      BY <1>8 DEF Command, Applied, Refused
    <3> QED BY <3>1, <3>2
  <2> QED BY <1>8, <2>3, <2>4, <2>5 DEF Command
<1>9. CASE PowerOn
  BY <1>9 DEF PowerOn
<1>10. CASE PowerOff
  BY <1>10, DefaultTyped DEF PowerOff
<1>11. CASE Edit
  BY <1>11, WrittenAssumption, UnderstoodTyped DEF Edit
<1> QED BY <1>1, <1>2, <1>3, <1>4, <1>5, <1>6, <1>7, <1>8, <1>9, <1>10, <1>11, <1>12, Actions

LEMMA HookStep ==
  ASSUME TypeOK, HookOK, [Next]_netVars
  PROVE  HookOK'
<1> USE NicTyped DEF HookOK, TypeOK, domainVars, requestVars, hookVars
<1>1. CASE UNCHANGED netVars
  BY <1>1 DEF netVars
<1>2. ASSUME NEW r \in Req, \/ Enter(r) \/ Jobs(r) \/ Inactive(r) \/ Get(r) \/ Set(r)
                            \/ Fault(r) \/ Edit
      PROVE  HookOK'
  BY <1>2 DEF Enter, Jobs, Inactive, Get, Set, Fault, Edit
<1>3. CASE Edit
  BY <1>3 DEF Edit
<1>4. CASE Read
  BY <1>4 DEF Read, Exit
<1>5. CASE Lookup \/ LookedUp
  BY <1>5 DEF Lookup, LookedUp
<1>6. CASE Collect
  BY <1>6 DEF Collect, Exit
<1>7. ASSUME NEW f \in Field, Command(f)
      PROVE  HookOK'
  BY <1>7 DEF Command
<1>8. CASE PowerOn \/ PowerOff
  BY <1>8 DEF PowerOn, PowerOff
<1> QED BY <1>1, <1>2, <1>3, <1>4, <1>5, <1>6, <1>7, <1>8, Actions

LEMMA SpeedStep ==
  ASSUME TypeOK, SpeedOK, [Next]_netVars
  PROVE  SpeedOK'
<1> USE DEF SpeedOK, TypeOK
<1>1. ASSUME NEW r \in Req, Enter(r)
      PROVE  SpeedOK'
  BY <1>1 DEF Enter, Goto
<1>2. ASSUME NEW r \in Req, Jobs(r) \/ Inactive(r) \/ Get(r) \/ Set(r) \/ Fault(r)
      PROVE  SpeedOK'
  BY <1>2 DEF Jobs, Inactive, Get, Set, Fault, Goto
<1>3. CASE pc' = pc /\ speed' = speed
  BY <1>3
<1>4. ASSUME NEW f \in Field, Command(f)
      PROVE  pc' = pc /\ speed' = speed
  BY <1>4 DEF Command, requestVars
<1>5. CASE Read \/ Lookup \/ LookedUp \/ Collect \/ PowerOn \/ PowerOff \/ Edit
           \/ UNCHANGED netVars
  <2>1. pc' = pc /\ speed' = speed
    BY <1>5 DEF Read, Lookup, LookedUp, Collect, PowerOn, PowerOff, Edit, netVars, requestVars
  <2> QED BY <1>3, <2>1
<1> QED BY <1>1, <1>2, <1>3, <1>4, <1>5, Actions

LEMMA GroundsStep ==
  ASSUME TypeOK, HookOK, GroundsOK, [Next]_netVars
  PROVE  GroundsOK'
<1> SUFFICES ASSUME NEW x \in Req, x \notin raced'
             PROVE  /\ pc'[x] \in {"get", "set"} => on' = "off"
                    /\ pc'[x] = "set" => Readable(got'[x]) /\ Alike(got'[x], stored')
  BY DEF GroundsOK, Readable, Alike, Empty, Filled
<1> USE DEF domainVars, requestVars, hookVars, historyVars
<1>1. CASE /\ x \notin raced /\ pc'[x] = pc[x] /\ got'[x] = got[x] /\ stored' = stored
           /\ pc[x] \in {"get", "set"} /\ on = "off" => on' = "off"
  BY <1>1 DEF GroundsOK
<1>2. ASSUME NEW r \in Req, Enter(r) \/ Jobs(r) \/ Fault(r)
      PROVE  \/ pc'[x] \notin {"get", "set"}
             \/ /\ x \notin raced /\ pc'[x] = pc[x] /\ got'[x] = got[x] /\ stored' = stored
                /\ on' = on
  BY <1>2 DEF Enter, Jobs, Fault, Goto, TypeOK
<1>3. ASSUME NEW r \in Req, Inactive(r)
      PROVE  /\ pc'[x] \in {"get", "set"} => on' = "off"
             /\ pc'[x] = "set" => Readable(got'[x]) /\ Alike(got'[x], stored')
  BY <1>3 DEF Inactive, Goto, GroundsOK, TypeOK
<1>4. ASSUME NEW r \in Req, Get(r)
      PROVE  /\ pc'[x] \in {"get", "set"} => on' = "off"
             /\ pc'[x] = "set" => Readable(got'[x]) /\ Alike(got'[x], stored')
  <2>1. CASE x # r
    BY <1>1, <1>4, <2>1 DEF Get, Goto, TypeOK
  <2>2. CASE x = r
    <3>1. on = "off" /\ on' = on /\ stored' = stored
      BY <1>4, <2>2 DEF Get, GroundsOK
    <3>2. pc'[x] = "set" => Readable(stored) /\ got'[x] = stored
      BY <1>4, <2>2, <3>1 DEF Get, Goto, CurrentMetadata, TypeOK
    <3> QED BY <3>1, <3>2 DEF Alike
  <2> QED BY <2>1, <2>2
<1>5. ASSUME NEW r \in Req, Set(r)
      PROVE  /\ pc'[x] \in {"get", "set"} => on' = "off"
             /\ pc'[x] = "set" => Readable(got'[x]) /\ Alike(got'[x], stored')
  <2> SUFFICES ASSUME pc'[x] \in {"get", "set"}
               PROVE  on' = "off" /\ (pc'[x] = "set" => Readable(got'[x]) /\ Alike(got'[x], stored'))
    OBVIOUS
  <2>1. x # r /\ pc'[x] = pc[x] /\ got'[x] = got[x] /\ on' = on /\ x \notin raced
    BY <1>5 DEF Set, Goto, TypeOK
  <2>2. on = "off" /\ (pc[x] = "set" => Readable(got[x]) /\ Alike(got[x], stored))
    BY <2>1 DEF GroundsOK
  <2>3. ASSUME pc[x] = "set"
        PROVE  Alike(got[x], stored')
    <3>1. r \notin raced
      BY <1>5, <2>3 DEF Set
    <3>2. Alike(got[r], stored)
      BY <1>5, <3>1 DEF Set, GroundsOK
    <3>3. stored' = Rewritten(got[r], speed[r])
      BY <1>5, <2>2 DEF Set
    <3>4. got[r] \in Metadata /\ got[x] \in Metadata /\ stored \in Metadata
      BY DEF TypeOK
    <3> QED BY <2>2, <2>3, <3>2, <3>3, <3>4, RewrittenAlike
  <2> QED BY <2>1, <2>2, <2>3
<1>6. CASE PowerOn
  BY <1>1, <1>6 DEF PowerOn
<1>7. CASE PowerOff
  BY <1>1, <1>7 DEF PowerOff
<1>8. CASE Edit
  <2>1. pc'[x] = pc[x] /\ got'[x] = got[x] /\ on' = on /\ x \notin raced /\ pc[x] # "set"
    BY <1>8 DEF Edit
  <2> QED BY <2>1 DEF GroundsOK
<1>9. ASSUME NEW f \in Field, Command(f)
      PROVE  /\ x \notin raced /\ pc'[x] = pc[x] /\ got'[x] = got[x] /\ stored' = stored
             /\ on' = on
  BY <1>9 DEF Command
<1>10. CASE Read \/ Lookup \/ LookedUp \/ Collect \/ UNCHANGED netVars
  <2>1. /\ x \notin raced /\ pc'[x] = pc[x] /\ got'[x] = got[x] /\ stored' = stored
        /\ on = "off" => on' = "off"
    BY <1>10 DEF Read, Lookup, LookedUp, Collect, Exit, netVars, HookOK
  <2> QED BY <1>1, <2>1
<1> QED BY <1>1, <1>2, <1>3, <1>4, <1>5, <1>6, <1>7, <1>8, <1>9, <1>10, Actions

LEMMA PromiseStep ==
  ASSUME TypeOK, HookOK, SpeedOK, GroundsOK, PromiseOK, [Next]_netVars
  PROVE  PromiseOK'
<1> USE DEF PromiseOK, domainVars, requestVars, hookVars, historyVars
<1>1. CASE UNCHANGED netVars
  BY <1>1 DEF netVars, Request, Understood, Empty
<1>2. ASSUME NEW r \in Req, Enter(r) \/ Jobs(r) \/ Inactive(r) \/ Get(r) \/ Fault(r)
      PROVE  PromiseOK'
  <2>1. /\ on' = on /\ hpc' = hpc /\ promised' = promised /\ stored' = stored
        /\ live' = live /\ due' = due /\ meta' = meta
    BY <1>2 DEF Enter, Jobs, Inactive, Get, Fault
  <2> QED BY <2>1
<1>3. ASSUME NEW r \in Req, Set(r)
      PROVE  PromiseOK'
  <2>1. promised' = Request(stored')
    <3>1. CASE r \in raced
      BY <1>3, <3>1 DEF Set
    <3>2. CASE r \notin raced
      <4>1. on = "off" /\ Readable(got[r]) /\ Alike(got[r], stored)
        BY <1>3, <3>2 DEF Set, GroundsOK
      <4>2. stored' = Rewritten(got[r], speed[r]) /\ promised' = Rewritten(promised, speed[r])
        BY <1>3, <3>2, <4>1 DEF Set
      <4>3. got[r] \in Metadata /\ stored \in Metadata /\ speed[r] \in Speed
        BY <1>3 DEF Set, SpeedOK, TypeOK
      <4> QED BY <4>1, <4>2, <4>3, RewrittenRequest
    <3> QED BY <3>1, <3>2
  <2>2. on' # "starting" /\ hpc' \notin {"lookup", "apply"}
    BY <1>3 DEF Set, HookOK, TypeOK
  <2> QED BY <2>1, <2>2
<1>4. CASE Read
  <2>1. promised' = promised /\ stored' = stored /\ live' = live /\ due' = due
    BY <1>4 DEF Read
  <2>2. on = "starting"
    BY <1>4 DEF Read, HookOK, TypeOK
  <2>3. hpc' = "lookup" => meta' = Understood(live) /\ ~Empty(live) /\ on' = on
    BY <1>4 DEF Read, Exit
  <2>4. hpc' # "apply"
    BY <1>4 DEF Read, Exit
  <2> QED BY <2>1, <2>2, <2>3, <2>4 DEF Request
<1>5. CASE Lookup \/ LookedUp \/ Collect
  BY <1>5 DEF Lookup, LookedUp, Collect, Exit
<1>6. ASSUME NEW f \in Field, Command(f)
      PROVE  PromiseOK'
  BY <1>6 DEF Command
<1>7. CASE PowerOn
  BY <1>7 DEF PowerOn
<1>8. CASE PowerOff
  BY <1>8 DEF PowerOff
<1>9. CASE Edit
  BY <1>9 DEF Edit, HookOK, TypeOK
<1> QED BY <1>1, <1>2, <1>3, <1>4, <1>5, <1>6, <1>7, <1>8, <1>9, Actions

-----------------------------------------------------------------------------
(***************************************************************************)
(* What is settled stays so while the hook runs.                           *)
(***************************************************************************)
LEMMA SettledStays ==
  ASSUME NEW i, NEW f, Settled(i, f), due' = due, failed \subseteq failed',
         vf'[i][f] = vf[i][f] \/ vf'[i][f] = due[f]
  PROVE  Settled(i, f)'
BY DEF Settled

LEMMA ProgressStep ==
  ASSUME TypeOK, HookOK, PromiseOK, ProgressOK, [Next]_netVars
  PROVE  ProgressOK'
<1> USE NicTyped DEF domainVars, requestVars, hookVars, historyVars
<1>1. CASE UNCHANGED <<hpc, at, found, left, failed, due, vf>>
  BY <1>1 DEF ProgressOK, Settled
<1>2. ASSUME NEW r \in Req, Enter(r) \/ Jobs(r) \/ Inactive(r) \/ Get(r) \/ Set(r) \/ Fault(r)
      PROVE  UNCHANGED <<hpc, at, found, left, failed, due, vf>>
  BY <1>2 DEF Enter, Jobs, Inactive, Get, Set, Fault
<1>3. CASE Edit \/ UNCHANGED netVars
  <2>1. UNCHANGED <<hpc, at, found, left, failed, due, vf>>
    BY <1>3 DEF Edit, netVars
  <2> QED BY <1>1, <2>1
<1>4. CASE PowerOn
  BY <1>4 DEF PowerOn, ProgressOK
<1>5. CASE PowerOff
  BY <1>5 DEF PowerOff, ProgressOK
<1>6. CASE Read
  <2>1. on = "starting" /\ due = Request(live) /\ due' = due
    BY <1>6 DEF Read, HookOK, PromiseOK, TypeOK
  <2>2. hpc' = "lookup" => at' = 1
    BY <1>6 DEF Read, Exit, HookOK
  <2>3. hpc' # "apply" /\ Ours \subseteq Nat \ {0}
    BY <1>6 DEF Read, Exit
  <2>4. ASSUME hpc' = "done", Lower, NEW i \in Ours, NEW f \in Field
        PROVE  Settled(i, f)'
    <3>1. CASE Empty(live)
      BY <2>1, <3>1 DEF Settled, Request, NoMetadata
    <3>2. CASE failed' = Ours \X Field
      <4>1. <<i, f>> \in Ours \X Field
        OBVIOUS
      <4> QED BY <3>2, <4>1 DEF Settled
    <3> QED BY <1>6, <2>4, <3>1, <3>2 DEF Read
  <2> QED BY <2>2, <2>3, <2>4 DEF ProgressOK
<1>7. CASE Lookup
  <2>1. /\ hpc = "lookup" /\ hpc' = hpc /\ at \in Nic /\ at' = at + 1 /\ due' = due /\ vf' = vf
        /\ found \subseteq found' /\ failed \subseteq failed'
    BY <1>7 DEF Lookup
  <2>2. ASSUME NEW i \in Ours, i < at
        PROVE  i \in found' \/ \A f \in Field : Settled(i, f)'
    BY <2>1, <2>2, SettledStays DEF ProgressOK
  <2>3. ASSUME NEW i \in Ours, i = at
        PROVE  i \in found' \/ \A f \in Field : Settled(i, f)'
    <3>1. CASE failed' = failed \union {at} \X Field
      <4>1. \A f \in Field : <<i, f>> \in failed'
        BY <2>3, <3>1
      <4> QED BY <4>1 DEF Settled
    <3> QED BY <1>7, <2>3, <3>1 DEF Lookup
  <2>4. \A i \in Ours : i < at' => i < at \/ i = at
    BY <2>1
  <2> QED BY <2>1, <2>2, <2>3, <2>4 DEF ProgressOK
<1>8. CASE LookedUp
  <2>1. ASSUME NEW i \in Ours
        PROVE  i \in found \/ \A f \in Field : Settled(i, f)
    <3>1. at \notin Nic /\ at \in Nat \ {0} /\ hpc = "lookup"
      BY <1>8 DEF LookedUp, TypeOK, HookOK
    <3>2. i < at
      BY <3>1
    <3> QED BY <3>1, <3>2 DEF ProgressOK
  <2>2. hpc' = "apply" /\ at' = 0 /\ UNCHANGED <<found, failed, due, vf>>
    BY <1>8 DEF LookedUp
  <2>3. \A i \in Ours : ~(i < at') /\ i # at'
    BY <2>2
  <2> QED BY <2>1, <2>2, <2>3 DEF ProgressOK, Settled
<1>9. CASE Collect
  <2>1. hpc = "apply" /\ left = {} /\ at \in Nat /\ UNCHANGED <<failed, due, vf>>
    BY <1>9 DEF Collect, TypeOK
  <2>2. ASSUME NEW i \in Ours
        PROVE  \/ \A f \in Field : Settled(i, f)
               \/ i \in found /\ (i <= at => \A f \in Field : Settled(i, f))
    BY <2>1 DEF ProgressOK
  <2>3. CASE /\ at' = at + 1 /\ hpc' = hpc /\ found' = found
             /\ left' = IF at' \in found THEN Field ELSE {}
    <3>1. \A i \in Ours : i < at' => i <= at
      BY <2>1, <2>3
    <3> QED BY <2>1, <2>2, <2>3, <3>1 DEF ProgressOK, Settled
  <2>4. CASE at = Len(Devices) /\ hpc' = "done"
    <3>1. \A i \in Ours : i <= at
      BY <2>4
    <3> QED BY <2>1, <2>2, <2>4, <3>1 DEF ProgressOK, Settled
  <2> QED BY <1>9, <2>3, <2>4 DEF Collect, Exit
<1>10. ASSUME NEW f \in Field, Command(f)
       PROVE  ProgressOK'
  <2>1. /\ hpc = "apply" /\ hpc' = hpc /\ at' = at /\ found' = found /\ left' = left \ {f}
        /\ due' = due /\ due = meta
    BY <1>10 DEF Command, PromiseOK
  <2>2. vf \in [Nic -> [Field -> Text]] /\ at \in Nic
    BY <1>10 DEF Command, HookOK, TypeOK, Metadata
  <2>3. ASSUME NEW i \in Ours, NEW g \in Field, Settled(i, g)
        PROVE  Settled(i, g)'
    <3>1. failed \subseteq failed'
      BY <1>10 DEF Command, Applied, Refused
    <3>2. vf'[i][g] = vf[i][g] \/ vf'[i][g] = due[g]
      <4>1. CASE vf' = vf
        BY <4>1
      <4>2. CASE vf' = [vf EXCEPT ![at][f] = meta[f]]
        BY <2>1, <2>2, <4>2
      <4> QED BY <1>10, <4>1, <4>2 DEF Command, Applied, Refused
    <3> QED BY <2>1, <2>3, <3>1, <3>2, SettledStays
  <2>4. Settled(at, f)'
    <3>1. CASE Applied(f)
      <4>1. vf'[at][f] = due[f]
        BY <2>1, <2>2, <3>1 DEF Applied
      <4> QED BY <2>1, <4>1 DEF Settled
    <3>2. CASE Refused(f)
      BY <2>1, <3>2 DEF Refused, Settled
    <3> QED BY <1>10, <3>1, <3>2 DEF Command
  <2>5. ASSUME NEW i \in Ours
        PROVE  \/ \A g \in Field : Settled(i, g)'
               \/ /\ i \in found' /\ (i < at' => \A g \in Field : Settled(i, g)')
                  /\ i = at' => \A g \in Field \ left' : Settled(i, g)'
    BY <2>1, <2>3, <2>4 DEF ProgressOK
  <2> QED BY <2>1, <2>5 DEF ProgressOK
<1> QED BY <1>1, <1>2, <1>3, <1>4, <1>5, <1>6, <1>7, <1>8, <1>9, <1>10, Actions

-----------------------------------------------------------------------------
LEMMA Invariance == Spec => []IInv
<1>1. Init => IInv
  <2> SUFFICES ASSUME Init PROVE IInv
    OBVIOUS
  <2>1. TypeOK
    <3>1. stored \in Metadata
      BY WrittenAssumption DEF Init
    <3>2. "" \in Text
      BY TextAssumption
    <3> QED BY <3>1, <3>2, DefaultTyped, UnderstoodTyped DEF Init, TypeOK
  <2>2. HookOK /\ SpeedOK /\ GroundsOK /\ PromiseOK /\ ProgressOK
    BY DEF Init, HookOK, SpeedOK, GroundsOK, PromiseOK, ProgressOK
  <2> QED BY <2>1, <2>2 DEF IInv
<1>2. IInv /\ [Next]_netVars => IInv'
  BY TypeStep, HookStep, SpeedStep, GroundsStep, PromiseStep, ProgressStep DEF IInv
<1> QED BY <1>1, <1>2, PTL DEF Spec

(***************************************************************************)
(* Every variable keeps its type.                                          *)
(***************************************************************************)
THEOREM TypeCorrect == Spec => []TypeOK
<1>1. IInv => TypeOK
  BY DEF IInv
<1> QED BY <1>1, Invariance, PTL

(***************************************************************************)
(* When the hook is done the VFs have the settings asked for before the    *)
(* start, but for those whose commands failed.                             *)
(***************************************************************************)
THEOREM SettingsReachVFs == Spec => []AskedSettingsApplied
<1>1. IInv => AskedSettingsApplied
  BY DEF IInv, ProgressOK, Settled, AskedSettingsApplied
<1> QED BY <1>1, Invariance, PTL
==============================================================================
