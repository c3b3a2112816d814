------------------------ MODULE DomainConfigProofs ------------------------
(***************************************************************************)
(* Safety of DomainConfig for any requests, plans, values and budgets.     *)
(***************************************************************************)
EXTENDS DomainConfig, TLAPS

(***************************************************************************)
(* A domain that is not running is there because it is defined.            *)
(***************************************************************************)
PresenceOK == (dom = "off" => persistent) /\ (dom = "absent" => ~persistent)

(***************************************************************************)
(* What a request that was not overtaken knows of the power state: past    *)
(* Nics it is sure, before that unless it was told a wrong one.            *)
(***************************************************************************)
KnowsInactive(r) ==
  pc[r] \in {"max", "nics", "meta"} \/ (pc[r] = "checks" /\ op[r] = "SetMax")

PowerOK ==
  \A r \in Req : r \notin raced =>
    /\ pc[r] \in {"detach", "attach"} => dom # "on"
    /\ KnowsInactive(r) /\ spent["misread"] = 0 => dom # "on"
    /\ pc[r] = "max" => op[r] = "SetMax"

(***************************************************************************)
(* What it knows by its flags: those that are set are right, and without a *)
(* misread those that are not are, too.                                    *)
(***************************************************************************)
FlagsOK ==
  \A r \in Req : r \notin raced =>
    /\ pc[r] \in {"active", "set"} =>
         /\ "config" \in flags[r] => persistent
         /\ spent["misread"] = 0 /\ persistent => "config" \in flags[r]
    /\ pc[r] = "active" => "live" \notin flags[r]
    /\ pc[r] = "set" =>
         /\ "live" \in flags[r] => dom = "on"
         /\ spent["misread"] = 0 /\ dom = "on" => "live" \in flags[r]

IInv ==
  /\ TypeOK /\ PresenceOK /\ PowerOK /\ FlagsOK
  /\ NoDrift /\ InterfaceKept /\ RejectionsAreRaces
-----------------------------------------------------------------------------
(***************************************************************************)
(* All values after a step are as typed: a lowered maximum takes a current *)
(* value with it that is a value.                                          *)
(***************************************************************************)
LEMMA TypeStep == TypeOK /\ [Next]_vars => TypeOK'
<1> SUFFICES ASSUME TypeOK, [Next]_vars PROVE TypeOK'
  OBVIOUS
<1> USE DEF TypeOK, Label, Ended, Config, hostVars, localVars, Adversity
<1>1. ASSUME NEW r \in Req, Enter(r) PROVE TypeOK'
  <2>1. PICK o \in Plan[r], v \in Value :
          op' = [op EXCEPT ![r] = o] /\ value' = [value EXCEPT ![r] = v]
    BY <1>1 DEF Enter
  <2>2. o \in Op
    BY ConfigPlanAssumption
  <2>3. op' \in [Req -> Op \union {"none"}] /\ value' \in [Req -> Value]
    BY <2>1, <2>2
  <2>4. pc' \in [Req -> Label]
    BY <1>1 DEF Enter, Goto, Fail
  <2>5. spent' \in [Adversity -> Nat]
    BY <1>1 DEF Enter, Told, Spend
  <2>6. QED
    BY <1>1, <2>3, <2>4, <2>5 DEF Enter
<1>2. ASSUME NEW r \in Req, Checks(r) PROVE TypeOK'
  BY <1>2 DEF Checks, FirstStep, Goto, Fail
<1>3. ASSUME NEW r \in Req, ReadPersistent(r) PROVE TypeOK'
  BY <1>3 DEF ReadPersistent, Goto, Told, Spend
<1>4. ASSUME NEW r \in Req, ReadActive(r) PROVE TypeOK'
  BY <1>4 DEF ReadActive, Goto, Told, Spend
<1>5. ASSUME NEW r \in Req, Set(r) PROVE TypeOK'
  BY <1>5 DEF Set, Target, Acceptable, Change, Goto, Fail
<1>6. ASSUME NEW r \in Req, SetMax(r) PROVE TypeOK'
  <2>1. ASSUME NEW c \in Config PROVE WithMaximum(c, value[r]) \in Config
    <3>1. CASE c.current > value[r]
      BY <3>1 DEF WithMaximum
    <3>2. CASE ~(c.current > value[r])
      BY <3>2 DEF WithMaximum
    <3>3. QED
      BY <3>1, <3>2
  <2>2. stored' \in Config /\ live' \in Config
    BY <1>6, <2>1 DEF SetMax, Change
  <2>3. pc' \in [Req -> Label]
    BY <1>6 DEF SetMax, Goto, Fail
  <2>4. QED
    BY <1>6, <2>2, <2>3 DEF SetMax, Change
<1>7. ASSUME NEW r \in Req, Inactive(r) PROVE TypeOK'
  BY <1>7 DEF Inactive, Goto, Fail, Told, Spend
<1>8. ASSUME NEW r \in Req, Nics(r) PROVE TypeOK'
  BY <1>8 DEF Nics, Goto, Fail
<1>9. ASSUME NEW r \in Req, Detach(r) PROVE TypeOK'
  BY <1>9 DEF Detach, Target, Change, Current, Goto, Fail
<1>10. ASSUME NEW r \in Req, Attach(r) PROVE TypeOK'
  BY <1>10 DEF Attach, Target, Change, Current, Goto, Fail
<1>11. ASSUME NEW r \in Req, Confirm(r) PROVE TypeOK'
  BY <1>11 DEF Confirm, Current, Goto, Fail
<1>12. ASSUME NEW r \in Req, Meta(r) PROVE TypeOK'
  BY <1>12 DEF Meta, Target, Change, Goto, Fail
<1>13. ASSUME NEW r \in Req, Fault(r) PROVE TypeOK'
  BY <1>13 DEF Fault, Goto, Fail, Spend
<1>14. CASE PowerOn
  BY <1>14 DEF PowerOn, RelyOnPower
<1>15. CASE PowerOff
  BY <1>15 DEF PowerOff, RelyOnPower
<1>16. CASE Undefine
  BY <1>16 DEF Undefine
<1>17. CASE Crash
  BY <1>17 DEF Crash, Spend
<1>18. CASE UNCHANGED vars
  BY <1>18 DEF vars
<1>19. QED
  BY <1>1, <1>2, <1>3, <1>4, <1>5, <1>6, <1>7, <1>8, <1>9, <1>10, <1>11, <1>12,
     <1>13, <1>14, <1>15, <1>16, <1>17, <1>18
  DEF Next, Step, Finished

(***************************************************************************)
(* A domain disappears only when it is both undefined and off.             *)
(***************************************************************************)
LEMMA PresenceStep == TypeOK /\ PresenceOK /\ [Next]_vars => PresenceOK'
<1> SUFFICES ASSUME TypeOK, PresenceOK, [Next]_vars PROVE PresenceOK'
  OBVIOUS
<1> USE DEF PresenceOK, hostVars, localVars
<1>1. ASSUME NEW r \in Req, Enter(r) PROVE PresenceOK'
  BY <1>1 DEF Enter, Goto, Fail, Told, Spend
<1>2. ASSUME NEW r \in Req, Checks(r) PROVE PresenceOK'
  BY <1>2 DEF Checks, FirstStep, Goto, Fail
<1>3. ASSUME NEW r \in Req, ReadPersistent(r) PROVE PresenceOK'
  BY <1>3 DEF ReadPersistent, Goto, Told, Spend
<1>4. ASSUME NEW r \in Req, ReadActive(r) PROVE PresenceOK'
  BY <1>4 DEF ReadActive, Goto, Told, Spend
<1>5. ASSUME NEW r \in Req, Set(r) PROVE PresenceOK'
  BY <1>5 DEF Set, Target, Acceptable, Change, Goto, Fail
<1>6. ASSUME NEW r \in Req, SetMax(r) PROVE PresenceOK'
  BY <1>6 DEF SetMax, Acceptable, Change, WithMaximum, Goto, Fail
<1>7. ASSUME NEW r \in Req, Inactive(r) PROVE PresenceOK'
  BY <1>7 DEF Inactive, Goto, Fail, Told, Spend
<1>8. ASSUME NEW r \in Req, Nics(r) PROVE PresenceOK'
  BY <1>8 DEF Nics, Goto, Fail
<1>9. ASSUME NEW r \in Req, Detach(r) PROVE PresenceOK'
  BY <1>9 DEF Detach, Target, Change, Current, Goto, Fail
<1>10. ASSUME NEW r \in Req, Attach(r) PROVE PresenceOK'
  BY <1>10 DEF Attach, Target, Change, Current, Goto, Fail
<1>11. ASSUME NEW r \in Req, Confirm(r) PROVE PresenceOK'
  BY <1>11 DEF Confirm, Current, Goto, Fail
<1>12. ASSUME NEW r \in Req, Meta(r) PROVE PresenceOK'
  BY <1>12 DEF Meta, Target, Change, Goto, Fail
<1>13. ASSUME NEW r \in Req, Fault(r) PROVE PresenceOK'
  BY <1>13 DEF Fault, Goto, Fail, Spend
<1>14. CASE PowerOn
  BY <1>14 DEF PowerOn
<1>15. CASE PowerOff
  BY <1>15 DEF PowerOff
<1>16. CASE Undefine
  BY <1>16 DEF Undefine
<1>17. CASE Crash
  BY <1>17 DEF Crash, Spend
<1>18. CASE UNCHANGED vars
  BY <1>18 DEF vars
<1>19. QED
  BY <1>1, <1>2, <1>3, <1>4, <1>5, <1>6, <1>7, <1>8, <1>9, <1>10, <1>11, <1>12,
     <1>13, <1>14, <1>15, <1>16, <1>17, <1>18
  DEF Next, Step, Finished

(***************************************************************************)
(* Requests that find the domain off know it is, until it is started.      *)
(***************************************************************************)
LEMMA PowerStep == TypeOK /\ PowerOK /\ [Next]_vars => PowerOK'
<1> SUFFICES ASSUME TypeOK, PowerOK, [Next]_vars PROVE PowerOK'
  OBVIOUS
<1> USE DEF TypeOK, Ended, PowerOK, KnowsInactive, RelyOnPower, hostVars, localVars, Adversity
<1>1. ASSUME NEW r \in Req, Enter(r) PROVE PowerOK'
  BY <1>1 DEF Enter, Goto, Fail, Told, Spend
<1>2. ASSUME NEW r \in Req, Checks(r) PROVE PowerOK'
  BY <1>2 DEF Checks, FirstStep, Goto, Fail
<1>3. ASSUME NEW r \in Req, ReadPersistent(r) PROVE PowerOK'
  BY <1>3 DEF ReadPersistent, Goto, Told, Spend
<1>4. ASSUME NEW r \in Req, ReadActive(r) PROVE PowerOK'
  BY <1>4 DEF ReadActive, Goto, Told, Spend
<1>5. ASSUME NEW r \in Req, Set(r) PROVE PowerOK'
  BY <1>5 DEF Set, Target, Acceptable, Change, Goto, Fail
<1>6. ASSUME NEW r \in Req, SetMax(r) PROVE PowerOK'
  BY <1>6 DEF SetMax, Acceptable, Change, WithMaximum, Goto, Fail
<1>7. ASSUME NEW r \in Req, Inactive(r) PROVE PowerOK'
  BY <1>7 DEF Inactive, Goto, Fail, Told, Spend
<1>8. ASSUME NEW r \in Req, Nics(r) PROVE PowerOK'
  BY <1>8 DEF Nics, Goto, Fail
<1>9. ASSUME NEW r \in Req, Detach(r) PROVE PowerOK'
  BY <1>9 DEF Detach, Target, Change, Current, Goto, Fail
<1>10. ASSUME NEW r \in Req, Attach(r) PROVE PowerOK'
  BY <1>10 DEF Attach, Target, Change, Current, Goto, Fail
<1>11. ASSUME NEW r \in Req, Confirm(r) PROVE PowerOK'
  BY <1>11 DEF Confirm, Current, Goto, Fail
<1>12. ASSUME NEW r \in Req, Meta(r) PROVE PowerOK'
  BY <1>12 DEF Meta, Target, Change, Goto, Fail
<1>13. ASSUME NEW r \in Req, Fault(r) PROVE PowerOK'
  BY <1>13 DEF Fault, Goto, Fail, Spend
<1>14. CASE PowerOn
  BY <1>14 DEF PowerOn
<1>15. CASE PowerOff
  BY <1>15 DEF PowerOff
<1>16. CASE Undefine
  BY <1>16 DEF Undefine
<1>17. CASE Crash
  BY <1>17 DEF Crash, Spend
<1>18. CASE UNCHANGED vars
  BY <1>18 DEF vars
<1>19. QED
  BY <1>1, <1>2, <1>3, <1>4, <1>5, <1>6, <1>7, <1>8, <1>9, <1>10, <1>11, <1>12,
     <1>13, <1>14, <1>15, <1>16, <1>17, <1>18
  DEF Next, Step, Finished

(***************************************************************************)
(* Flags are right when they are added, and stay so until the request is   *)
(* overtaken.                                                              *)
(***************************************************************************)
LEMMA FlagsStep == TypeOK /\ PresenceOK /\ FlagsOK /\ [Next]_vars => FlagsOK'
<1> SUFFICES ASSUME TypeOK, PresenceOK, FlagsOK, [Next]_vars PROVE FlagsOK'
  OBVIOUS
<1> USE DEF TypeOK, Ended, PresenceOK, FlagsOK, RelyOnPower, hostVars, localVars, Adversity
<1>1. ASSUME NEW r \in Req, Enter(r) PROVE FlagsOK'
  BY <1>1 DEF Enter, Goto, Fail, Told, Spend
<1>2. ASSUME NEW r \in Req, Checks(r) PROVE FlagsOK'
  BY <1>2 DEF Checks, FirstStep, Goto, Fail
<1>3. ASSUME NEW r \in Req, ReadPersistent(r) PROVE FlagsOK'
  BY <1>3 DEF ReadPersistent, Goto, Told, Spend
<1>4. ASSUME NEW r \in Req, ReadActive(r) PROVE FlagsOK'
  BY <1>4 DEF ReadActive, Goto, Told, Spend
<1>5. ASSUME NEW r \in Req, Set(r) PROVE FlagsOK'
  BY <1>5 DEF Set, Target, Acceptable, Change, Goto, Fail
<1>6. ASSUME NEW r \in Req, SetMax(r) PROVE FlagsOK'
  BY <1>6 DEF SetMax, Acceptable, Change, WithMaximum, Goto, Fail
<1>7. ASSUME NEW r \in Req, Inactive(r) PROVE FlagsOK'
  BY <1>7 DEF Inactive, Goto, Fail, Told, Spend
<1>8. ASSUME NEW r \in Req, Nics(r) PROVE FlagsOK'
  BY <1>8 DEF Nics, Goto, Fail
<1>9. ASSUME NEW r \in Req, Detach(r) PROVE FlagsOK'
  BY <1>9 DEF Detach, Target, Change, Current, Goto, Fail
<1>10. ASSUME NEW r \in Req, Attach(r) PROVE FlagsOK'
  BY <1>10 DEF Attach, Target, Change, Current, Goto, Fail
<1>11. ASSUME NEW r \in Req, Confirm(r) PROVE FlagsOK'
  BY <1>11 DEF Confirm, Current, Goto, Fail
<1>12. ASSUME NEW r \in Req, Meta(r) PROVE FlagsOK'
  BY <1>12 DEF Meta, Target, Change, Goto, Fail
<1>13. ASSUME NEW r \in Req, Fault(r) PROVE FlagsOK'
  BY <1>13 DEF Fault, Goto, Fail, Spend
<1>14. CASE PowerOn
  BY <1>14 DEF PowerOn
<1>15. CASE PowerOff
  BY <1>15 DEF PowerOff
<1>16. CASE Undefine
  BY <1>16 DEF Undefine
<1>17. CASE Crash
  BY <1>17 DEF Crash, Spend
<1>18. CASE UNCHANGED vars
  BY <1>18 DEF vars
<1>19. QED
  BY <1>1, <1>2, <1>3, <1>4, <1>5, <1>6, <1>7, <1>8, <1>9, <1>10, <1>11, <1>12,
     <1>13, <1>14, <1>15, <1>16, <1>17, <1>18
  DEF Next, Step, Finished

(***************************************************************************)
(* Both configurations change alike, or one of them alone when the other   *)
(* does not count.                                                         *)
(***************************************************************************)
LEMMA DriftStep == TypeOK /\ PresenceOK /\ PowerOK /\ FlagsOK /\ NoDrift /\ [Next]_vars => NoDrift'
<1> SUFFICES ASSUME TypeOK, PresenceOK, PowerOK, FlagsOK, NoDrift, [Next]_vars PROVE NoDrift'
  OBVIOUS
<1> USE DEF TypeOK, Config, PresenceOK, PowerOK, KnowsInactive, FlagsOK, NoDrift, hostVars, localVars, Adversity
<1>1. ASSUME NEW r \in Req, Enter(r) PROVE NoDrift'
  BY <1>1 DEF Enter, Goto, Fail, Told, Spend
<1>2. ASSUME NEW r \in Req, Checks(r) PROVE NoDrift'
  BY <1>2 DEF Checks, FirstStep, Goto, Fail
<1>3. ASSUME NEW r \in Req, ReadPersistent(r) PROVE NoDrift'
  BY <1>3 DEF ReadPersistent, Goto, Told, Spend
<1>4. ASSUME NEW r \in Req, ReadActive(r) PROVE NoDrift'
  BY <1>4 DEF ReadActive, Goto, Told, Spend
<1>5. ASSUME NEW r \in Req, Set(r) PROVE NoDrift'
  BY <1>5 DEF Set, Target, Acceptable, Change, Goto, Fail
<1>6. ASSUME NEW r \in Req, SetMax(r) PROVE NoDrift'
  BY <1>6 DEF SetMax, Acceptable, Change, WithMaximum, Goto, Fail
<1>7. ASSUME NEW r \in Req, Inactive(r) PROVE NoDrift'
  BY <1>7 DEF Inactive, Goto, Fail, Told, Spend
<1>8. ASSUME NEW r \in Req, Nics(r) PROVE NoDrift'
  BY <1>8 DEF Nics, Goto, Fail
<1>9. ASSUME NEW r \in Req, Detach(r) PROVE NoDrift'
  BY <1>9 DEF Detach, Target, Change, Current, Goto, Fail
<1>10. ASSUME NEW r \in Req, Attach(r) PROVE NoDrift'
  BY <1>10 DEF Attach, Target, Change, Current, Goto, Fail
<1>11. ASSUME NEW r \in Req, Confirm(r) PROVE NoDrift'
  BY <1>11 DEF Confirm, Current, Goto, Fail
<1>12. ASSUME NEW r \in Req, Meta(r) PROVE NoDrift'
  BY <1>12 DEF Meta, Target, Change, Goto, Fail
<1>13. ASSUME NEW r \in Req, Fault(r) PROVE NoDrift'
  BY <1>13 DEF Fault, Goto, Fail, Spend
<1>14. CASE PowerOn
  BY <1>14 DEF PowerOn
<1>15. CASE PowerOff
  BY <1>15 DEF PowerOff
<1>16. CASE Undefine
  BY <1>16 DEF Undefine
<1>17. CASE Crash
  BY <1>17 DEF Crash, Spend
<1>18. CASE UNCHANGED vars
  BY <1>18 DEF vars
<1>19. QED
  BY <1>1, <1>2, <1>3, <1>4, <1>5, <1>6, <1>7, <1>8, <1>9, <1>10, <1>11, <1>12,
     <1>13, <1>14, <1>15, <1>16, <1>17, <1>18
  DEF Next, Step, Finished

(***************************************************************************)
(* The interface is off the domain only between Detach and Attach of one   *)
(* request.                                                                *)
(***************************************************************************)
LEMMA InterfaceStep == TypeOK /\ PresenceOK /\ PowerOK /\ InterfaceKept /\ [Next]_vars => InterfaceKept'
<1> SUFFICES ASSUME TypeOK, PresenceOK, PowerOK, InterfaceKept, [Next]_vars PROVE InterfaceKept'
  OBVIOUS
<1> USE DEF TypeOK, Config, Ended, PresenceOK, PowerOK, InterfaceKept, hostVars, localVars, Adversity, Gone, Value
<1>1. ASSUME NEW r \in Req, Enter(r) PROVE InterfaceKept'
  BY <1>1 DEF Enter, Goto, Fail, Told, Spend
<1>2. ASSUME NEW r \in Req, Checks(r) PROVE InterfaceKept'
  BY <1>2 DEF Checks, FirstStep, Goto, Fail
<1>3. ASSUME NEW r \in Req, ReadPersistent(r) PROVE InterfaceKept'
  BY <1>3 DEF ReadPersistent, Goto, Told, Spend
<1>4. ASSUME NEW r \in Req, ReadActive(r) PROVE InterfaceKept'
  BY <1>4 DEF ReadActive, Goto, Told, Spend
<1>5. ASSUME NEW r \in Req, Set(r) PROVE InterfaceKept'
  BY <1>5 DEF Set, Target, Acceptable, Change, Goto, Fail
<1>6. ASSUME NEW r \in Req, SetMax(r) PROVE InterfaceKept'
  BY <1>6 DEF SetMax, Acceptable, Change, WithMaximum, Goto, Fail
<1>7. ASSUME NEW r \in Req, Inactive(r) PROVE InterfaceKept'
  BY <1>7 DEF Inactive, Goto, Fail, Told, Spend
<1>8. ASSUME NEW r \in Req, Nics(r) PROVE InterfaceKept'
  BY <1>8 DEF Nics, Goto, Fail
<1>9. ASSUME NEW r \in Req, Detach(r) PROVE InterfaceKept'
  BY <1>9 DEF Detach, Target, Change, Current, Goto, Fail
<1>10. ASSUME NEW r \in Req, Attach(r) PROVE InterfaceKept'
  <2> SUFFICES ASSUME persistent', raced' = {}, spent'["fault"] = 0, spent'["crash"] = 0
               PROVE  stored'.nic # Gone
    OBVIOUS
  <2>1. r \notin raced /\ pc[r] = "attach" /\ persistent
    BY <1>10 DEF Attach, Change
  <2>2. dom = "off"
    BY <2>1
  <2>3. CASE stored.nic = Gone
    <3>1. stored' = [stored EXCEPT !.nic = value[r]]
      BY <1>10, <2>2, <2>3 DEF Attach, Target, Change, Current
    <3>2. QED
      BY <3>1
  <2>4. CASE stored.nic # Gone
    BY <1>10, <2>2, <2>4 DEF Attach, Current
  <2>5. QED
    BY <2>3, <2>4
<1>11. ASSUME NEW r \in Req, Confirm(r) PROVE InterfaceKept'
  BY <1>11 DEF Confirm, Current, Goto, Fail
<1>12. ASSUME NEW r \in Req, Meta(r) PROVE InterfaceKept'
  BY <1>12 DEF Meta, Target, Change, Goto, Fail
<1>13. ASSUME NEW r \in Req, Fault(r) PROVE InterfaceKept'
  BY <1>13 DEF Fault, Goto, Fail, Spend
<1>14. CASE PowerOn
  BY <1>14 DEF PowerOn
<1>15. CASE PowerOff
  BY <1>15 DEF PowerOff
<1>16. CASE Undefine
  BY <1>16 DEF Undefine
<1>17. CASE Crash
  BY <1>17 DEF Crash, Spend
<1>18. CASE UNCHANGED vars
  BY <1>18 DEF vars
<1>19. QED
  BY <1>1, <1>2, <1>3, <1>4, <1>5, <1>6, <1>7, <1>8, <1>9, <1>10, <1>11, <1>12,
     <1>13, <1>14, <1>15, <1>16, <1>17, <1>18
  DEF Next, Step, Finished

(***************************************************************************)
(* Flags that are right are accepted.                                      *)
(***************************************************************************)
LEMMA RejectionStep == TypeOK /\ PresenceOK /\ PowerOK /\ FlagsOK /\ RejectionsAreRaces /\ [Next]_vars => RejectionsAreRaces'
<1> SUFFICES ASSUME TypeOK, PresenceOK, PowerOK, FlagsOK, RejectionsAreRaces, [Next]_vars PROVE RejectionsAreRaces'
  OBVIOUS
<1> USE DEF TypeOK, Ended, PresenceOK, PowerOK, KnowsInactive, FlagsOK, RejectionsAreRaces, hostVars, localVars, Adversity
<1>1. ASSUME NEW r \in Req, Enter(r) PROVE RejectionsAreRaces'
  BY <1>1 DEF Enter, Goto, Fail, Told, Spend
<1>2. ASSUME NEW r \in Req, Checks(r) PROVE RejectionsAreRaces'
  BY <1>2 DEF Checks, FirstStep, Goto, Fail
<1>3. ASSUME NEW r \in Req, ReadPersistent(r) PROVE RejectionsAreRaces'
  BY <1>3 DEF ReadPersistent, Goto, Told, Spend
<1>4. ASSUME NEW r \in Req, ReadActive(r) PROVE RejectionsAreRaces'
  BY <1>4 DEF ReadActive, Goto, Told, Spend
<1>5. ASSUME NEW r \in Req, Set(r) PROVE RejectionsAreRaces'
  BY <1>5 DEF Set, Target, Acceptable, Change, Goto, Fail
<1>6. ASSUME NEW r \in Req, SetMax(r) PROVE RejectionsAreRaces'
  BY <1>6 DEF SetMax, Acceptable, Change, WithMaximum, Goto, Fail
<1>7. ASSUME NEW r \in Req, Inactive(r) PROVE RejectionsAreRaces'
  BY <1>7 DEF Inactive, Goto, Fail, Told, Spend
<1>8. ASSUME NEW r \in Req, Nics(r) PROVE RejectionsAreRaces'
  BY <1>8 DEF Nics, Goto, Fail
<1>9. ASSUME NEW r \in Req, Detach(r) PROVE RejectionsAreRaces'
  BY <1>9 DEF Detach, Target, Change, Current, Goto, Fail
<1>10. ASSUME NEW r \in Req, Attach(r) PROVE RejectionsAreRaces'
  BY <1>10 DEF Attach, Target, Change, Current, Goto, Fail
<1>11. ASSUME NEW r \in Req, Confirm(r) PROVE RejectionsAreRaces'
  BY <1>11 DEF Confirm, Current, Goto, Fail
<1>12. ASSUME NEW r \in Req, Meta(r) PROVE RejectionsAreRaces'
  BY <1>12 DEF Meta, Target, Change, Goto, Fail
<1>13. ASSUME NEW r \in Req, Fault(r) PROVE RejectionsAreRaces'
  BY <1>13 DEF Fault, Goto, Fail, Spend
<1>14. CASE PowerOn
  BY <1>14 DEF PowerOn
<1>15. CASE PowerOff
  BY <1>15 DEF PowerOff
<1>16. CASE Undefine
  BY <1>16 DEF Undefine
<1>17. CASE Crash
  BY <1>17 DEF Crash, Spend
<1>18. CASE UNCHANGED vars
  BY <1>18 DEF vars
<1>19. QED
  BY <1>1, <1>2, <1>3, <1>4, <1>5, <1>6, <1>7, <1>8, <1>9, <1>10, <1>11, <1>12,
     <1>13, <1>14, <1>15, <1>16, <1>17, <1>18
  DEF Next, Step, Finished

-----------------------------------------------------------------------------
(***************************************************************************)
(* IInv holds throughout every behaviour.                                  *)
(***************************************************************************)
LEMMA Invariance == Safe => []IInv
<1>1. Init => IInv
  <2> SUFFICES ASSUME Init PROVE IInv
    OBVIOUS
  <2>1. 1 \in Value /\ MaxValue \in Value
    BY ConfigValueAssumption DEF Value
  <2>2. TypeOK
    BY <2>1 DEF Init, TypeOK, Config, Label, Ended
  <2>3. PresenceOK /\ PowerOK /\ FlagsOK
    BY DEF Init, PresenceOK, PowerOK, KnowsInactive, FlagsOK
  <2>4. NoDrift /\ InterfaceKept /\ RejectionsAreRaces
    BY DEF Init, NoDrift, InterfaceKept, RejectionsAreRaces, Gone
  <2>5. QED
    BY <2>2, <2>3, <2>4 DEF IInv
<1>2. IInv /\ [Next]_vars => IInv'
  BY TypeStep, PresenceStep, PowerStep, FlagsStep, DriftStep, InterfaceStep, RejectionStep
  DEF IInv
<1>3. QED
  BY <1>1, <1>2, PTL DEF Safe

(***************************************************************************)
(* Every variable keeps its type.                                          *)
(***************************************************************************)
THEOREM TypeCorrect == Safe => []TypeOK
<1>1. IInv => TypeOK
  BY DEF IInv
<1>2. QED
  BY <1>1, Invariance, PTL

(***************************************************************************)
(* Whatever number of requests overlap, fail or are killed, a running      *)
(* domain and its definition agree until a decision is overtaken.          *)
(***************************************************************************)
THEOREM ConfigurationsAgree == Safe => []NoDrift
<1>1. IInv => NoDrift
  BY DEF IInv
<1>2. QED
  BY <1>1, Invariance, PTL

(***************************************************************************)
(* Any number of requests may set the VLAN of the interface at once: it is *)
(* not lost among them.                                                    *)
(***************************************************************************)
THEOREM InterfaceSurvives == Safe => []InterfaceKept
<1>1. IInv => InterfaceKept
  BY DEF IInv
<1>2. QED
  BY <1>1, Invariance, PTL

(***************************************************************************)
(* libvirt accepts every combination of flags the code puts together,      *)
(* unless the domain changed under the request.                            *)
(***************************************************************************)
THEOREM FlagsAccepted == Safe => []RejectionsAreRaces
<1>1. IInv => RejectionsAreRaces
  BY DEF IInv
<1>2. QED
  BY <1>1, Invariance, PTL
=============================================================================
