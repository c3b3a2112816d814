---------------------------- MODULE DomainConfig ----------------------------
(***************************************************************************)
(* The handlers of jrpc.go that change the configuration of one domain,    *)
(* with what they call in memory.go, cpu.go, scheduler.go, block.go,       *)
(* interfaces.go and metadata.go, while somebody else starts, stops or     *)
(* undefines the domain.                                                   *)
(*                                                                         *)
(* A running domain has a live configuration, a persistent one a stored    *)
(* configuration.  Four fields stand for all that is set: "current" for    *)
(* what SetMemory, SetVCPUs, SetMemoryStatsPeriod, SetDomainSchedulerCPU-  *)
(* Shares and SetDomainDeviceIOPS set by the same code, "maximum" for      *)
(* SetMaxMemory and SetMaxVCPUs, "nic" for the VLAN of the interface that  *)
(* SetPVIDForNetworkDevice detaches and attaches, "speed" for the metadata *)
(* of SetNetworkSpeed.                                                     *)
(*                                                                         *)
(* The gate, the lookup and the look at block jobs that precede all this   *)
(* may refuse the request; DomainRpc models what they look at.             *)
(***************************************************************************)
EXTENDS Naturals

CONSTANTS
  Req,       \* requests
  Plan,      \* Plan[r]: the operations request r may be
  MaxValue,  \* values are 1..MaxValue
  Budget     \* how often each adversity may strike

Value == 1..MaxValue
Op == {"Set", "SetMax", "SetPVID", "SetSpeed"}
Adversity == {"fault", "misread", "crash"}

ASSUME ConfigPlanAssumption == Plan \in [Req -> SUBSET Op]
ASSUME ConfigBudgetAssumption == Budget \in [Adversity -> Nat]
ASSUME ConfigValueAssumption == MaxValue \in Nat \ {0}

VARIABLES
  dom,         \* "absent", "off" or "on"
  persistent,  \* the domain has a stored configuration
  stored,      \* that configuration
  live,        \* the configuration of the running domain
  pc,          \* the step request r takes next
  op,          \* what it is
  value,       \* the value its client asked for
  flags,       \* the configurations it has decided to change
  spent,       \* spent[a]: how often adversity a has struck
  raced        \* history: requests whose decision was overtaken by a change

hostVars == <<dom, persistent, stored, live>>
localVars == <<op, value, flags>>
vars == <<hostVars, pc, localVars, spent, raced>>

Gone == 0     \* the domain has no such interface

Config == [current : Value, maximum : Value, speed : Value, nic : Value \union {Gone}]

Ended == {"ok", "error", "rejected", "lost"}
Label == {"idle", "checks", "persist", "active", "set", "max", "inactive", "nics",
          "detach", "attach", "confirm", "meta"} \union Ended

TypeOK ==
  /\ dom \in {"absent", "off", "on"}
  /\ persistent \in BOOLEAN
  /\ stored \in Config
  /\ live \in Config
  /\ pc \in [Req -> Label]
  /\ op \in [Req -> Op \union {"none"}]
  /\ value \in [Req -> Value]
  /\ flags \in [Req -> SUBSET {"config", "live"}]
  /\ spent \in [Adversity -> Nat]
  /\ raced \subseteq Req

\* A domain somebody else may have started without a definition.
Init ==
  /\ dom \in {"off", "on"}
  /\ persistent \in {TRUE, dom # "on"}
  /\ stored = [current |-> 1, maximum |-> MaxValue, speed |-> 1, nic |-> 1]
  /\ live = stored
  /\ pc = [r \in Req |-> "idle"]
  /\ op = [r \in Req |-> "none"]
  /\ value = [r \in Req |-> 1]
  /\ flags = [r \in Req |-> {}]
  /\ spent = [a \in Adversity |-> 0]
  /\ raced = {}

Goto(r, label) == pc' = [pc EXCEPT ![r] = label]
Fail(r) == Goto(r, "error")

Spend(a) ==
  /\ spent[a] < Budget[a]
  /\ spent' = [spent EXCEPT ![a] = @ + 1]

\* isDomainActive and isDomainPersistent take an error for a FALSE.
Told(answer, truth) ==
  \/ answer = truth /\ UNCHANGED spent
  \/ answer = FALSE /\ Spend("misread")

-----------------------------------------------------------------------------
(***************************************************************************)
(* libvirt.  No flag at all means the live configuration of a running      *)
(* domain and the stored one of any other.                                 *)
(***************************************************************************)
Target(fs) ==
  IF fs # {} THEN fs ELSE IF dom = "on" THEN {"live"} ELSE {"config"}

Acceptable(target) ==
  /\ "live" \in target => dom = "on"
  /\ "config" \in target => persistent

Change(target, edited(_)) ==
  /\ live' = IF "live" \in target THEN edited(live) ELSE live
  /\ stored' = IF "config" \in target THEN edited(stored) ELSE stored
  /\ UNCHANGED <<dom, persistent>>

Current == IF dom = "on" THEN live ELSE stored

\* Lowering the maximum takes the current value with it.
WithMaximum(c, v) ==
  [c EXCEPT !.maximum = v, !.current = IF c.current > v THEN v ELSE c.current]

-----------------------------------------------------------------------------
(***************************************************************************)
(* Head of the handlers.                                                   *)
(***************************************************************************)
FirstStep(o) ==
  CASE o = "Set" -> "persist"
    [] o = "SetMax" -> "max"
    [] OTHER -> "inactive"

\* SetMaxMemory and SetMaxVCPUs look at the power state before the block jobs.
Enter(r) ==
  /\ pc[r] = "idle"
  /\ \E o \in Plan[r], v \in Value :
       /\ op' = [op EXCEPT ![r] = o]
       /\ value' = [value EXCEPT ![r] = v]
       /\ IF o = "SetMax"
          THEN \E active \in BOOLEAN :
                 /\ Told(active, dom = "on")
                 /\ IF active THEN Fail(r) ELSE Goto(r, "checks")
          ELSE Goto(r, "checks") /\ UNCHANGED spent
  /\ UNCHANGED <<hostVars, flags, raced>>

Checks(r) ==
  /\ pc[r] = "checks"
  /\ IF dom = "absent" THEN Fail(r) ELSE Goto(r, FirstStep(op[r])) \/ Fail(r)
  /\ UNCHANGED <<hostVars, localVars, spent, raced>>

-----------------------------------------------------------------------------
(***************************************************************************)
(* setDomainCurrentMemory and its like: each of two questions adds a flag. *)
(***************************************************************************)
ReadPersistent(r) ==
  /\ pc[r] = "persist"
  /\ \E answer \in BOOLEAN :
       /\ Told(answer, dom # "absent" /\ persistent)
       /\ flags' = [flags EXCEPT ![r] = IF answer THEN {"config"} ELSE {}]
  /\ Goto(r, "active")
  /\ UNCHANGED <<hostVars, op, value, raced>>

\* Mutant: the flag replaces the one that is there already.
ReadActiveReplacing(r) ==
  /\ pc[r] = "active"
  /\ \E answer \in BOOLEAN :
       /\ Told(answer, dom = "on")
       /\ flags' = [flags EXCEPT ![r] = IF answer THEN {"live"} ELSE @]
  /\ Goto(r, "set")
  /\ UNCHANGED <<hostVars, op, value, raced>>

\* Mutant: both configurations are asked for without a look.
ReadActiveBlindly(r) ==
  /\ pc[r] = "active"
  /\ flags' = [flags EXCEPT ![r] = {"config", "live"}]
  /\ Goto(r, "set")
  /\ UNCHANGED <<hostVars, op, value, spent, raced>>

ReadActive(r) ==
  /\ pc[r] = "active"
  /\ \E answer \in BOOLEAN :
       /\ Told(answer, dom = "on")
       /\ flags' = [flags EXCEPT ![r] = IF answer THEN @ \union {"live"} ELSE @]
  /\ Goto(r, "set")
  /\ UNCHANGED <<hostVars, op, value, raced>>

\* libvirt rejects what does not fit the domain it finds by now.
Set(r) ==
  /\ pc[r] = "set"
  /\ LET target == Target(flags[r])
         fits(c) == value[r] <= c.maximum
         edited(c) == [c EXCEPT !.current = value[r]]
         fitting == /\ "live" \in target => fits(live)
                    /\ "config" \in target => fits(stored)
     IN  IF dom # "absent" /\ Acceptable(target) /\ fitting
         THEN Change(target, edited) /\ Goto(r, "ok")
         ELSE /\ IF dom = "absent" \/ Acceptable(target) THEN Fail(r) ELSE Goto(r, "rejected")
              /\ UNCHANGED hostVars
  /\ UNCHANGED <<localVars, spent, raced>>

\* Mutant: the maximum is raised by the value instead of set to it.
SetMaxRaising(r) ==
  /\ pc[r] = "max"
  /\ LET edited(c) == WithMaximum(c, c.maximum + value[r])
     IN  IF Acceptable({"config"}) THEN Change({"config"}, edited) /\ Goto(r, "ok")
         ELSE Goto(r, "rejected") /\ UNCHANGED hostVars
  /\ UNCHANGED <<localVars, spent, raced>>

\* setDomainMaxMemory, setDomainMaxVCPUs: always the stored configuration.
SetMax(r) ==
  /\ pc[r] = "max"
  /\ LET edited(c) == WithMaximum(c, value[r])
     IN  IF dom = "absent" THEN Fail(r) /\ UNCHANGED hostVars
         ELSE IF Acceptable({"config"}) THEN Change({"config"}, edited) /\ Goto(r, "ok")
         ELSE Goto(r, "rejected") /\ UNCHANGED hostVars
  /\ UNCHANGED <<localVars, spent, raced>>

-----------------------------------------------------------------------------
(***************************************************************************)
(* setPVIDForDomainNetworkDevice and setDomainMetadataNetworkRate.         *)
(***************************************************************************)
Inactive(r) ==
  /\ pc[r] = "inactive"
  /\ \E active \in BOOLEAN :
       /\ Told(active, dom = "on")
       /\ IF active THEN Fail(r)
          ELSE Goto(r, IF op[r] = "SetPVID" THEN "nics" ELSE "meta")
  /\ UNCHANGED <<hostVars, localVars, raced>>

\* The XML of a running domain names a device of the host, not a network.
Nics(r) ==
  /\ pc[r] = "nics"
  /\ IF dom = "off" /\ stored.nic # Gone THEN Goto(r, "detach") ELSE Fail(r)
  /\ UNCHANGED <<hostVars, localVars, spent, raced>>

Detach(r) ==
  /\ pc[r] = "detach"
  /\ LET edited(c) == [c EXCEPT !.nic = Gone]
     IN  IF dom # "absent" /\ Current.nic # Gone
         THEN Change(Target({}), edited) /\ Goto(r, "attach")
         ELSE Fail(r) /\ UNCHANGED hostVars
  /\ UNCHANGED <<localVars, spent, raced>>

\* Mutant: nothing is attached if the VLAN is the one that was there.
AttachIfChanged(r) ==
  /\ pc[r] = "attach"
  /\ LET edited(c) == [c EXCEPT !.nic = value[r]]
     IN  IF dom # "absent" /\ Current.nic = Gone /\ value[r] # 1
         THEN Change(Target({}), edited)
         ELSE UNCHANGED hostVars
  /\ Goto(r, "confirm")
  /\ UNCHANGED <<localVars, spent, raced>>

Attach(r) ==
  /\ pc[r] = "attach"
  /\ LET edited(c) == [c EXCEPT !.nic = value[r]]
     IN  IF dom # "absent" /\ Current.nic = Gone
         THEN Change(Target({}), edited) /\ Goto(r, "confirm")
         ELSE Fail(r) /\ UNCHANGED hostVars
  /\ UNCHANGED <<localVars, spent, raced>>

\* The last look asks for the interface, not for its VLAN.
Confirm(r) ==
  /\ pc[r] = "confirm"
  /\ IF dom # "absent" /\ Current.nic # Gone THEN Goto(r, "ok") ELSE Fail(r)
  /\ UNCHANGED <<hostVars, localVars, spent, raced>>

\* The metadata are read and written back with the new rate.
Meta(r) ==
  /\ pc[r] = "meta"
  /\ LET edited(c) == [c EXCEPT !.speed = value[r]]
     IN  IF dom # "absent" THEN Change(Target({}), edited) /\ Goto(r, "ok")
         ELSE Fail(r) /\ UNCHANGED hostVars
  /\ UNCHANGED <<localVars, spent, raced>>

-----------------------------------------------------------------------------
(***************************************************************************)
(* Start, Shutdown, Destroy, the guest and other clients of libvirtd.      *)
(***************************************************************************)

\* Requests that have decided by a power state that is about to change.
RelyOnPower ==
  {r \in Req : \/ pc[r] \in {"set", "max", "nics", "detach", "attach", "meta"}
               \/ pc[r] = "checks" /\ op[r] = "SetMax"}

PowerOn ==
  /\ dom = "off"
  /\ dom' = "on"
  /\ live' = stored
  /\ raced' = raced \union RelyOnPower
  /\ UNCHANGED <<persistent, stored, pc, localVars, spent>>

PowerOff ==
  /\ dom = "on"
  /\ dom' = IF persistent THEN "off" ELSE "absent"
  /\ raced' = raced \union RelyOnPower
  /\ UNCHANGED <<persistent, stored, live, pc, localVars, spent>>

Undefine ==
  /\ dom # "absent" /\ persistent
  /\ persistent' = FALSE
  /\ dom' = IF dom = "on" THEN "on" ELSE "absent"
  /\ raced' = raced \union {r \in Req : pc[r] \in {"active", "set"}}
  /\ UNCHANGED <<stored, live, pc, localVars, spent>>

-----------------------------------------------------------------------------
Fault(r) ==
  /\ pc[r] \in {"set", "max", "nics", "detach", "attach", "confirm", "meta"}
  /\ Spend("fault")
  /\ Fail(r)
  /\ UNCHANGED <<hostVars, localVars, raced>>

\* The daemon is killed.
Crash ==
  /\ \E r \in Req : pc[r] \notin Ended \union {"idle"}
  /\ Spend("crash")
  /\ pc' = [r \in Req |-> IF pc[r] \in Ended \union {"idle"} THEN pc[r] ELSE "lost"]
  /\ UNCHANGED <<hostVars, localVars, raced>>

Finished == (\A r \in Req : pc[r] \in Ended) /\ UNCHANGED vars

Step(r) ==
  \/ Checks(r) \/ ReadPersistent(r) \/ ReadActive(r) \/ Set(r) \/ SetMax(r)
  \/ Inactive(r) \/ Nics(r) \/ Detach(r) \/ Attach(r) \/ Confirm(r) \/ Meta(r)

Next ==
  \/ \E r \in Req : Enter(r) \/ Step(r) \/ Fault(r)
  \/ PowerOn \/ PowerOff \/ Undefine
  \/ Crash
  \/ Finished

Safe == Init /\ [][Next]_vars

-----------------------------------------------------------------------------
(***************************************************************************)
(* Properties.                                                             *)
(***************************************************************************)

(***************************************************************************)
(* The live and the stored configuration of a running domain differ only   *)
(* if a request was overtaken by a change of the power state or of the     *)
(* persistence it had decided by, or was told a wrong one: failing calls,  *)
(* crashes and any overlap of requests do not drive them apart.            *)
(***************************************************************************)
NoDrift ==
  dom = "on" /\ persistent /\ raced = {} /\ spent["misread"] = 0 => live = stored

(***************************************************************************)
(* A persistent domain keeps its interface: while it is off the domain, a  *)
(* request is about to attach it again, also if several set the VLAN at    *)
(* once.  It takes a failing call, a crash or a start half-way to lose it. *)
(***************************************************************************)
InterfaceKept ==
  persistent /\ raced = {} /\ spent["fault"] = 0 /\ spent["crash"] = 0 =>
    stored.nic # Gone \/ \E r \in Req : pc[r] = "attach"

(***************************************************************************)
(* The flags a request puts together fit the domain, even if it was told a *)
(* wrong state: libvirt rejects them only from a request whose decision    *)
(* was overtaken.  (SetMaxMemory and SetMaxVCPUs choose no flags; they     *)
(* need the domain to be off, and are rejected if told so wrongly.)        *)
(***************************************************************************)
RejectionsAreRaces ==
  \A r \in Req : pc[r] = "rejected" =>
    r \in raced \/ (op[r] = "SetMax" /\ spent["misread"] > 0)
=============================================================================
