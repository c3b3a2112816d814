------------------------------- MODULE NetHook -------------------------------
(***************************************************************************)
(* Network settings of one domain, from the request that asks for them to  *)
(* the virtual functions (VF) of its interfaces: SetNetworkSpeed           *)
(* (jrpc.go, metadata.go) rewrites the metadata stored in the domain, and  *)
(* the program hook/qemu.go, which libvirt runs while it starts a domain,  *)
(* applies them with ip(8), command by command.                            *)
(*                                                                         *)
(* Metadata are texts: "" is an element that is missing, "bad" one that    *)
(* the hook does not understand.                                           *)
(***************************************************************************)
EXTENDS Naturals, FiniteSets, Sequences

CONSTANTS
  Text,      \* the texts that elements of metadata hold
  Req,       \* requests SetNetworkSpeed
  Speed,     \* the rates they ask for
  Written,   \* metadata Create, older versions and virsh write
  Devices,   \* the interfaces in the domain's XML
  Lower,     \* whether the name of the domain is all in lower case
  Budget     \* how often each adversity may strike

Number == {"max_tx_rate", "qos"}
Switch == {"trust", "spoofchk", "query_rss"}
Field == Number \union Switch
Adversity == {"fault", "misread"}

Metadata == [Field -> Text]
Interface == [source : {"pci", "other"}, alias : {"hostdev", "other"}, tags : Nat,
              plain : BOOLEAN, managed : BOOLEAN, mac : {"none", "ours", "other"}]

ASSUME TextAssumption == {"", "bad", "foreign", "0", "100", "off", "on"} \subseteq Text
ASSUME SpeedAssumption == Speed \subseteq Text \ {"", "bad"}
ASSUME WrittenAssumption == Written \subseteq Metadata
ASSUME DevicesAssumption == Devices \in Seq(Interface)
ASSUME LowerAssumption == Lower \in BOOLEAN
ASSUME HookBudgetAssumption == Budget \in [Adversity -> Nat]

VARIABLES
  on,        \* the domain is "off", "starting" or "on"
  stored,    \* the metadata of its stored configuration
  live,      \* those of the one it was started with
  vf,        \* vf[i][f]: setting f of the VF of interface i
  pc,        \* the step request r takes next
  speed,     \* the rate it asks for
  got,       \* the metadata it read
  hpc,       \* the step the hook takes next
  meta,      \* the settings it read
  at,        \* the interface it is at
  found,     \* the interfaces it found the VF of
  left,      \* the commands it has still to run for interface at
  spent,     \* spent[a]: how often adversity a has struck
  raced,     \* history: requests misled, or overtaken by a start, an edit or such a one
  promised,  \* history: the settings asked for
  due,       \* history: those asked for when the domain was started
  failed     \* history: the settings whose commands failed since

domainVars == <<on, stored, live, vf>>
requestVars == <<pc, speed, got>>
hookVars == <<hpc, meta, at, found, left>>
historyVars == <<raced, promised, due, failed>>
netVars == <<domainVars, requestVars, hookVars, spent, historyVars>>

Ended == {"ok", "error"}
Nic == DOMAIN Devices

TypeOK ==
  /\ on \in {"off", "starting", "on"}
  /\ stored \in Metadata /\ live \in Metadata
  /\ vf \in [Nic -> Metadata]
  /\ pc \in [Req -> {"idle", "jobs", "inactive", "get", "set"} \union Ended]
  /\ speed \in [Req -> Text]
  /\ got \in [Req -> Metadata]
  /\ hpc \in {"idle", "read", "lookup", "apply", "done"}
  /\ meta \in Metadata
  /\ at \in Nat /\ found \subseteq Nic /\ left \subseteq Field
  /\ spent \in [Adversity -> Nat]
  /\ raced \subseteq Req
  /\ promised \in Metadata /\ due \in Metadata
  /\ failed \subseteq Nic \X Field

Goto(r, label) == pc' = [pc EXCEPT ![r] = label]
Spend(a) == spent[a] < Budget[a] /\ spent' = [spent EXCEPT ![a] = @ + 1]

Empty(m) == \A f \in Field : m[f] = ""
NoMetadata == [f \in Field |-> ""]

\* What the last owner of a VF left behind.
Foreign == [f \in Field |-> "foreign"]

Default == [f \in Field |-> CASE f = "max_tx_rate" -> "100" [] f = "qos" -> "0"
                              [] f = "spoofchk" -> "on" [] OTHER -> "off"]

\* parseMetadataXML: a missing element leaves the zero value of its type.
Understood(m) ==
  [f \in Field |-> CASE m[f] = "" /\ f \in Number -> "0"
                     [] m[f] = "bad" -> Default[f]
                     [] OTHER -> m[f]]

\* The settings metadata ask for; "": none.
Request(m) == IF Empty(m) THEN NoMetadata ELSE Understood(m)

Init ==
  /\ on = "off"
  /\ stored \in Written
  /\ live = NoMetadata
  /\ vf = [i \in Nic |-> Foreign]
  /\ pc = [r \in Req |-> "idle"]
  /\ speed = [r \in Req |-> ""]
  /\ got = [r \in Req |-> NoMetadata]
  /\ hpc = "idle" /\ meta = NoMetadata /\ at = 1 /\ found = {} /\ left = {}
  /\ spent = [a \in Adversity |-> 0]
  /\ raced = {}
  /\ promised = Request(stored) /\ due = NoMetadata
  /\ failed = {}

-----------------------------------------------------------------------------
(***************************************************************************)
(* SetNetworkSpeed.                                                        *)
(***************************************************************************)

\* What the flag DOMAIN_AFFECT_CURRENT means at this moment.
CurrentMetadata == IF on = "off" THEN stored ELSE live

Enter(r) ==
  /\ pc[r] = "idle"
  /\ \E s \in Speed : speed' = [speed EXCEPT ![r] = s]
  /\ Goto(r, "jobs")
  /\ UNCHANGED <<domainVars, got, hookVars, spent, historyVars>>

\* Of a domain that is shut down, the disks are found idle.
Jobs(r) ==
  /\ pc[r] = "jobs"
  /\ \/ Goto(r, "inactive")
     \/ on # "off" /\ Goto(r, "error")
  /\ UNCHANGED <<domainVars, speed, got, hookVars, spent, historyVars>>

\* Mutant: the power state is not asked for.
InactiveUnchecked(r) ==
  /\ pc[r] = "inactive"
  /\ Goto(r, "get")
  /\ UNCHANGED <<domainVars, speed, got, hookVars, spent, historyVars>>

\* isDomainActive takes an error for a FALSE.
Inactive(r) ==
  /\ pc[r] = "inactive"
  /\ \/ /\ Goto(r, IF on = "off" THEN "get" ELSE "error")
        /\ UNCHANGED <<spent, raced>>
     \/ /\ on # "off" /\ Spend("misread")
        /\ Goto(r, "get")
        /\ raced' = raced \union {r}
  /\ UNCHANGED <<domainVars, speed, got, hookVars, promised, due, failed>>

\* getDomainMetadata understands neither bad numbers nor an empty section.
Readable(m) == ~Empty(m) /\ \A f \in Number : m[f] # "bad"

Get(r) ==
  /\ pc[r] = "get"
  /\ IF Readable(CurrentMetadata)
     THEN got' = [got EXCEPT ![r] = CurrentMetadata] /\ Goto(r, "set")
     ELSE Goto(r, "error") /\ UNCHANGED got
  /\ UNCHANGED <<domainVars, speed, hookVars, spent, historyVars>>

\* All elements are written anew, those that were missing with a default.
Rewritten(m, s) ==
  [f \in Field |-> IF f = "max_tx_rate" THEN s ELSE IF m[f] = "" THEN Default[f] ELSE m[f]]

\* libvirt changes nothing of a domain while it starts it.
Set(r) ==
  /\ pc[r] = "set"
  /\ on # "starting"
  /\ LET new == Rewritten(got[r], speed[r])
     IN  IF on = "off" THEN stored' = new /\ UNCHANGED live
                       ELSE live' = new /\ UNCHANGED stored
  /\ promised' = IF r \in raced THEN Request(stored') ELSE Rewritten(promised, speed[r])
  /\ raced' = IF r \in raced THEN raced \union {q \in Req : pc[q] = "set"} ELSE raced
  /\ got' = [got EXCEPT ![r] = NoMetadata]
  /\ Goto(r, "ok")
  /\ UNCHANGED <<on, vf, speed, hookVars, spent, due, failed>>

Fault(r) ==
  /\ pc[r] \in {"jobs", "get", "set"}
  /\ Spend("fault")
  /\ Goto(r, "error")
  /\ UNCHANGED <<domainVars, speed, got, hookVars, historyVars>>

SetNetworkSpeed(r) == Enter(r) \/ Jobs(r) \/ Inactive(r) \/ Get(r) \/ Set(r) \/ Fault(r)

-----------------------------------------------------------------------------
(***************************************************************************)
(* The hook.                                                               *)
(***************************************************************************)
ValidInterface(nic) ==
  /\ nic.source = "pci" /\ nic.alias = "hostdev"
  /\ nic.tags = 1 /\ nic.plain            \* no trunk, no native mode
  /\ nic.managed /\ nic.mac = "ours"

Ours == {i \in Nic : ValidInterface(Devices[i])}

\* The hook ends, the start goes on whatever it did.
Exit ==
  /\ hpc' = "done" /\ on' = "on"
  /\ meta' = NoMetadata /\ at' = 1 /\ found' = {} /\ left' = {}

\* parseDomainXML, the comparison of names, parseMetadataXML
Read ==
  /\ hpc = "read"
  /\ \/ /\ Lower /\ ~Empty(live)
        /\ meta' = Understood(live)
        /\ hpc' = "lookup"
        /\ UNCHANGED <<on, at, found, left, spent, failed>>
     \/ /\ ~Lower \/ Empty(live)
        /\ Exit
        /\ UNCHANGED <<spent, failed>>
     \/ /\ Spend("fault")
        /\ failed' = Ours \X Field
        /\ Exit
  /\ UNCHANGED <<stored, live, vf, requestVars, raced, promised, due>>

\* parseIpRouteOutput: without its VF an interface is skipped.
Lookup ==
  /\ hpc = "lookup"
  /\ at \in Nic
  /\ at' = at + 1
  /\ \/ /\ found' = IF at \in Ours THEN found \union {at} ELSE found
        /\ UNCHANGED <<spent, failed>>
     \/ /\ at \in Ours /\ Spend("fault")
        /\ failed' = failed \union {at} \X Field
        /\ UNCHANGED found
  /\ UNCHANGED <<domainVars, requestVars, hpc, meta, left, raced, promised, due>>

LookedUp ==
  /\ hpc = "lookup"
  /\ at \notin Nic
  /\ hpc' = "apply" /\ at' = 0
  /\ UNCHANGED <<domainVars, requestVars, meta, found, left, spent, historyVars>>

\* The commands of one interface are collected, in the random order of a map.
Collect ==
  /\ hpc = "apply"
  /\ left = {}
  /\ \/ /\ at < Len(Devices)
        /\ at' = at + 1
        /\ left' = IF at' \in found THEN Field ELSE {}
        /\ UNCHANGED <<on, hpc, meta, found>>
     \/ at = Len(Devices) /\ Exit
  /\ UNCHANGED <<stored, live, vf, requestVars, spent, historyVars>>

Applied(f) == vf' = [vf EXCEPT ![at][f] = meta[f]] /\ UNCHANGED failed
Refused(f) == failed' = failed \union {<<at, f>>} /\ UNCHANGED vf

\* Mutant: a command that fails is the last one of its interface.
CommandGivingUp(f) ==
  /\ hpc = "apply"
  /\ f \in left
  /\ \/ meta[f] # "" /\ Applied(f) /\ left' = left \ {f} /\ UNCHANGED spent
     \/ meta[f] = "" /\ Refused(f) /\ left' = {} /\ UNCHANGED spent
     \/ Refused(f) /\ left' = {} /\ Spend("fault")
  /\ UNCHANGED <<on, stored, live, requestVars, hpc, meta, at, found, raced, promised, due>>

\* Mutant: a command that fails is run again.
CommandAgain(f) ==
  /\ hpc = "apply"
  /\ f \in left
  /\ \/ meta[f] # "" /\ Applied(f) /\ left' = left \ {f} /\ UNCHANGED spent
     \/ meta[f] = "" /\ Refused(f) /\ UNCHANGED <<left, spent>>
     \/ Refused(f) /\ UNCHANGED left /\ Spend("fault")
  /\ UNCHANGED <<on, stored, live, requestVars, hpc, meta, at, found, raced, promised, due>>

\* ip refuses an empty value; a command that fails is logged and left.
Command(f) ==
  /\ hpc = "apply"
  /\ f \in left
  /\ left' = left \ {f}
  /\ \/ meta[f] # "" /\ Applied(f) /\ UNCHANGED spent
     \/ meta[f] = "" /\ Refused(f) /\ UNCHANGED spent
     \/ Refused(f) /\ Spend("fault")
  /\ UNCHANGED <<on, stored, live, requestVars, hpc, meta, at, found, raced, promised, due>>

Hook == Read \/ Lookup \/ LookedUp \/ Collect \/ \E f \in Field : Command(f)

-----------------------------------------------------------------------------
(***************************************************************************)
(* libvirt, and an operator with virsh.                                    *)
(***************************************************************************)
PowerOn ==
  /\ on = "off"
  /\ on' = "starting"
  /\ live' = stored
  /\ hpc' = "read"
  /\ raced' = raced \union {r \in Req : pc[r] \in {"get", "set"}}
  /\ due' = promised
  /\ UNCHANGED <<stored, vf, requestVars, meta, at, found, left, spent, promised, failed>>

\* While the domain is off its VFs may serve others.
PowerOff ==
  /\ on = "on"
  /\ on' = "off"
  /\ live' = NoMetadata
  /\ vf' \in {vf, [i \in Nic |-> Foreign]}
  /\ hpc' = "idle"
  /\ failed' = {} /\ due' = NoMetadata
  /\ UNCHANGED <<stored, requestVars, meta, at, found, left, spent, raced, promised>>

\* virsh metadata --config, as shown above setDomainMetadataNetworkRate
Edit ==
  /\ on # "starting"
  /\ \E m \in Written :
       /\ m # stored
       /\ stored' = m
       /\ promised' = Request(m)
  /\ raced' = raced \union {r \in Req : pc[r] = "set"}
  /\ UNCHANGED <<on, live, vf, requestVars, hookVars, spent, due, failed>>

Next ==
  \/ \E r \in Req : SetNetworkSpeed(r)
  \/ Hook
  \/ PowerOn \/ PowerOff \/ Edit

\* libvirt waits for the hook, and the kernel runs it.
Spec == Init /\ [][Next]_netVars /\ WF_netVars(Hook)

-----------------------------------------------------------------------------
(***************************************************************************)
(* Properties.                                                             *)
(***************************************************************************)

(***************************************************************************)
(* What was asked for before a domain was started is what its VFs are set  *)
(* to when the hook is done: the rate of the last SetNetworkSpeed that was *)
(* answered TRUE with all other settings as they were before (unless the   *)
(* domain was started, or edited, between its check and its write), or     *)
(* what an operator wrote since.  A command or a lookup that fails spoils  *)
(* the settings it is for and no other, in whatever order they are run;    *)
(* what is missing in the metadata altogether stays as it was.             *)
(***************************************************************************)
AskedSettingsApplied ==
  hpc = "done" /\ Lower =>
    \A i \in Ours, f \in Field :
      <<i, f>> \in failed \/ due[f] = "" \/ vf[i][f] = due[f]

(***************************************************************************)
(* The hook never holds up a start: whatever metadata, interfaces and      *)
(* commands it meets, it ends, and libvirt starts the domain.              *)
(***************************************************************************)
StartsEnd == on = "starting" ~> on = "on"

(***************************************************************************)
(* jrpc.go:250: "SetNetworkSpeed - sets spped for all hostdev network      *)
(* devices bound to specified domain".  A domain whose name has an upper   *)
(* case letter is not recognised by the hook: its VFs stay as they were.   *)
(***************************************************************************)
SpeedSetForAllDevices ==
  hpc = "done" /\ failed = {} /\ due # NoMetadata /\ (\E r \in Req \ raced : pc[r] = "ok") =>
    \A i \in Ours : vf[i]["max_tx_rate"] # "foreign"
=============================================================================
