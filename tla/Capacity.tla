------------------------------ MODULE Capacity ------------------------------
(***************************************************************************)
(* What the daemon tells of the resources of its host: CheckResources (all *)
(* its checks are checks of Create, too), HypervisorInfo, and the network  *)
(* of an interface in Info, while domains start and stop and memory and    *)
(* storage come and go.  Each is put together from many calls and keeps    *)
(* nothing, so one request at a time is enough.                            *)
(*                                                                         *)
(* Numbers are unsigned machine words where the code's are.                *)
(***************************************************************************)
EXTENDS Integers, FiniteSets, Sequences

CONSTANTS
  Word,        \* how many values a machine word has
  Cpus,        \* physical CPUs
  MinMemory,   \* the least a domain is given
  MinStorage,  \* what has to be left in a pool
  MemInfo,     \* contents of /proc/meminfo
  PoolInfo,    \* states of the pool
  Networks,    \* Networks[i]: the virtual functions of the i-th network
  Domain,      \* domains, each with one CPU and one interface at most
  NewName,     \* valid names no domain has
  BadName,     \* a name that is empty or has no valid character
  Elsewhere,   \* virtual functions of no network
  NoVF,        \* no virtual function
  Asked,       \* what CheckResources is asked for
  Budget       \* how many calls may fail

VF == UNION {Networks[i] : i \in DOMAIN Networks}
Quantity == 0..Word - 1

\* A name no network has; networks are known by their numbers.
NoNetwork == 0

\* CPUs are counted in half a word (unsigned int).
ASSUME WordAssumption == Word \in Nat /\ Cpus \in 0..(Word \div 2) - 1
ASSUME LeastAssumption == MinMemory \in Nat \ {0} /\ MinStorage \in Nat
ASSUME MemInfoAssumption ==
  MemInfo \subseteq [total : Quantity, free : Quantity, cached : Quantity,
                     buffers : Quantity, available : Quantity]
ASSUME PoolInfoAssumption == PoolInfo \subseteq [running : BOOLEAN, available : Quantity]
ASSUME NetworksAssumption ==
  /\ Networks \in Seq(SUBSET VF) /\ \A i \in DOMAIN Networks : IsFiniteSet(Networks[i])
  /\ NoVF \notin VF \union Elsewhere /\ VF \intersect Elsewhere = {}
ASSUME DomainAssumption == IsFiniteSet(Domain)
ASSUME NewNameAssumption == NewName \intersect Domain = {} /\ BadName \notin NewName
ASSUME AskedAssumption ==
  /\ Asked # {}
  /\ Asked \subseteq [name : Domain \union NewName \union {BadName},
                    vcpu : -(Word \div 2)..(Word \div 2) - 1, memory : Quantity,
                    network : DOMAIN Networks \union {NoNetwork}]
ASSUME CapacityBudgetAssumption == Budget \in Nat

VARIABLES
  mem, pool,   \* the host's memory and pool
  nic,         \* nic[d]: the address in the XML of d; of most, while they run
  op, ask,     \* what is requested, and what CheckResources is asked for
  vf,          \* the address Info names the network of
  pc,          \* the step the request takes next
  todo,        \* the domains whose interfaces it has still to look at
  at,          \* the network it is at
  used,        \* the virtual functions it found in use
  report,      \* what HypervisorInfo has put together
  faults,      \* calls that failed
  changed      \* history: the host has changed since the request began

hostVars == <<mem, pool, nic>>
requestVars == <<op, ask, vf, pc, todo, at, used, report>>
asked == <<hostVars, op, ask, vf>>
capacityVars == <<hostVars, requestVars, faults, changed>>

Ended == {"ok", "error"}
NoReport == [memory |-> 0, vcpus |-> 0, networks |-> << >>, name |-> 0]

Init ==
  /\ mem \in MemInfo /\ pool \in PoolInfo
  /\ nic \in [Domain -> VF \union Elsewhere \union {NoVF}]
  /\ op = "none" /\ ask = (CHOOSE a \in Asked : TRUE) /\ vf = NoVF
  /\ pc = "idle"
  /\ todo = {} /\ at = 1 /\ used = 0 /\ report = NoReport
  /\ faults = 0 /\ changed = FALSE

Goto(label) == pc' = label
Fault == faults < Budget /\ faults' = faults + 1

-----------------------------------------------------------------------------
(***************************************************************************)
(* getNodeMemoryStats                                                      *)
(***************************************************************************)
Available(m) == IF m.available > m.total THEN m.free ELSE m.available

\* The check for a result below zero is never true of an unsigned word.
Used(m) == (m.total - m.free - m.cached - m.buffers) % Word

-----------------------------------------------------------------------------
(***************************************************************************)
(* CheckResources; Create looks at the UUID, the template and the MAC      *)
(* besides.                                                                *)
(***************************************************************************)
Check ==
  /\ pc = "idle"
  /\ op' = "CheckResources" /\ ask' \in Asked
  /\ Goto("free")
  /\ UNCHANGED <<hostVars, vf, todo, at, used, report, faults, changed>>

\* isDomainNameValidAndAvailable: a lookup that fails finds nothing.
FreeName ==
  /\ pc = "free"
  /\ \/ ask.name \in NewName /\ Goto("vcpu") /\ UNCHANGED faults
     \/ ask.name \notin NewName /\ Goto("error") /\ UNCHANGED faults
     \/ ask.name # BadName /\ Goto("vcpu") /\ Fault
  /\ UNCHANGED <<asked, todo, at, used, report, changed>>

Verdict(fits, label) ==
  /\ \/ fits /\ Goto(label) /\ UNCHANGED faults
     \/ ~fits /\ Goto("error") /\ UNCHANGED faults
     \/ Goto("error") /\ Fault
  /\ UNCHANGED <<asked, todo, at, used, report, changed>>

\* A negative number is a large one.
VCPU == pc = "vcpu" /\ Verdict(ask.vcpu # 0 /\ ask.vcpu % Word <= Cpus, "memory")

Memory ==
  /\ pc = "memory"
  /\ Verdict(/\ ask.memory >= MinMemory
             /\ (2 * ask.memory) % Word <= Available(mem), "storage")

Storage == pc = "storage" /\ Verdict(pool.running /\ pool.available >= MinStorage, "list")

-----------------------------------------------------------------------------
(***************************************************************************)
(* getNetworkVFCount: the interfaces of one domain after the other, those  *)
(* of a domain that does not tell are passed over.                         *)
(***************************************************************************)
Counted == IF pc = "count" THEN ask.network ELSE at

List(from, label, otherwise) ==
  /\ pc = from
  /\ \/ /\ todo' = Domain /\ used' = 0
        /\ Goto(label)
        /\ UNCHANGED <<at, faults>>
     \/ Fault /\ otherwise /\ UNCHANGED <<todo, used>>
  /\ UNCHANGED <<asked, report, changed>>

Count ==
  /\ pc \in {"count", "entry"}
  /\ \E d \in todo :
       /\ todo' = todo \ {d}
       /\ \/ /\ used' = IF nic[d] \in Networks[Counted] THEN used + 1 ELSE used
             /\ UNCHANGED faults
          \/ Fault /\ UNCHANGED used
  /\ UNCHANGED <<asked, pc, at, report, changed>>

\* Mutant: all virtual functions may be given away.
TotalAll(i) == Cardinality(Networks[i])

\* One virtual function is kept back.
Total(i) == Cardinality(Networks[i]) - 1

\* lookupNetworkByName
Unknown ==
  /\ pc = "list" /\ ask.network = NoNetwork
  /\ Goto("error")
  /\ UNCHANGED <<asked, todo, at, used, report, faults, changed>>

\* isNetworkVFAvailable
Answer ==
  /\ pc = "count" /\ todo = {}
  /\ Goto(IF used >= Total(ask.network) THEN "error" ELSE "ok")
  /\ UNCHANGED <<asked, todo, at, used, report, faults, changed>>

CheckResources ==
  \/ Check \/ FreeName \/ VCPU \/ Memory \/ Storage \/ Unknown
  \/ ask.network # NoNetwork /\ List("list", "count", Goto("error") /\ UNCHANGED at)
  \/ Count \/ Answer

-----------------------------------------------------------------------------
(***************************************************************************)
(* HypervisorInfo: getNodeInfoResponse.                                    *)
(***************************************************************************)
Statistics ==
  /\ pc = "idle"
  /\ op' = "HypervisorInfo"
  /\ \/ /\ report' = [report EXCEPT !.memory = Used(mem)]
        /\ todo' = Domain
        /\ Goto("vcpus") /\ UNCHANGED faults
     \/ Goto("error") /\ Fault /\ UNCHANGED <<todo, report>>
  /\ UNCHANGED <<hostVars, ask, vf, at, used, changed>>

\* getNumOfAssignedNodeVCPUs
VCPUs ==
  /\ pc = "vcpus"
  /\ \/ \E d \in todo :
          /\ todo' = todo \ {d}
          /\ \/ report' = [report EXCEPT !.vcpus = @ + 1] /\ UNCHANGED faults
             \/ Fault /\ UNCHANGED report
        /\ UNCHANGED pc
     \/ /\ todo = {}
        /\ Goto(IF Networks = << >> THEN "ok" ELSE "network")
        /\ UNCHANGED <<todo, report, faults>>
  /\ UNCHANGED <<asked, at, used, changed>>

NotNegative(n) == IF n < 0 THEN 0 ELSE n

\* A network that cannot be looked at is left out.
NextNetwork ==
  /\ at' = at + 1
  /\ Goto(IF at = Len(Networks) THEN "ok" ELSE "network")

Entry ==
  /\ pc = "entry" /\ todo = {}
  /\ report' = [report EXCEPT !.networks = Append(@,
                  [network |-> at, used |-> used, total |-> NotNegative(Total(at)),
                   available |-> NotNegative(NotNegative(Total(at)) - used)])]
  /\ NextNetwork
  /\ UNCHANGED <<asked, todo, used, faults, changed>>

HypervisorInfo ==
  Statistics \/ VCPUs \/ List("network", "entry", NextNetwork) \/ Count \/ Entry

-----------------------------------------------------------------------------
(***************************************************************************)
(* Info: getNetworkNameForVFAddress, for an interface of a domain.         *)
(***************************************************************************)
Interface ==
  /\ pc = "idle"
  /\ op' = "Info"
  /\ \E d \in Domain : nic[d] # NoVF /\ vf' = nic[d]
  /\ Goto("name")
  /\ UNCHANGED <<hostVars, ask, todo, at, used, report, faults, changed>>

\* Mutant: the network that is found ends the search in itself only.
NameGoingOn ==
  /\ pc = "name"
  /\ at \in DOMAIN Networks
  /\ at' = at + 1
  /\ \/ report' = [report EXCEPT !.name = at] /\ UNCHANGED faults
     \/ \E name \in {0, at} : report' = [report EXCEPT !.name = name] /\ Fault
  /\ UNCHANGED <<asked, pc, todo, used, changed>>

\* The name is that of the network last looked at, found or not.
Name ==
  /\ pc = "name"
  /\ at \in DOMAIN Networks
  /\ \/ /\ report' = [report EXCEPT !.name = at]
        /\ IF vf \in Networks[at] THEN Goto("ok") /\ UNCHANGED at
                                  ELSE at' = at + 1 /\ UNCHANGED pc
        /\ UNCHANGED faults
     \/ /\ \E name \in {0, at} : report' = [report EXCEPT !.name = name]
        /\ at' = at + 1
        /\ Fault /\ UNCHANGED pc
  /\ UNCHANGED <<asked, todo, used, changed>>

Named ==
  /\ pc = "name"
  /\ at \notin DOMAIN Networks
  /\ Goto(IF report.name = 0 THEN "error" ELSE "ok")
  /\ UNCHANGED <<asked, todo, at, used, report, faults, changed>>

InfoNetwork == Interface \/ Name \/ Named

-----------------------------------------------------------------------------
(***************************************************************************)
(* The host.                                                               *)
(***************************************************************************)
InUse == {nic[d] : d \in Domain} \ {NoVF}

\* libvirt gives a domain a virtual function of its network that is free.
PowerOn(d) ==
  /\ nic[d] = NoVF
  /\ \E v \in VF \ InUse : nic' = [nic EXCEPT ![d] = v]
  /\ UNCHANGED <<mem, pool>>

PowerOff(d) == nic[d] # NoVF /\ nic' = [nic EXCEPT ![d] = NoVF] /\ UNCHANGED <<mem, pool>>

Other == mem' \in MemInfo /\ pool' \in PoolInfo /\ UNCHANGED nic

Host ==
  /\ Other \/ \E d \in Domain : PowerOn(d) \/ PowerOff(d)
  /\ changed' = (changed \/ pc # "idle")
  /\ UNCHANGED <<requestVars, faults>>

Next == CheckResources \/ HypervisorInfo \/ InfoNetwork \/ Host

Spec == Init /\ [][Next]_capacityVars

-----------------------------------------------------------------------------
(***************************************************************************)
(* Properties.                                                             *)
(***************************************************************************)
Quiet == ~changed /\ faults = 0
Shared == \E d, e \in Domain : d # e /\ nic[d] = nic[e] /\ nic[d] # NoVF

\* What is asked for, in numbers that do not wrap.
Fits ==
  /\ ask.name \in NewName
  /\ ask.vcpu \in 1..Cpus
  /\ ask.memory >= MinMemory /\ 2 * ask.memory <= Available(mem)
  /\ pool.running /\ pool.available >= MinStorage
  /\ ask.network # NoNetwork /\ Cardinality(Networks[ask.network] \ InUse) > 1

(***************************************************************************)
(* If no call fails and the host does not change meanwhile, CheckResources *)
(* answers TRUE if and only if the name is valid and free, and there is    *)
(* what it is asked for: the CPUs, twice the memory, storage, and a        *)
(* virtual function besides the one kept back.  (It may refuse if an       *)
(* address stands in the XML of two domains, which counts twice; and twice *)
(* the memory must fit a word.)                                            *)
(***************************************************************************)
QuietVerdictIsRight ==
  op = "CheckResources" /\ pc \in Ended /\ Quiet /\ 2 * ask.memory < Word =>
    /\ pc = "ok" => Fits
    /\ Fits /\ ~Shared => pc = "ok"

Consistent(m) == m.free + m.cached + m.buffers <= m.total

(***************************************************************************)
(* HypervisorInfo never reports less than none or more than all virtual    *)
(* functions as available, whatever starts and stops while it counts; if   *)
(* nothing does, the numbers are right, and the memory in use is no more   *)
(* than there is (of a host, not of a container, whose numbers may be      *)
(* inconsistent).  Info names the right network for an address that is in  *)
(* one, if no call fails.                                                  *)
(***************************************************************************)
ReportIsTrue ==
  /\ op = "HypervisorInfo" /\ pc = "ok" =>
       \A i \in DOMAIN report.networks :
         LET entry == report.networks[i]
             here == Networks[entry.network] IN
         /\ entry.available \in 0..Cardinality(here)
         /\ Quiet /\ ~Shared =>
              /\ entry.used = Cardinality(here \intersect InUse)
              /\ entry.available = NotNegative(Cardinality(here \ InUse) - 1)
  /\ op = "HypervisorInfo" /\ pc = "ok" /\ Quiet =>
       /\ report.vcpus = Cardinality(Domain)
       /\ Len(report.networks) = Len(Networks)
       /\ Consistent(mem) => report.memory <= mem.total
  /\ op = "Info" /\ pc = "ok" /\ vf \in VF /\ faults = 0 => vf \in Networks[report.name]
=============================================================================
