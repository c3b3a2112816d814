--------------------------- MODULE CapacityProofs ---------------------------
(***************************************************************************)
(* What the daemon tells of its host's resources, for any host: any number *)
(* of CPUs, domains, networks and virtual functions, any size of a machine *)
(* word, and any budget of faults.                                         *)
(***************************************************************************)
EXTENDS Capacity, FiniteSetTheorems, FunctionTheorems, TLAPS

Checking == {"free", "vcpu", "memory", "storage", "list", "count"}
Telling == {"vcpus", "network", "entry"}
Known == DOMAIN Networks

EntryType == [network : Known, used : Nat, total : Nat, available : Nat]

CapacityTypeOK ==
  /\ mem \in MemInfo /\ pool \in PoolInfo
  /\ nic \in [Domain -> VF \union Elsewhere \union {NoVF}]
  /\ op \in {"none", "CheckResources", "HypervisorInfo", "Info"}
  /\ ask \in Asked
  /\ pc \in {"idle", "name"} \union Checking \union Telling \union Ended
  /\ todo \subseteq Domain
  /\ at \in Nat \ {0} /\ used \in Nat
  /\ report \in [memory : Int, vcpus : Nat, networks : Seq(EntryType), name : Nat]
  /\ faults \in Nat /\ changed \in BOOLEAN

(***************************************************************************)
(* Every label is reached by the request that has it only, with the        *)
(* networks it counts at being there.                                      *)
(***************************************************************************)
OpOK ==
  /\ op = "none" <=> pc = "idle"
  /\ pc \in Checking => op = "CheckResources"
  /\ pc \in Telling => op = "HypervisorInfo"
  /\ pc = "name" => op = "Info"
  /\ pc = "count" => ask.network \in Known
  /\ pc \in {"network", "entry"} => at \in Known
  /\ pc \in {"idle", "vcpus"} => at = 1
  /\ pc \in {"idle", "vcpus"} => report.networks = << >>
  /\ pc = "idle" => report.vcpus = 0 /\ report.name = 0

\* The domains with a virtual function of the i-th network, counted one by one.
Holders(i) == {d \in Domain : nic[d] \in Networks[i]}
Assigned(i) == Cardinality(Holders(i))

(***************************************************************************)
(* The count goes on as far as the domains looked at.                      *)
(***************************************************************************)
CountOK ==
  pc \in {"count", "entry"} /\ Quiet => used = Cardinality(Holders(Counted) \ todo)

(***************************************************************************)
(* CheckResources has passed a check if and only if there is what it asks  *)
(* for.                                                                    *)
(***************************************************************************)
NameFits == ask.name \in NewName
CPUsFit == ask.vcpu # 0 /\ ask.vcpu % Word <= Cpus
MemoryFits == ask.memory >= MinMemory /\ (2 * ask.memory) % Word <= Available(mem)
StorageFits == pool.running /\ pool.available >= MinStorage
NetworkFits == ask.network # NoNetwork /\ Assigned(ask.network) < Total(ask.network)

VerdictOK ==
  op = "CheckResources" /\ Quiet =>
    /\ pc \in {"vcpu", "memory", "storage", "list", "count", "ok"} => NameFits
    /\ pc \in {"memory", "storage", "list", "count", "ok"} => CPUsFit
    /\ pc \in {"storage", "list", "count", "ok"} => MemoryFits
    /\ pc \in {"list", "count", "ok"} => StorageFits
    /\ pc = "ok" => NetworkFits
    /\ pc = "error" => ~(NameFits /\ CPUsFit /\ MemoryFits /\ StorageFits /\ NetworkFits)

(***************************************************************************)
(* What HypervisorInfo has put together so far.                            *)
(***************************************************************************)
Reported(e) == \E i \in DOMAIN report.networks : report.networks[i] = e

EntryOK(e) ==
  /\ e.available \in 0..Cardinality(Networks[e.network])
  /\ Quiet => /\ e.used = Assigned(e.network)
              /\ e.available = NotNegative(NotNegative(Total(e.network)) - e.used)

ReportOK ==
  op = "HypervisorInfo" =>
    /\ \A e \in EntryType : Reported(e) => EntryOK(e)
    /\ Quiet =>
         /\ pc # "error" => report.memory = Used(mem)
         /\ pc = "vcpus" => report.vcpus = Cardinality(Domain \ todo)
         /\ pc \in {"network", "entry", "ok"} => report.vcpus = Cardinality(Domain)
         /\ pc \in {"network", "entry"} => Len(report.networks) = at - 1
         /\ pc = "ok" => Len(report.networks) = Len(Networks)

(***************************************************************************)
(* Info has looked in vain where it has been, or found the address.        *)
(***************************************************************************)
NameOK ==
  op = "Info" /\ faults = 0 =>
    /\ pc = "name" => \A i \in Known : i < at => vf \notin Networks[i]
    /\ pc = "ok" => vf \notin VF \/ vf \in Networks[report.name]

IInv == CapacityTypeOK /\ OpOK /\ CountOK /\ VerdictOK /\ ReportOK /\ NameOK

-----------------------------------------------------------------------------
(***************************************************************************)
(* Finite sets and machine words.                                          *)
(***************************************************************************)
LEMMA NetworkFinite ==
  ASSUME NEW i \in Known
  PROVE  /\ Known = 1..Len(Networks) /\ Len(Networks) \in Nat
         /\ Networks[i] \subseteq VF
         /\ IsFiniteSet(Networks[i]) /\ Cardinality(Networks[i]) \in Nat
         /\ Total(i) \in Int /\ NotNegative(Total(i)) \in 0..Cardinality(Networks[i])
<1>1. Cardinality(Networks[i]) \in Nat
  BY NetworksAssumption, FS_CardinalityType DEF Known
<1> QED BY <1>1, NetworksAssumption DEF Known, VF, Total, NotNegative

LEMMA Counting ==
  ASSUME NEW S \in SUBSET Domain
  PROVE  IsFiniteSet(S) /\ Cardinality(S) \in Nat
BY DomainAssumption, FS_Subset, FS_CardinalityType

LEMMA CountOneMore ==
  ASSUME NEW S \in SUBSET Domain, NEW T \in SUBSET Domain, NEW d \in T
  PROVE  Cardinality(S \ (T \ {d})) = IF d \in S THEN Cardinality(S \ T) + 1
                                                 ELSE Cardinality(S \ T)
<1>1. IsFiniteSet(S \ T)
  BY Counting
<1>2. CASE d \in S
  <2>1. S \ (T \ {d}) = (S \ T) \union {d}
    BY <1>2
  <2> QED BY <1>1, <1>2, <2>1, FS_AddElement
<1>3. CASE d \notin S
  <2>1. S \ (T \ {d}) = S \ T
    BY <1>3
  <2> QED BY <1>3, <2>1
<1> QED BY <1>2, <1>3

(***************************************************************************)
(* A negative number of CPUs is more than there are.                       *)
(***************************************************************************)
LEMMA WordsWrap ==
  ASSUME NEW n \in -(Word \div 2)..(Word \div 2) - 1
  PROVE  n # 0 /\ n % Word <= Cpus <=> n \in 1..Cpus
<1>1. Word \in Nat /\ Word \div 2 \in Nat /\ Word >= 2 * (Word \div 2) /\ Word \div 2 > 0
  BY WordAssumption
<1>2. CASE n >= 0
  <2>1. n \in 0..Word - 1
    BY <1>1, <1>2
  <2>2. n % Word = n
    BY <1>1, <2>1
  <2> QED BY <1>2, <2>2, WordAssumption
<1>3. CASE n < 0
  <2>1. n + Word \in 0..Word - 1 /\ n + Word >= Word \div 2
    BY <1>1, <1>3
  <2>2. n % Word = n + Word
    BY <1>1, <2>1
  <2> QED BY <1>1, <1>3, <2>1, <2>2, WordAssumption
<1> QED BY <1>2, <1>3

LEMMA UsedIsAWord ==
  ASSUME NEW m \in MemInfo
  PROVE  Used(m) \in Int /\ (Consistent(m) => Used(m) <= m.total)
<1>1. /\ m.total \in 0..Word - 1 /\ m.free \in 0..Word - 1
      /\ m.cached \in 0..Word - 1 /\ m.buffers \in 0..Word - 1
  BY MemInfoAssumption DEF Quantity
<1> DEFINE rest == m.total - m.free - m.cached - m.buffers
<1>2. Word \in Nat \ {0} /\ rest \in Int /\ rest <= m.total
  BY <1>1, WordAssumption
<1>3. rest % Word \in Int
  BY <1>2
<1>4. CASE Consistent(m)
  <2>1. rest \in 0..Word - 1
    BY <1>1, <1>2, <1>4 DEF Consistent
  <2>2. rest % Word = rest
    BY <1>2, <2>1
  <2> QED BY <1>2, <2>2 DEF Used
<1> QED BY <1>3, <1>4 DEF Used

-----------------------------------------------------------------------------
(***************************************************************************)
(* The actions, one by one.                                                *)
(***************************************************************************)
ListAsked == ask.network # NoNetwork /\ List("list", "count", Goto("error") /\ UNCHANGED at)
ListNext == List("network", "entry", NextNetwork)
HostStep == Host \/ UNCHANGED capacityVars

LEMMA Actions ==
  ASSUME [Next]_capacityVars
  PROVE  \/ Check \/ FreeName \/ VCPU \/ Memory \/ Storage
         \/ Unknown \/ ListAsked \/ Count \/ Answer
         \/ Statistics \/ VCPUs \/ ListNext \/ Entry
         \/ Interface \/ Name \/ Named \/ HostStep
BY DEF Next, CheckResources, HypervisorInfo, InfoNetwork, ListAsked, ListNext, HostStep

(***************************************************************************)
(* A fault is counted, and a request that is under way notices the host.   *)
(***************************************************************************)
LEMMA FaultCounted ==
  ASSUME CapacityTypeOK, Fault
  PROVE  faults' \in Nat /\ faults' # 0
BY DEF CapacityTypeOK, Fault

LEMMA HostNoticed ==
  ASSUME CapacityTypeOK, HostStep
  PROVE  /\ UNCHANGED <<requestVars, faults>>
         /\ changed' \in BOOLEAN
         /\ pc # "idle" /\ ~changed' => UNCHANGED capacityVars
BY DEF CapacityTypeOK, HostStep, Host, capacityVars, requestVars, hostVars

LEMMA HostTyped ==
  ASSUME CapacityTypeOK, HostStep
  PROVE  mem' \in MemInfo /\ pool' \in PoolInfo
         /\ nic' \in [Domain -> VF \union Elsewhere \union {NoVF}]
BY DEF CapacityTypeOK, HostStep, Host, Other, PowerOn, PowerOff, capacityVars, hostVars

LEMMA TypeStep ==
  ASSUME CapacityTypeOK, OpOK, [Next]_capacityVars
  PROVE  CapacityTypeOK' /\ OpOK'
<1> USE DEF CapacityTypeOK, OpOK, Checking, Telling, Ended, asked, hostVars, Goto
<1>0. Known = 1..Len(Networks) /\ Len(Networks) \in Nat
  BY NetworksAssumption DEF Known
<1>1. ask \in Asked /\ ask.network \in Known \union {NoNetwork}
  BY AskedAssumption DEF Known
<1>2. CASE Check
  BY <1>2 DEF Check
<1>3. CASE FreeName \/ VCPU \/ Memory \/ Storage
  BY <1>3, FaultCounted DEF FreeName, VCPU, Memory, Storage, Verdict
<1>4. CASE Unknown
  BY <1>4 DEF Unknown
<1>5. CASE ListAsked
  BY <1>1, <1>5, FaultCounted DEF ListAsked, List
<1>6. CASE Count
  BY <1>6, FaultCounted DEF Count
<1>7. CASE Answer
  BY <1>7 DEF Answer
<1>8. CASE Statistics
  <2>1. Used(mem) \in Int
    BY UsedIsAWord
  <2> QED BY <1>8, <2>1, FaultCounted DEF Statistics
<1>9. CASE VCPUs
  <2>1. report' \in [memory : Int, vcpus : Nat, networks : Seq(EntryType), name : Nat]
        /\ report'.networks = report.networks
    BY <1>9 DEF VCPUs
  <2>2. at' = at /\ (pc' = "network" => pc = "vcpus" /\ Networks # << >>)
    BY <1>9 DEF VCPUs
  <2>3. Networks # << >> => 1 \in Known
    BY <1>0, NetworksAssumption
  <2> QED BY <1>9, <2>1, <2>2, <2>3, FaultCounted DEF VCPUs
<1>10. CASE ListNext
  BY <1>0, <1>10, FaultCounted DEF ListNext, List, NextNetwork
<1>11. CASE Entry
  <2> DEFINE e == [network |-> at, used |-> used, total |-> NotNegative(Total(at)),
                   available |-> NotNegative(NotNegative(Total(at)) - used)]
  <2>1. at \in Known
    BY <1>11 DEF Entry
  <2>2. NotNegative(Total(at)) \in Nat
    BY <2>1, NetworkFinite
  <2>3. e \in EntryType
    BY <2>1, <2>2 DEF EntryType, NotNegative
  <2>4. report' = [report EXCEPT !.networks = Append(@, e)]
    BY <1>11 DEF Entry
  <2>5. report' \in [memory : Int, vcpus : Nat, networks : Seq(EntryType), name : Nat]
    <3> HIDE DEF e
    <3>1. Append(report.networks, e) \in Seq(EntryType)
      BY <2>3
    <3> QED BY <2>4, <3>1
  <2> QED BY SMTT(30), <1>0, <1>11, <2>5 DEF Entry, NextNetwork
<1>12. CASE Interface
  BY <1>12 DEF Interface
<1>13. CASE Name
  <2>1. pc = "name" /\ at \in Known /\ op = "Info" /\ pc' \in {"name", "ok"}
        /\ UNCHANGED <<asked, todo, used, changed>>
    BY <1>13 DEF Name, Known
  <2>2. at' \in {at, at + 1} /\ (faults' = faults \/ Fault)
    BY <1>13 DEF Name
  <2>3. \E n \in {0, at} : report' = [report EXCEPT !.name = n]
    BY <1>13 DEF Name
  <2>4. report' \in [memory : Int, vcpus : Nat, networks : Seq(EntryType), name : Nat]
    BY <2>3
  <2>5. at' \in Nat \ {0} /\ faults' \in Nat
    BY <2>2, FaultCounted
  <2> QED BY <2>1, <2>4, <2>5
<1>14. CASE Named
  BY <1>14 DEF Named
<1>15. CASE HostStep
  BY <1>15, HostNoticed, HostTyped DEF requestVars
<1> QED BY <1>2, <1>3, <1>4, <1>5, <1>6, <1>7, <1>8, <1>9, <1>10, <1>11, <1>12, <1>13, <1>14,
           <1>15, Actions

(***************************************************************************)
(* What is quiet after a step of a request was quiet before, with the same *)
(* host.                                                                   *)
(***************************************************************************)
LEMMA Steady ==
  ASSUME CapacityTypeOK, [Next]_capacityVars, pc' # "idle", faults' = 0
  PROVE  faults = 0 /\ (Quiet' => Quiet /\ UNCHANGED hostVars)
<1> USE DEF Quiet, asked
<1>1. CASE HostStep
  BY <1>1, HostNoticed DEF capacityVars, requestVars
<1>2. CASE Check \/ Interface \/ Unknown \/ Answer \/ Entry \/ Named
  BY <1>2 DEF Check, Interface, Unknown, Answer, Entry, Named
<1>3. CASE FreeName \/ VCPU \/ Memory \/ Storage
  BY <1>3, FaultCounted DEF FreeName, VCPU, Memory, Storage, Verdict
<1>4. CASE ListAsked \/ ListNext
  BY <1>4, FaultCounted DEF ListAsked, ListNext, List
<1>5. CASE Count
  BY <1>5, FaultCounted DEF Count
<1>6. CASE Statistics \/ VCPUs \/ Name
  BY <1>6, FaultCounted DEF Statistics, VCPUs, Name
<1> QED BY <1>1, <1>2, <1>3, <1>4, <1>5, <1>6, Actions

LEMMA CountStep ==
  ASSUME CapacityTypeOK, OpOK, CountOK, [Next]_capacityVars
  PROVE  CountOK'
<1> SUFFICES ASSUME pc' \in {"count", "entry"}, Quiet'
             PROVE  (used = Cardinality(Holders(Counted) \ todo))'
  BY DEF CountOK
<1>1. Quiet /\ UNCHANGED hostVars /\ faults' = 0
  BY Steady DEF Quiet
<1>2. CASE ListAsked \/ ListNext
  <2>1. todo' = Domain /\ used' = 0
    BY <1>1, <1>2, FaultCounted DEF ListAsked, ListNext, List, NextNetwork, Goto
  <2>2. (Holders(Counted) \ todo)' = {}
    BY <2>1 DEF Holders
  <2> QED BY <2>1, <2>2, FS_EmptySet
<1>3. CASE Count
  <2>1. PICK d \in todo : /\ todo' = todo \ {d}
                          /\ used' = IF nic[d] \in Networks[Counted] THEN used + 1 ELSE used
    BY <1>1, <1>3, FaultCounted DEF Count
  <2>2. UNCHANGED <<ask, at, pc>> /\ Counted' = Counted
    BY <1>3 DEF Count, Counted, asked
  <2>3. Holders(Counted)' = Holders(Counted)
    BY <1>1, <2>2 DEF Holders, hostVars
  <2>4. used = Cardinality(Holders(Counted) \ todo)
    BY <1>1, <1>3 DEF CountOK, Count
  <2>5. todo \subseteq Domain /\ Holders(Counted) \subseteq Domain
    BY DEF CapacityTypeOK, Holders
  <2>6. d \in Holders(Counted) <=> nic[d] \in Networks[Counted]
    BY <2>5 DEF Holders
  <2> QED BY <2>1, <2>3, <2>4, <2>5, <2>6, CountOneMore
<1>4. CASE UNCHANGED capacityVars
  BY <1>1, <1>4 DEF capacityVars, requestVars, hostVars, CountOK, Counted, Holders
<1>5. CASE HostStep
  BY <1>4, <1>5, HostNoticed DEF Quiet, requestVars
<1>6. CASE \/ Check \/ FreeName \/ VCPU \/ Memory \/ Storage \/ Unknown \/ Answer
           \/ Statistics \/ VCPUs \/ Entry \/ Interface \/ Name \/ Named
  BY <1>6 DEF Check, FreeName, VCPU, Memory, Storage, Verdict, Unknown, Answer,
              Statistics, VCPUs, Entry, NextNetwork, Interface, Name, Named, Goto
<1> QED BY <1>2, <1>3, <1>4, <1>5, <1>6, Actions

LEMMA VerdictStep ==
  ASSUME CapacityTypeOK, OpOK, CountOK, VerdictOK, [Next]_capacityVars
  PROVE  VerdictOK'
<1> SUFFICES ASSUME op' = "CheckResources", Quiet' PROVE VerdictOK'
  BY DEF VerdictOK
<1> DEFINE Same == UNCHANGED <<ask, hostVars>>
<1>1. ASSUME Same
      PROVE  /\ NameFits' = NameFits /\ CPUsFit' = CPUsFit /\ MemoryFits' = MemoryFits
             /\ StorageFits' = StorageFits /\ NetworkFits' = NetworkFits
  BY <1>1 DEF hostVars, NameFits, CPUsFit, MemoryFits, StorageFits, NetworkFits, Assigned, Holders
<1>2. pc' # "idle"
  BY TypeStep DEF OpOK
<1>3. Quiet /\ UNCHANGED hostVars /\ faults' = 0
  BY <1>2, Steady DEF Quiet
<1>4. CASE UNCHANGED <<op, ask, pc>>
  BY <1>1, <1>3, <1>4 DEF VerdictOK
<1>5. CASE HostStep
  BY <1>4, <1>5, HostNoticed DEF requestVars
<1>6. CASE Check
  BY <1>6 DEF Check, VerdictOK, Goto
<1>7. CASE FreeName
  BY <1>1, <1>3, <1>7, FaultCounted DEF FreeName, VerdictOK, Goto, asked, NameFits
<1>8. CASE VCPU
  BY <1>1, <1>3, <1>8, FaultCounted DEF VCPU, Verdict, VerdictOK, Goto, asked, CPUsFit
<1>9. CASE Memory
  BY <1>1, <1>3, <1>9, FaultCounted DEF Memory, Verdict, VerdictOK, Goto, asked, MemoryFits
<1>10. CASE Storage
  BY <1>1, <1>3, <1>10, FaultCounted DEF Storage, Verdict, VerdictOK, Goto, asked, StorageFits
<1>11. CASE Unknown
  BY <1>1, <1>3, <1>11 DEF Unknown, VerdictOK, Goto, asked, NetworkFits
<1>12. CASE ListAsked
  BY <1>1, <1>3, <1>12, FaultCounted DEF ListAsked, List, VerdictOK, Goto, asked
<1>13. CASE Answer
  <2>1. used = Assigned(ask.network)
    <3>1. Holders(ask.network) \ todo = Holders(ask.network)
      BY <1>13 DEF Answer
    <3> QED BY <1>3, <1>13, <3>1 DEF Answer, CountOK, Counted, Assigned
  <2>2. NetworkFits <=> ~(used >= Total(ask.network))
    <3>1. ask.network \in Known
      BY <1>13 DEF Answer, OpOK
    <3>2. ask.network # NoNetwork /\ Total(ask.network) \in Int
      BY <3>1, NetworkFinite DEF NoNetwork
    <3> QED BY <2>1, <3>2 DEF NetworkFits, CapacityTypeOK
  <2> QED BY <1>1, <1>3, <1>13, <2>2 DEF Answer, VerdictOK, Goto, asked
<1>14. CASE Count
  BY <1>4, <1>14 DEF Count, asked
<1>15. CASE Statistics \/ VCPUs \/ ListNext \/ Entry \/ Interface \/ Name \/ Named
  BY <1>15 DEF Statistics, VCPUs, ListNext, List, Entry, Interface, Name, Named, asked, OpOK,
               Checking, Telling
<1> QED BY <1>5, <1>6, <1>7, <1>8, <1>9, <1>10, <1>11, <1>12, <1>13, <1>14, <1>15,
           Actions

LEMMA EntriesStay ==
  ASSUME CapacityTypeOK, ReportOK, op = "HypervisorInfo", [Next]_capacityVars, pc # "idle",
         NEW e \in EntryType, EntryOK(e)
  PROVE  EntryOK(e)'
<1>1. e.available \in 0..Cardinality(Networks[e.network])
  BY DEF EntryOK
<1>2. ASSUME Quiet'
      PROVE  Quiet /\ UNCHANGED hostVars
  <2>1. pc' # "idle"
    <3>1. CASE HostStep
      BY <3>1, HostNoticed DEF requestVars
    <3>2. CASE \/ Check \/ FreeName \/ VCPU \/ Memory \/ Storage
               \/ Unknown \/ ListAsked \/ Count \/ Answer
               \/ Statistics \/ VCPUs \/ ListNext \/ Entry \/ Interface \/ Name \/ Named
      BY <3>2 DEF Check, FreeName, VCPU, Memory, Storage, Verdict, Unknown, ListAsked, List,
                  Count, Answer, Statistics, VCPUs, ListNext, NextNetwork, Entry,
                  Interface, Name, Named, Goto
    <3> QED BY <3>1, <3>2, Actions
  <2> QED BY <1>2, <2>1, Steady DEF Quiet
<1>3. ASSUME UNCHANGED hostVars
      PROVE  Assigned(e.network)' = Assigned(e.network)
  BY <1>3 DEF hostVars, Assigned, Holders
<1> QED BY <1>1, <1>2, <1>3 DEF EntryOK

LEMMA NewEntry ==
  ASSUME CapacityTypeOK, OpOK, CountOK, pc = "entry", todo = {},
         NEW e \in EntryType, e = [network |-> at, used |-> used, total |-> NotNegative(Total(at)),
                     available |-> NotNegative(NotNegative(Total(at)) - used)]
  PROVE  EntryOK(e)
<1>1. at \in Known
  BY DEF OpOK
<1>2. NotNegative(Total(at)) \in 0..Cardinality(Networks[at]) /\ Cardinality(Networks[at]) \in Nat
  BY <1>1, NetworkFinite
<1>3. NotNegative(NotNegative(Total(at)) - used) \in 0..Cardinality(Networks[at])
  BY <1>2 DEF NotNegative, CapacityTypeOK
<1>4. Quiet => used = Assigned(at)
  <2>1. Holders(at) \ todo = Holders(at)
    OBVIOUS
  <2> QED BY <2>1 DEF CountOK, Counted, Assigned
<1> QED BY <1>1, <1>2, <1>3, <1>4 DEF EntryOK, CapacityTypeOK

LEMMA ReportStep ==
  ASSUME CapacityTypeOK, OpOK, CountOK, ReportOK, [Next]_capacityVars
  PROVE  ReportOK'
<1> SUFFICES ASSUME op' = "HypervisorInfo" PROVE ReportOK'
  BY DEF ReportOK
<1>0. CapacityTypeOK' /\ OpOK'
  BY TypeStep
<1>1. pc' # "idle"
  BY <1>0 DEF OpOK
<1>2. Quiet' => Quiet /\ UNCHANGED hostVars /\ faults' = 0
  BY <1>1, Steady DEF Quiet
<1>3. Used(mem)' = Used(mem') /\ (UNCHANGED hostVars => mem' = mem)
  BY DEF hostVars, Used
<1>4. /\ report.networks \in Seq(EntryType) /\ Len(report.networks) \in Nat
      /\ \A i \in DOMAIN report.networks : report.networks[i] \in EntryType
  BY DEF CapacityTypeOK
<1>5. CASE Statistics
  <2>1. report'.networks = << >> /\ (faults' = 0 => report'.memory = Used(mem))
    BY <1>5, FaultCounted DEF Statistics, OpOK, CapacityTypeOK
  <2>2. faults' = 0 => report'.vcpus = 0 /\ todo' = Domain /\ pc' = "vcpus"
    BY <1>5, FaultCounted DEF Statistics, OpOK, CapacityTypeOK, Goto
  <2>3. Domain \ Domain = {} /\ Cardinality({}) = 0
    BY FS_EmptySet
  <2>4. \A e \in EntryType : ~Reported(e)'
    BY <2>1 DEF Reported
  <2> QED BY <1>2, <1>3, <2>1, <2>2, <2>3, <2>4 DEF ReportOK
<1>6. ASSUME op = "HypervisorInfo", pc # "idle", report'.networks = report.networks
      PROVE  \A e \in EntryType : Reported(e)' => EntryOK(e)'
  BY <1>6, EntriesStay DEF ReportOK, Reported
<1>7. CASE op = "HypervisorInfo" /\ pc # "idle" /\ UNCHANGED <<pc, at, todo, report>>
  BY <1>2, <1>3, <1>6, <1>7 DEF ReportOK
<1>8. CASE VCPUs
  <2>1. op = "HypervisorInfo" /\ pc = "vcpus" /\ report'.networks = report.networks
        /\ report'.memory = report.memory /\ at = 1 /\ at' = at /\ report.networks = << >>
    BY <1>8 DEF VCPUs, OpOK, Telling, asked, CapacityTypeOK
  <2>2. CASE pc' = "vcpus" /\ faults' = 0
    <3>1. PICK d \in todo : todo' = todo \ {d} /\ report'.vcpus = report.vcpus + 1
      BY <1>8, <2>2, FaultCounted DEF VCPUs, Goto, CapacityTypeOK
    <3>2. Cardinality(Domain \ todo') = Cardinality(Domain \ todo) + 1
      BY <3>1, CountOneMore DEF CapacityTypeOK
    <3> QED BY <1>2, <1>3, <1>6, <2>1, <2>2, <3>1, <3>2 DEF ReportOK
  <2>3. CASE pc' # "vcpus"
    <3>1. todo = {} /\ report' = report /\ pc' = IF Networks = << >> THEN "ok" ELSE "network"
      BY <1>8, <2>1, <2>3 DEF VCPUs, Goto
    <3>2. Domain \ todo = Domain
      BY <3>1
    <3> QED BY <1>2, <1>3, <1>6, <2>1, <3>1, <3>2 DEF ReportOK
  <2>4. CASE faults' # 0
    BY <1>2, <1>6, <2>1, <2>4 DEF ReportOK
  <2> QED BY <2>2, <2>3, <2>4
<1>9. CASE ListNext
  <2>1. op = "HypervisorInfo" /\ pc = "network" /\ report' = report
        /\ (faults' = 0 => pc' = "entry" /\ at' = at)
    BY <1>9, FaultCounted DEF ListNext, List, OpOK, Telling, Goto
  <2> QED BY <1>2, <1>3, <1>6, <2>1 DEF ReportOK
<1>10. CASE Count
  <2>1. op = "HypervisorInfo" /\ pc = "entry" /\ UNCHANGED <<pc, at, report>>
    BY <1>10 DEF Count, OpOK, Checking, asked
  <2> QED BY <1>2, <1>3, <1>6, <2>1 DEF ReportOK
<1>11. CASE Entry
  <2> DEFINE new == [network |-> at, used |-> used, total |-> NotNegative(Total(at)),
                     available |-> NotNegative(NotNegative(Total(at)) - used)]
  <2>1. op = "HypervisorInfo" /\ pc = "entry" /\ todo = {} /\ at' = at + 1
        /\ pc' = (IF at = Len(Networks) THEN "ok" ELSE "network")
        /\ report' = [report EXCEPT !.networks = Append(@, new)]
    BY <1>11 DEF Entry, NextNetwork, OpOK, Telling, Goto
  <2>2. \A e \in EntryType : e = new => EntryOK(e)'
    BY <2>1, NewEntry, EntriesStay
  <2>3. \A e \in EntryType : Reported(e) => EntryOK(e)'
    BY <2>1, EntriesStay DEF ReportOK
  <2> HIDE DEF new
  <2>4. report'.networks = Append(report.networks, new) /\ report'.memory = report.memory
        /\ report'.vcpus = report.vcpus
    BY <2>1 DEF CapacityTypeOK
  <2>5. \A e : Reported(e)' => Reported(e) \/ e = new
    BY <1>4, <2>4 DEF Reported
  <2>6. Len(report'.networks) = Len(report.networks) + 1
    BY <1>4, <2>4
  <2> QED BY SMTT(30), <1>2, <1>3, <2>1, <2>2, <2>3, <2>4, <2>5, <2>6 DEF ReportOK, CapacityTypeOK
<1>12. CASE HostStep
  BY <1>1, <1>7, <1>12, HostNoticed DEF requestVars
<1>13. CASE \/ Check \/ FreeName \/ VCPU \/ Memory \/ Storage
            \/ Unknown \/ ListAsked \/ Answer \/ Interface \/ Name \/ Named
  BY <1>13 DEF Check, FreeName, VCPU, Memory, Storage, Verdict, Unknown, ListAsked, List, Answer,
               Interface, Name, Named, asked, OpOK, Checking
<1> QED BY <1>5, <1>8, <1>9, <1>10, <1>11, <1>12, <1>13, Actions

LEMMA NameStep ==
  ASSUME CapacityTypeOK, OpOK, NameOK, [Next]_capacityVars
  PROVE  NameOK'
<1> SUFFICES ASSUME op' = "Info", faults' = 0 PROVE NameOK'
  BY DEF NameOK
<1>0. Known = 1..Len(Networks) /\ Len(Networks) \in Nat
  BY NetworksAssumption DEF Known
<1>1. faults = 0
  BY Steady, TypeStep DEF OpOK
<1>2. CASE Interface
  BY <1>0, <1>2 DEF Interface, OpOK, NameOK, Goto
<1>3. CASE Name
  <2>1. pc = "name" /\ at \in Known /\ report' = [report EXCEPT !.name = at]
        /\ UNCHANGED vf
        /\ IF vf \in Networks[at] THEN pc' = "ok" /\ at' = at ELSE at' = at + 1 /\ pc' = pc
    BY <1>3, FaultCounted DEF Name, Goto, Known, asked
  <2>2. report'.name = at /\ op = "Info"
    BY <2>1 DEF CapacityTypeOK, OpOK
  <2>3. \A i \in Known : i < at => vf \notin Networks[i]
    BY <1>1, <2>1, <2>2 DEF NameOK
  <2>4. CASE vf \in Networks[at]
    BY <2>1, <2>2, <2>4 DEF NameOK
  <2>5. CASE vf \notin Networks[at]
    BY <1>0, <2>1, <2>3, <2>5 DEF NameOK
  <2> QED BY <2>4, <2>5
<1>4. CASE Named
  <2>1. pc = "name" /\ at \notin Known /\ op = "Info" /\ UNCHANGED vf
    BY <1>4 DEF Named, Known, OpOK, asked
  <2>2. \A i \in Known : i < at
    BY <1>0, <2>1 DEF CapacityTypeOK
  <2>3. vf \notin VF
    BY <1>1, <2>1, <2>2 DEF NameOK, VF, Known
  <2> QED BY <1>4, <2>1, <2>3 DEF Named, NameOK, Goto
<1>5. CASE HostStep
  BY <1>1, <1>5, HostNoticed DEF requestVars, NameOK
<1>6. CASE \/ Check \/ FreeName \/ VCPU \/ Memory \/ Storage
           \/ Unknown \/ ListAsked \/ Count \/ Answer \/ Statistics \/ VCPUs \/ ListNext \/ Entry
  BY <1>6 DEF Check, FreeName, VCPU, Memory, Storage, Verdict, Unknown, ListAsked, List, Count,
              Answer, Statistics, VCPUs, ListNext, Entry, asked, OpOK, Checking, Telling
<1> QED BY <1>2, <1>3, <1>4, <1>5, <1>6, Actions

-----------------------------------------------------------------------------
LEMMA Invariance == Spec => []IInv
<1>1. Init => IInv
  <2> SUFFICES ASSUME Init PROVE IInv
    OBVIOUS
  <2>1. ask \in Asked
    BY AskedAssumption DEF Init
  <2>2. NoReport \in [memory : Int, vcpus : Nat, networks : Seq(EntryType), name : Nat]
    BY DEF NoReport
  <2>3. CapacityTypeOK
    <3>1. /\ mem \in MemInfo /\ pool \in PoolInfo
          /\ nic \in [Domain -> VF \union Elsewhere \union {NoVF}]
      BY DEF Init
    <3>2. /\ op = "none" /\ pc = "idle" /\ todo = {} /\ changed = FALSE
          /\ at \in Nat \ {0} /\ used \in Nat /\ faults \in Nat /\ report = NoReport
      BY DEF Init
    <3> QED BY <2>1, <2>2, <3>1, <3>2 DEF CapacityTypeOK
  <2>4. OpOK
    BY DEF Init, OpOK, Checking, Telling, NoReport
  <2> QED BY <2>3, <2>4 DEF Init, IInv, CountOK, VerdictOK, ReportOK, NameOK
<1>2. IInv /\ [Next]_capacityVars => IInv'
  BY TypeStep, CountStep, VerdictStep, ReportStep, NameStep DEF IInv
<1> QED BY <1>1, <1>2, PTL DEF Spec

(***************************************************************************)
(* The request that is under way, the host and the counters keep their     *)
(* types: counts never become negative, whatever starts and stops.         *)
(***************************************************************************)
THEOREM TypeCorrect == Spec => []CapacityTypeOK
<1>1. IInv => CapacityTypeOK
  BY DEF IInv
<1> QED BY <1>1, Invariance, PTL

(***************************************************************************)
(* Counting domains is counting addresses, unless domains share one.       *)
(***************************************************************************)
LEMMA AddressesCounted ==
  ASSUME CapacityTypeOK, NEW i \in Known
  PROVE  LET here == Networks[i] \intersect InUse IN
         /\ Assigned(i) \in Nat /\ Cardinality(here) \in Nat
         /\ Cardinality(here) <= Assigned(i)
         /\ ~Shared => Cardinality(here) = Assigned(i)
         /\ Cardinality(Networks[i] \ InUse) = Cardinality(Networks[i]) - Cardinality(here)
<1> DEFINE here == Networks[i] \intersect InUse
           f == [d \in Holders(i) |-> nic[d]]
<1>1. IsFiniteSet(Networks[i]) /\ NoVF \notin Networks[i]
  BY NetworkFinite, NetworksAssumption
<1>2. IsFiniteSet(Holders(i)) /\ Assigned(i) \in Nat
  BY Counting DEF Holders, Assigned
<1>3. f \in Surjection(Holders(i), here)
  <2>1. f \in [Holders(i) -> here]
    BY <1>1 DEF Holders, InUse
  <2>2. \A v \in here : \E d \in Holders(i) : f[d] = v
    BY DEF Holders, InUse
  <2> QED BY <2>1, <2>2, Fun_IsSurj
<1>4. IsFiniteSet(here) /\ Cardinality(here) <= Assigned(i)
      /\ (Cardinality(here) = Assigned(i) <=> f \in Injection(Holders(i), here))
  BY <1>2, <1>3, FS_Surjection DEF Assigned
<1>5. ASSUME ~Shared
      PROVE  f \in Injection(Holders(i), here)
  <2>1. f \in [Holders(i) -> here]
    BY <1>3 DEF Surjection
  <2>2. \A d, e \in Holders(i) : f[d] = f[e] => d = e
    BY <1>1, <1>5 DEF Holders, Shared
  <2> QED BY <2>1, <2>2, Fun_IsInj
<1>6. Cardinality(here) \in Nat
  BY <1>4, FS_CardinalityType
<1>7. Cardinality(Networks[i] \ InUse) = Cardinality(Networks[i]) - Cardinality(here)
  BY <1>1, FS_Difference
<1> QED BY <1>2, <1>4, <1>5, <1>6, <1>7

(***************************************************************************)
(* CheckResources answers TRUE if and only if the name is valid and free   *)
(* and there is what it is asked for, as long as nothing fails or changes  *)
(* meanwhile: its arithmetic on words and its count of interfaces mean     *)
(* what Fits says.                                                         *)
(***************************************************************************)
THEOREM VerdictIsRight == Spec => []QuietVerdictIsRight
<1>1. IInv => QuietVerdictIsRight
  <2> SUFFICES ASSUME IInv, op = "CheckResources", pc \in Ended, Quiet, 2 * ask.memory < Word
               PROVE  (pc = "ok" => Fits) /\ (Fits /\ ~Shared => pc = "ok")
    BY DEF QuietVerdictIsRight
  <2>1. /\ ask.vcpu \in -(Word \div 2)..(Word \div 2) - 1 /\ ask.memory \in 0..Word - 1
        /\ ask.network \in Known \union {NoNetwork}
    BY AskedAssumption DEF IInv, CapacityTypeOK, Quantity, Known
  <2>2. CPUsFit <=> ask.vcpu \in 1..Cpus
    BY <2>1, WordsWrap DEF CPUsFit
  <2>3. (2 * ask.memory) % Word = 2 * ask.memory
    <3>1. 2 * ask.memory \in 0..Word - 1 /\ Word \in Nat \ {0}
      BY <2>1, WordAssumption
    <3> QED BY <3>1
  <2>4. ASSUME ask.network # NoNetwork
        PROVE  /\ NetworkFits => Cardinality(Networks[ask.network] \ InUse) > 1
               /\ ~Shared /\ Cardinality(Networks[ask.network] \ InUse) > 1 => NetworkFits
    <3>1. ask.network \in Known
      BY <2>1, <2>4
    <3>2. Total(ask.network) = Cardinality(Networks[ask.network]) - 1
          /\ Cardinality(Networks[ask.network]) \in Nat
      BY <3>1, NetworkFinite DEF Total
    <3> DEFINE taken == Cardinality(Networks[ask.network] \intersect InUse)
    <3>3. /\ Assigned(ask.network) \in Nat /\ taken \in Nat /\ taken <= Assigned(ask.network)
          /\ ~Shared => taken = Assigned(ask.network)
          /\ Cardinality(Networks[ask.network] \ InUse)
               = Cardinality(Networks[ask.network]) - taken
      BY <3>1, AddressesCounted DEF IInv
    <3> HIDE DEF taken
    <3> QED BY <2>4, <3>2, <3>3 DEF NetworkFits
  <2>5. /\ pc = "ok" => NameFits /\ CPUsFit /\ MemoryFits /\ StorageFits /\ NetworkFits
        /\ pc = "error" => ~(NameFits /\ CPUsFit /\ MemoryFits /\ StorageFits /\ NetworkFits)
    BY DEF IInv, VerdictOK
  <2>6. CASE pc = "ok"
    BY <2>2, <2>3, <2>4, <2>5, <2>6 DEF Fits, NameFits, MemoryFits, StorageFits, NetworkFits
  <2>7. CASE pc = "error"
    BY <2>2, <2>3, <2>4, <2>5, <2>7 DEF Fits, NameFits, MemoryFits, StorageFits
  <2> QED BY <2>6, <2>7 DEF Ended
<1> QED BY <1>1, Invariance, PTL

(***************************************************************************)
(* HypervisorInfo never reports an impossible number of virtual functions, *)
(* and the right numbers, and Info the right network, if nothing disturbs. *)
(***************************************************************************)
THEOREM ReportsAreTrue == Spec => []ReportIsTrue
<1>1. IInv => ReportIsTrue
  <2> SUFFICES ASSUME IInv PROVE ReportIsTrue
    OBVIOUS
  <2>1. ASSUME op = "HypervisorInfo", pc = "ok", NEW i \in DOMAIN report.networks
        PROVE  LET entry == report.networks[i]
                   here == Networks[entry.network] IN
               /\ entry.available \in 0..Cardinality(here)
               /\ Quiet /\ ~Shared =>
                    /\ entry.used = Cardinality(here \intersect InUse)
                    /\ entry.available = NotNegative(Cardinality(here \ InUse) - 1)
    <3> DEFINE entry == report.networks[i]
               here == Networks[entry.network]
    <3>1. entry \in EntryType
      BY DEF IInv, CapacityTypeOK
    <3>2. EntryOK(entry)
      BY <2>1, <3>1 DEF IInv, ReportOK, Reported
    <3>3. entry.network \in Known
      BY <3>1 DEF EntryType
    <3> HIDE DEF entry
    <3>4. ASSUME Quiet, ~Shared
          PROVE  /\ entry.used = Cardinality(here \intersect InUse)
                 /\ entry.available = NotNegative(Cardinality(here \ InUse) - 1)
      <4>1. /\ entry.used = Assigned(entry.network)
            /\ entry.available = NotNegative(NotNegative(Total(entry.network)) - entry.used)
        BY <3>2, <3>4 DEF EntryOK
      <4>2. /\ Cardinality(here \intersect InUse) = Assigned(entry.network)
            /\ Cardinality(here \intersect InUse) \in Nat
            /\ Cardinality(here \ InUse) = Cardinality(here) - Cardinality(here \intersect InUse)
        BY <3>3, <3>4, AddressesCounted DEF IInv
      <4>3. Cardinality(here) \in Nat /\ Total(entry.network) = Cardinality(here) - 1
        BY <3>3, NetworkFinite DEF Total
      <4> QED BY <4>1, <4>2, <4>3 DEF NotNegative
    <3> QED BY <3>2, <3>4 DEF EntryOK, entry
  <2>2. ASSUME op = "HypervisorInfo", pc = "ok", Quiet
        PROVE  /\ report.vcpus = Cardinality(Domain)
               /\ Len(report.networks) = Len(Networks)
               /\ Consistent(mem) => report.memory <= mem.total
    <3>1. Consistent(mem) => Used(mem) <= mem.total
      BY UsedIsAWord DEF IInv, CapacityTypeOK
    <3> QED BY <2>2, <3>1 DEF IInv, ReportOK
  <2>3. op = "Info" /\ pc = "ok" /\ vf \in VF /\ faults = 0 => vf \in Networks[report.name]
    BY DEF IInv, NameOK
  <2> QED BY <2>1, <2>2, <2>3 DEF ReportIsTrue
<1> QED BY <1>1, Invariance, PTL
=============================================================================
