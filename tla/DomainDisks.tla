----------------------------- MODULE DomainDisks -----------------------------
(***************************************************************************)
(* External: one libvirt domain, the image files of its disks and the      *)
(* block jobs QEMU runs on them, as the code in src/ uses them.  libvirtd  *)
(* and QEMU are not part of the repository; the operators below say what   *)
(* a call does when its preconditions hold, and the environment actions    *)
(* what happens on its own.                                                *)
(*                                                                         *)
(* The images of disk d form a chain of layers: <<d, 0>> is the base image *)
(* and <<d, n>> with n > 0 is the overlay *.external.snapshot.qcow2 that   *)
(* the n-th external snapshot put on top.  top[d] is the layer the domain  *)
(* XML names, the one a running guest writes to.                           *)
(*                                                                         *)
(* Whatever goes wrong on its own (a failing call, a stalled job, a guest  *)
(* that powers off unasked) is an adversity, and Budget bounds how often   *)
(* each kind strikes in a behaviour.                                       *)
(***************************************************************************)
EXTENDS Naturals

CONSTANTS
  NDisks,      \* number of file-backed disks of the domain
  Writable,    \* disks that are not read-only, so that a snapshot covers them
  Budget       \* how often each adversity may strike

Disk == 1..NDisks

Adversity == {"fault", "misread", "stall", "abort", "pivotfail", "off", "crash"}

ASSUME DiskAssumption == NDisks \in Nat \ {0} /\ Writable \subseteq Disk
ASSUME BudgetAssumption == Budget \in [Adversity -> Nat]

VARIABLES
  dom,          \* "absent", "off" or "on"
  persistent,   \* the domain has a persistent definition
  top,          \* top[d]: the active layer of disk d
  files,        \* the image files that exist
  job,          \* job[d]: the active commit job of disk d
  acpi,         \* the guest was asked to power off
  spent         \* spent[a]: how often adversity a has struck

hostVars == <<dom, persistent, top, files, job, acpi>>

HostTypeOK ==
  /\ dom \in {"absent", "off", "on"}
  /\ persistent \in BOOLEAN
  /\ top \in [Disk -> Nat]
  /\ files \subseteq Disk \X Nat
  /\ job \in [Disk -> {"none", "running", "ready", "pivoting"}]
  /\ acpi \in BOOLEAN
  /\ spent \in [Adversity -> Nat]

\* A defined domain, running or not, on base images only.
HostInit ==
  /\ dom \in {"off", "on"}
  /\ persistent = TRUE
  /\ top = [d \in Disk |-> 0]
  /\ files = Disk \X {0}
  /\ job = [d \in Disk |-> "none"]
  /\ acpi = FALSE
  /\ spent = [a \in Adversity |-> 0]

Spend(a) ==
  /\ spent[a] < Budget[a]
  /\ spent' = [spent EXCEPT ![a] = @ + 1]

\* Every layer of the disk is there: the domain can be started and can run.
ChainPresent(d) == \A n \in 0..top[d] : <<d, n>> \in files

\* What a running guest, or the commit job of its disk, is writing to.
BeingWritten(d, n) ==
  /\ dom = "on" /\ d \in Writable
  /\ n = top[d] \/ (job[d] # "none" /\ n + 1 = top[d])

-----------------------------------------------------------------------------
(***************************************************************************)
(* Calls.                                                                  *)
(***************************************************************************)

\* virDomainSnapshotCreateXML, DISK_ONLY | QUIESCE | ATOMIC | NO_METADATA:
\* refused when the file of a new layer exists already.
CanSnapshot ==
  /\ dom = "on"
  /\ Writable # {}
  /\ \A d \in Writable : job[d] = "none" /\ <<d, top[d] + 1>> \notin files

TakeSnapshot ==
  /\ top' = [d \in Disk |-> IF d \in Writable THEN top[d] + 1 ELSE top[d]]
  /\ files' = files \union {<<d, top[d] + 1>> : d \in Writable}
  /\ UNCHANGED <<dom, persistent, job, acpi>>

\* virDomainBlockCommit, ACTIVE | SHALLOW: merges the top layer into the next.
CanCommit(d) == dom = "on" /\ job[d] = "none" /\ top[d] > 0

StartCommit(d) ==
  /\ job' = [job EXCEPT ![d] = "running"]
  /\ UNCHANGED <<dom, persistent, top, files, acpi>>

\* virDomainBlockJobAbort, PIVOT | ASYNC: accepted at once, done later.
CanPivot(d) == dom = "on" /\ job[d] = "ready"

StartPivot(d) ==
  /\ job' = [job EXCEPT ![d] = "pivoting"]
  /\ UNCHANGED <<dom, persistent, top, files, acpi>>

\* virStorageVolDelete
RemoveFile(f) ==
  /\ files' = files \ {f}
  /\ UNCHANGED <<dom, persistent, top, job, acpi>>

\* virDomainCreate
CanStart == dom = "off" /\ \A d \in Disk : ChainPresent(d)

PowerOn ==
  /\ dom' = "on"
  /\ UNCHANGED <<persistent, top, files, job, acpi>>

\* The QEMU process ends: jobs end with it, a pivot under way has or has not
\* taken effect, and a domain without a persistent definition is gone.
PowerOff ==
  /\ dom = "on"
  /\ dom' = IF persistent THEN "off" ELSE "absent"
  /\ \E pivoted \in SUBSET {d \in Disk : job[d] = "pivoting"} :
       top' = [d \in Disk |-> IF d \in pivoted THEN top[d] - 1 ELSE top[d]]
  /\ job' = [d \in Disk |-> "none"]
  /\ acpi' = FALSE
  /\ UNCHANGED <<persistent, files>>

\* virDomainUndefineFlags: a running domain stays, without a definition.
Undefine ==
  /\ dom # "absent" /\ persistent
  /\ dom' = IF dom = "on" THEN "on" ELSE "absent"
  /\ persistent' = FALSE
  /\ UNCHANGED <<top, files, job, acpi>>

\* virDomainShutdownFlags: the guest may obey, at its own pace.
AskPowerOff ==
  /\ dom = "on"
  /\ acpi' = TRUE
  /\ UNCHANGED <<dom, persistent, top, files, job>>

-----------------------------------------------------------------------------
(***************************************************************************)
(* What happens on its own.                                                *)
(***************************************************************************)
GuestPowersOff ==
  /\ PowerOff
  /\ IF acpi THEN UNCHANGED spent ELSE Spend("off")

JobReady(d) ==
  /\ job[d] = "running"
  /\ job' = [job EXCEPT ![d] = "ready"]
  /\ UNCHANGED <<dom, persistent, top, files, acpi, spent>>

PivotCompletes(d) ==
  /\ job[d] = "pivoting"
  /\ job' = [job EXCEPT ![d] = "none"]
  /\ top' = [top EXCEPT ![d] = @ - 1]
  /\ UNCHANGED <<dom, persistent, files, acpi, spent>>

JobAborts(d) ==
  /\ job[d] \in {"running", "ready"}
  /\ Spend("abort")
  /\ job' = [job EXCEPT ![d] = "none"]
  /\ UNCHANGED <<dom, persistent, top, files, acpi>>

PivotFails(d) ==
  /\ job[d] = "pivoting"
  /\ Spend("pivotfail")
  /\ job' = [job EXCEPT ![d] = "ready"]
  /\ UNCHANGED <<dom, persistent, top, files, acpi>>

HostStep ==
  \/ GuestPowersOff
  \/ \E d \in Disk : JobReady(d) \/ PivotCompletes(d) \/ JobAborts(d) \/ PivotFails(d)
=============================================================================
