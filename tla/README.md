# A verification of libvirt-rpc

libvirt-rpc is a daemon that manages the libvirt domains of one host over JSON-RPC: it locks
domains, starts and stops them, clones templates and defines new domains from them, backs up
and destroys their disks, takes snapshots, and changes memory, CPUs, networks and I/O limits.
A second program, `hook/qemu.go`, is run by libvirtd when a domain starts and sets up routes
and virtual functions from metadata the daemon stored in the domain.

This directory holds TLA+ modules of that code, TLC configurations that check them on small
instances, and TLAPS proofs of what matters most for instances of any size.

## The system

| Component | State it keeps | Operations | What makes it correct |
|---|---|---|---|
| Lock table and gate (`mutex.go`, head of every handler in `jrpc.go`) | a process-wide `sync.Map` of names | `Lock`, `UnLock`, `ListLocks`; `isLockedAndMakeLock` at the head of all other RPCs | no entry left behind, an operator's lock blocks, every call is answered, the list is faithful |
| Backup, destroy, power (`jrpc.go`, `domain.go`, `snapshots.go`, `backup.go`, `lz4.go`) | none of its own; each handler keeps what it read from the domain in local variables | `MakeBackup`, `Destroy`, `Start`, `Shutdown`, `Reboot`, `Reset` | copies are not torn, nothing unsaved is deleted, the domain keeps the images it needs, a success is a complete backup |
| Internal snapshots (`snapshots.go`) | snapshots in libvirt, inside the images of the domain | `MakeSnapshot`, `RemoveSnapshot`, `RevertToSnapshot` | no snapshot is lost to a backup or to another request, no running guest is stopped, handles are freed |
| Creation and admission (`validate.go`, `storage.go`, `memory.go`, `cpu.go`, `sriov.go`, `domain.go`) | none; reads names, volumes, memory, virtual functions | `Create`, `CheckResources`, `CloneImage` | what was admitted is there when the domain is defined; a failure leaves nothing behind |
| Configuration (`memory.go`, `cpu.go`, `scheduler.go`, `block.go`, `domain.go`) | live and persistent configuration in libvirt | `SetMemory`, `SetMaxMemory`, `SetVCPUs`, `SetMaxVCPUs`, `SetDomainSchedulerCPUShares`, `SetDomainDeviceIOPS`, `SetMemoryStatsPeriod`, `SetAutostart`, `SetPassword` | live and persistent configuration agree, limits are kept |
| Network (`interfaces.go`, `devices.go`, `network.go`, `sriov.go`) | interfaces of a domain | `SetPVIDForNetworkDevice`, `SetNetworkSpeed` | a failing change leaves the interface attached |
| Network metadata and hook (`metadata.go`, `hook/qemu.go`) | metadata in the domain XML, settings of virtual functions | `Create` and `SetNetworkSpeed` write them, the hook applies them | what was asked for is what a start applies, and no start is held up |
| Node statistics (`memory.go`, `cpu.go`, `node.go`) | none | read by `HypervisorInfo`, `CheckResources` and `Create` | numbers agree with the host, no unsigned result wraps |
| Guest agent (`agent.go`) | files it has opened in the guest; the agent's channel | `QemuAgentInfo`, `SetPassword` | files are closed, answers are about the whole file, passwords are set in order |
| Information responses (`info.go`, `structs.go`) | none | `Info`, `HypervisorInfo`, `QemuAgentInfo`, `Domains` | a report is true, or says which part of it is not |
| Connections and handles (`connect.go` and all users) | reference counts of libvirt handles | open, close, `Free` | every handle is freed |
| Server, identifiers (`main.go`, `middleware.go`, `helpers.go`, `uuid.go`, `mac.go`) | none | HTTP set-up, rate limit, random names | configuration and I/O |

How they interact: the HTTP server starts one goroutine per request. Goroutines share the lock
table and nothing else in memory; they meet in libvirtd, which serialises single calls but not
handlers, and in the file system. No callback or event is used: waiting is polling with
one-second sleeps. The daemon keeps nothing on disk, so a crash is the loss of all handlers in
progress with whatever they had done so far to the domain.

What is hard in this code, and why the models exist:

* **interleaving**: the gate releases its entry when `isLockedAndMakeLock` returns, not when the
  handler does, so handlers on one domain overlap at every libvirt call;
* **stale reads**: power state, persistence, block jobs and lists of images are read once and
  used many calls (or an hour of compression) later;
* **errors taken for answers**: `isDomainActive` and `isDomainPersistent` return FALSE on error;
* **long, multi-step, multi-disk operations**: a backup is snapshot, copies, commits, pivots,
  deletions, each per disk and each able to fail, with a crash possible between any two;
* **timeouts**: a commit is polled for an hour and then skipped rather than failed;
* **asynchrony**: a pivot is accepted at once and done later; a guest agent command that timed
  out is still executed;
* **reports put together from dozens of calls**, each of which may fail or find something else;
* **a second program**: the hook meets metadata that versions of the daemon, operators and
  `virsh` have written, and its commands run in the random order of a Go map.

`PROJECT.json` lists each hazard at its line, with the properties that watch it.

## Modules

| Module | Models | Remarks |
|---|---|---|
| `Gate` | what a handler is promised by `isLockedAndMakeLock` | abstract specification |
| `LockTable` | `mutex.go`, `Lock`, `UnLock`, `ListLocks` | implements `Gate` |
| `LockTableProofs` | theorems about `LockTable` | |
| `DomainDisks` | external: a libvirt domain, its images and block jobs, as the handlers use them | used by `DomainRpc` |
| `DomainRpc` | `MakeBackup`, `Destroy`, `Start`, `Shutdown` | composes with `DomainDisks` by EXTENDS |
| `DomainRpcProofs` | theorems about `DomainRpc`: types, what is deleted, what stays, what MakeBackup promises | |
| `DomainConfig` | the RPCs that change memory, CPUs, shares, I/O limits, VLAN and network speed | on its own: it shares no state with `DomainRpc` but the power state |
| `DomainConfigProofs` | theorems about `DomainConfig` | |
| `Admission` | `Create`, `CloneImage`, `Destroy` on the domains and images of a pool | `Destroy` here seen from other domains' and later Creates' side, in `DomainRpc` from that of the running domain |
| `AdmissionProofs` | theorems about `Admission` | |
| `Snapshots` | `MakeSnapshot`, `RemoveSnapshot`, `RevertToSnapshot` next to starts, stops and a backup | the backup is reduced to its overlay |
| `SnapshotsProofs` | theorems about `Snapshots` and `InfoReport` | |
| `InfoReport` | `Info`: `getDomainInfoResponse`, `listDomainSnapshots` | composes with `Snapshots` by EXTENDS: its steps are the changes a report meets |
| `NetHook` | `SetNetworkSpeed` and `hook/qemu.go` | two programs that meet in the domain's metadata |
| `NetHookProofs` | theorems about `NetHook` | |
| `GuestAgent` | `QemuAgentInfo`, `SetPassword` | libvirt's channel to the agent is part of it |
| `GuestAgentProofs` | theorems about `GuestAgent` | |
| `Capacity` | `CheckResources`, `HypervisorInfo`, the network of an interface in `Info` | numbers are machine words |
| `CapacityProofs` | theorems about `Capacity` | |
| `MC...` | instances for TLC | one `.cfg` per run |

### LockTable

`isLocked` is the set of keys of the `sync.Map` (the code stores nothing but `true`). Each
element of `Call` is a goroutine that serves one request after another. A step is one operation
on the map: `LoadOrStore`, a `Load` of the polling loop (`PollFree`, `PollTaken`), the deferred
`Delete` (`DeferredDelete`), `Store` and `Delete` of `addLock` and `removeLock`, a visit of
`Range`. The deferred deletion is a step of its own because the goroutine can be preempted
between the load that let it through and the deletion; the handler's body (`"serve"`) starts
only afterwards. `left` is what remains of the handler's count, 10 or 60 in `jrpc.go`, here a
constant set. `manual`, `blocked`, `steady` and `ever` are history that no action reads.

`Gate` says what the callers use: an answer, given by the state of the table at some instant
between the call and the answer. `KeepsPromise` maps the table onto it.

### DomainRpc and DomainDisks

`DomainDisks` is libvirtd and QEMU as far as the handlers use them. A disk's images are layers:
`<<d, 0>>` is its base image and `<<d, n>>` the overlay `*.external.snapshot.qcow2` the `n`-th
external snapshot put on top. `top` is the active layer, `files` the images that exist, `job` a
commit job. A commit runs until it is ready, a pivot until it is done; both go on by themselves.
A guest asked to shut down may do so at any time or never.

In `DomainRpc` a request is a label `pc` and the local variables of its handler: `at` (the loop
over the disks), `paths` (the images it read from the XML), `polls` (the count in
`waitBlockCommitActive`), `wasPersistent`. `saved` and `raced` are history: the images an lz4 copy
was completed of, and whether a snapshot was taken while another MakeBackup was between its checks
and its own snapshot. Labels name the code:

| Labels | Code |
|---|---|
| lookup, power, jobs, job, overlay | head of the handlers, `isDomainActive`, `isDomainBlockJobRunning`, `isDomainBlockHasActiveExternalBackupSnashot` |
| paths, snapshot | `prepareXMLForSnapshot`, `makeDomainSnapshot` |
| open, copy | `createBackup`, `lz4Compress`, once per disk |
| relist, commit, wait, pivot | `MakeBackup` 1070-1095, `waitBlockCommitActive` |
| delete, verify | `deleteTemporaryExternalSnapshot`, the last check of `MakeBackup` |
| persist, active, kill, undefine | `destroyAndUndefineDomain` |
| pools, erase, confirm | `destroyDomain` |
| create, ask | `startDomain`, `shutdownDomain` |

One step is one libvirt or file system call, with these exceptions, none of which hides an
interleaving that the properties could tell apart: `IsActive` and the following `GetXMLDesc` in
`isDomainBlockJobRunning`; the two readings of the XML in `prepareXMLForSnapshot` and for the
list of images; the refresh of a pool with the deletion that follows it. The gate is reduced to
"may refuse": `gate_threads` shows that it excludes nothing.

What goes wrong is an *adversity*: a call that fails for no reason of its own (`fault`), a state
query that fails and is taken for FALSE (`misread`), a job that makes no progress for an hour
(`stall`), a job that aborts (`abort`), a pivot that fails (`pivotfail`), a guest that powers off
unasked (`off`), a daemon that is killed (`crash`). The constant `Budget` bounds how often each
strikes; it is the only bound on the environment.

### DomainConfig

A running domain has a `live` configuration, a `persistent` one a `stored` configuration, and
what is set has to reach those that exist. Four fields stand for all that is set, because the
code treats the others in the same way: `current` for SetMemory, SetVCPUs, SetMemoryStatsPeriod,
SetDomainSchedulerCPUShares and SetDomainDeviceIOPS (operation `Set`: two questions, each adding
a flag, then one call), `maximum` for SetMaxMemory and SetMaxVCPUs (`SetMax`: the power state
first, always the stored configuration), `nic` for the VLAN that SetPVIDForNetworkDevice sets by
detaching and attaching (`SetPVID`), `speed` for the metadata of SetNetworkSpeed (`SetSpeed`).

| Labels | Code |
|---|---|
| checks | lookup and `isDomainBlockJobRunning` in each handler; may refuse for reasons `DomainRpc` models |
| persist, active, set | `setDomainCurrentMemory`, `setDomainCurrentVCPUs`, `setDomainSchedulerCPUShares`, `setDomainBlockIoTune` |
| max | `setDomainMaxMemory`, `setDomainMaxVCPUs` |
| inactive, nics, detach, attach, confirm | `setPVIDForDomainNetworkDevice` |
| inactive, meta | `setDomainMetadataNetworkRate` |

What libvirt makes of the flags (`Target`, `Acceptable`, `Change`, `WithMaximum`) is external: no
flag means the live configuration of a running domain and the stored one of any other, a flag
that does not fit the domain is an error. `PowerOn`, `PowerOff` and `Undefine` are whoever starts,
stops and undefines domains, this daemon included. `raced` is history: the requests whose reading
of the power state or of persistence was overtaken before they used it. The properties are about
what happens without that, and `raced` says exactly which windows are to blame otherwise.

### Admission

`domain` gives the UUID of the domain of a name, `image` who made the volume of that name (the
path `<pool>/<name>.qcow2` that `getNewDomainImageName` builds), `building` the volume it is being
cloned from. A request asks for one thing throughout (`ask`); `handle` is the UUID of the domain
Destroy looked up, `listed` the volume it found in the XML of its domain.

| Labels | Code |
|---|---|
| name, validate | `validateCreateDomain` |
| path | `prepareXMLforNewDomain`, `getNewDomainImageName` |
| clone, building | `cloneVolumeByPath`, up to and during `StorageVolCreateXMLFrom` |
| define | `DomainDefineXMLFlags` in `Create` |
| lookup, paths, copy | `Destroy`, `destroyDomain` up to the end of the copies |
| persist, undefine | `destroyAndUndefineDomain` |
| pools, erase, confirm | the rest of `destroyDomain` |

libvirt as the code uses it: a volume is not overwritten, neither cloned nor deleted while it is
being built, nor deleted while something is cloned from it; a pool that builds a volume cannot be
refreshed; libvirtd finishes a clone also if nobody waits for it; a definition is refused if the
UUID belongs to another name or the name to another UUID, and replaces one that has both. The
code's lookups take any error for "there is none" (`NotFound`). The checks of Create reserve
nothing, so whether memory, storage and virtual functions do is left open in `Validate`.

A `virDomain` is resolved by libvirt by its UUID alone (`Alive`), whenever it is used: a Destroy
reads the XML, the persistence and undefines whatever domain has that UUID at the time
(`TakeDomain`). Nothing reserves UUIDs, and Create takes the one the client sends. So if another
Destroy has undefined the domain of a handle, this handle stands for nothing, for a new domain of
that name, or for one of another name. `undefiner` is history: who undefined the domain of a name.

The properties exempt two situations, by `Trusted`: a Destroy that was told a persistent domain
was not, which deletes the image of a domain that stays defined, and two Destroys of one domain
that overlap, so that one has still to use its handle when the other undefines (`raced`). The later
one passes over the undefinition of a domain that is gone and deletes the image of the next domain
of that name; or undefines a domain of another name that was given the UUID. `NoOrphan` does not
use `Trusted`: it names the overlap as the one way to an image without a domain that needs neither
a failing call nor an answer other than TRUE.

### Snapshots and InfoReport

An internal snapshot lives in the image that is active when it is taken. `snaps[n]` is the
snapshot of name `n` with its parent and the image its data are in; `image` is what a `MakeBackup`
has done to the disk (base, overlay, being committed). When a commit ends its overlay is deleted,
and with it the data of every snapshot taken in it: their `place` is `"lost"`. The disks of a
domain are treated alike and are one here. `raced` holds the requests whose domain was started, or
got another image by a revert, after their check.

| Labels | Code |
|---|---|
| power, jobs, overlay | `isDomainActive`, `isDomainBlockJobRunning`, `isDomainBlockHasActiveExternalBackupSnashot` |
| create | `makeDomainSnapshot` with CREATE_ATOMIC and CREATE_HALT |
| find, delete | `SnapshotLookupByName` and `deleteDomainSnapshot`; a name that is not there ends in a nil dereference (`"panic"`) |
| find, revert | `revertToSnapshot` |

`InfoReport` adds one `Info`: `report` is what it has put together, `todo` the handles
`listDomainSnapshots` still has to describe, `entry` the description it works on, `asked` how many
of the nine lists it has asked for. One value stands for block, I/O and scheduler parameters, all
read twice: as they are now and, if the domain was found persistent and active, as stored. `seen`
is history: what has changed since the report began.

### NetHook

`stored` and `live` are the metadata in the two configurations of the domain, `vf[i]` the settings
of the virtual function of interface `i`. An element of metadata is a text; `""` is one that is
missing and `"bad"` one that does not parse, since the daemon (`getDomainMetadata`) and the hook
(`parseMetadataXML`) treat both differently: the daemon refuses bad numbers and fills in missing
elements when it writes, the hook takes a default for what is bad and the zero value of the type
for what is missing. `Written` is what Create, older versions and `virsh` may have written.

| Labels | Code |
|---|---|
| jobs, inactive, get, set | `SetNetworkSpeed` with `setDomainMetadataNetworkRate` |
| read | the hook's `main` up to `parseMetadataXML` |
| lookup | the route and VF of each valid interface |
| apply | `ip link set`, command by command, in the order of a map |

libvirt waits for the hook and changes nothing of a domain it starts. `promised` is history, the
settings asked for; `due` those asked for when the domain was started; `failed` the settings whose
commands failed since.

### GuestAgent

`pipe` is the channel to the agent, the commands it has still to execute; `turn` the request whose
command libvirt waits for, one at a time. A command libvirt gives up stays in the channel
(`Timeout`; or was not sent, if the agent did not answer the greeting), and is executed before any
that is sent later. `open[f]` are the requests for which file `f` is open in the guest, `password`
the requests that have set the password, newest first.

| Labels | Code |
|---|---|
| power, jobs | head of `QemuAgentInfo` and `SetPassword` |
| query | the eight queries of `getQemuAgentInfoResponse`, a failed ping ending it |
| open, read, close | `getGuestLinuxLA` and its two likes |
| password | `setDomainPassword` |

`leaked` is history: requests and files for which the answer to an opening or a closing was lost.
It is the exact exemption of `HandlesReturned`.

### Capacity

A request at a time, as none keeps anything: `CheckResources` (its checks are all checks of
`Create`, which looks at the UUID, the template and the MAC besides) on the name, CPUs, memory,
the pool and virtual functions, `HypervisorInfo`, and the network `Info` names for an address.
`Word` is the number of values of an unsigned machine word; `Used` and `Memory` wrap as the code's
`uint64` do. CPUs are asked for in a signed word (`int`) and compared as an unsigned one, so a
negative number is a large one; those of the host are counted in half a word. `nic[d]` is the
address libvirt has given domain `d`. Networks are known by their numbers, `NoNetwork` is a name
that no network has, for which `Unknown` is the refusal. A domain stands for its name, which is
taken; `NewName` are valid names that are free, `BadName` is one that is empty or without any
valid character (the pattern of `isDomainNameValidAndAvailable` is not anchored: one valid
character is enough). `FreeName` refuses what is not new, unless the lookup fails, which finds
nothing. The domains stay defined: the model is about the host, and Creates and Destroys are in
`Admission`. `changed` is history.

## Runs

| Run | Instance | Shows |
|---|---|---|
| `gate` | 2 keys, 2 goroutines, counts 1 and 3 | the invariants of the table, that calls are answered and temporary entries end, and that `LockTable` implements `Gate` |
| `gate_threads` | 1 key, 2 goroutines | finding: two handlers run on one key |
| `domain_safety` | 2 disks; any two of MakeBackup, Destroy, Start and Shutdown; every adversity up to once | the safety properties below |
| `domain_live` | 2 disks, one image outside `/var/lib/libvirt/`; a MakeBackup next to a Start or Shutdown; stall, abort and power-off up to twice | every request ends; an undisturbed backup commits and returns to its base images |
| `overlay_lost` | one MakeBackup, one power-off | finding: an overlay in use is deleted after a timeout |
| `config` | any two configuration RPCs, values 1 and 2; fault, misread and crash up to once; starts, stops and an undefinition at any time | the invariants of `DomainConfig` below |
| `create` | 3 requests (Creates, a CloneImage, up to two Destroys and a Create that takes their UUID for another name), 2 names, 2 UUIDs, one template; 1 vCPU fits a domain, 2 the node, 3 neither; every adversity up to once | the properties of `Admission` below |
| `snapshots_report` | 2 requests on 2 names, every initial forest of snapshots and an overlay left over or none; starts, stops, a backup; an `Info` next to one of the requests; one adversity | the properties of `Snapshots` and `InfoReport` below |
| `hook` | 2 SetNetworkSpeeds, 3 metadata (partial, broken, none), 2 interfaces (one the hook serves), starts, stops and edits; one adversity | `AskedSettingsApplied`, `StartsEnd` |
| `speed_case` | the same with one interface and a name with an upper case letter | finding: the hook does not recognise the domain |
| `agent` | 2 requests, 8 queries and 3 files, power-offs at any time; any two adversities | `HandlesReturned`, `AnswersAreTrue` |
| `capacity` | words of 4 bits, names taken, free and invalid, 2 networks with 3 virtual functions, 2 domains, 3 hosts, one failing call | `QuietVerdictIsRight`, `ReportIsTrue` |

Properties of `LockTable`: `TemporaryLockHasHolder` (an entry no operator put belongs to a call
that still has its deferred deletion to run), `OperatorLockBlocks`, `ListIsFaithful` (between the
keys locked throughout and those locked at some time), `EveryCallAnswered`, `TemporaryLockEnds`,
`KeepsPromise`.

Properties of `DomainRpc`: `BackupReadsQuietImage` (no torn copy), `ChainIntact` (the layers of a
disk exist; assumes nobody stalls, powers off, destroys or fails a pivot, since then it does not
hold), `DestroyedImagesWereSaved`, `SuccessfulBackupIsComplete` (what TRUE means; an overlay found
then is that of another MakeBackup, under way or failed). The first two
hold unless two MakeBackups raced (`raced`), where the code breaks them; the others hold even then.
Further
`LeftOverStays` (an unfinished backup is neither repaired nor damaged by later requests),
`EveryRequestEnds`, `BackupCommits`, `BackupReturnsToBase`.

Properties of `DomainConfig`: `NoDrift` (live and stored configuration agree while the domain
runs), `InterfaceKept` (a persistent domain has its interface or a request about to attach it,
also when several SetPVIDs overlap), `RejectionsAreRaces` (libvirt never rejects the flags of a
request that was not overtaken, even of one that was misled).

Properties of `Admission`: `DomainHasItsImage` (a domain's image is complete and the one its own
Create made), `NoRedefinition` (Create never replaces a definition), `NoOrphan` (an image without
a domain is in the hands of a request, left by one that did not succeed or met a failing call, or
that of a domain undefined by the stale handle of a Destroy that had listed another image),
`DestroyedIsGone` (no domain of the name Destroy was asked for when it answers TRUE),
`ErasedWasSaved`. What keeps the first two is neither check of Create but the clone, which only
one of them can win; mutant `CloneReusing` shows it. `NoOrphan` also tells what does leave an image
that makes every later Create of that name fail with "image exists": a definition that fails after
the clone (a UUID in use, 17 vCPUs on a node that has them), a crash, and a Destroy that meets any
clone in the pool, as the refresh that must precede the deletion is then refused; that Destroy
ends in the nil dereference of `domain.go:209` without any call having failed by itself.

Properties of `Snapshots`: `SnapshotsComeBack` (a snapshot's data are deleted with an overlay only
if the snapshot was taken in a race with the backup), `AnsweredSnapshotStays`, `HandlesFreed` (all
but the handle of a refused revert), `GuestUndisturbed` (an action property: no step of a request
that was neither overtaken nor misled stops a guest or exchanges its disk). Of `InfoReport`:
`QuietReportIsTrue` (if nothing changed and nothing failed the report is true, field by field),
`UnmarkedEntryIsTrue` (a failed call marks its entry, the number of children apart),
`ErrorsAreExplained` (only failures and removals look like errors).

Properties of `NetHook`: `AskedSettingsApplied` (rate and settings asked for before a start are
those its virtual functions have when the hook is done, each command that failed spoiling its own
setting only), `StartsEnd`. Of `GuestAgent`: `HandlesReturned`, `AnswersAreTrue` (no part of a
file is reported for all of it; a password answered TRUE is not undone by a SetPassword that had
ended before). Of `Capacity`: `QuietVerdictIsRight` (without changes and failures CheckResources
answers TRUE if and only if the name is valid and free and what is asked for is there),
`ReportIsTrue` (what HypervisorInfo and Info say; the part about available virtual functions holds
whatever starts and stops while it counts).

Bounds. Two keys and two goroutines are the least that let one call delete another's entry while a
third key is untouched; counts 1 and 3 take the first, a middle and the last round of the polling
loop. Two disks are the least with a "before" and "after" in every loop; the loops treat disks one
by one and in order, and every property is per disk. One adversity of each kind, all seven kinds
in one behaviour, is more than the properties need: each was seen to break by at most two. Two
stalls let the timeout pass on both disks. Two requests of any kind are the least for one to
overtake another; they are interchangeable, and as `domain_safety` checks no liveness, symmetry is
sound. The theorems need none of these bounds.

Every property of a passing run is broken by a mutant of the code in the same module: an operator
whose comment begins with "Mutant", defined before the one it would replace.

`config` has two requests, the least for two SetPVIDs to meet and for a setter to run inside
another's window; two values, the least for a change and for a maximum below a current value. Its
requests are interchangeable and the run checks invariants only, so symmetry is sound.
`create` has three requests: two Creates and the Destroy between them, or two Destroys and the
Create they disagree about, are what each property needs; the second name is there for UUIDs in
use, for clones of another domain's image, and for the domain that a stale handle meets.

`snapshots_report` has two requests and two names, the least for one to remove what the other
made or its parent; their names do not differ in case only. The action constraint `Apart` of
`MCInfoReport` keeps the product of the report with everything else small: two requests,
backups and crashes run while there is no report, and a report meets one request that is about to
change something, starts, stops and configuration changes. It only cuts behaviours off, so what
the run shows, it shows of the rest; the theorems on `Snapshots` need none of it. One adversity
strikes in all, as in `hook` (`Once`); in `agent` two (`Twice`), since a late password takes one
and the request that meets it may need another. Symmetry is used on requests, names and domains
that are interchangeable, and only where a run has no liveness property. Words of four bits are
enough to wrap at twice a memory and at a sum of three; two networks are the least with a first and
a last one.

## Fairness

`LockTable!Spec` has weak fairness of `Continue` for each goroutine: the Go scheduler runs a
runnable goroutine and `time.Sleep` of a second ends. Requests are not fair: clients owe nothing.
`DomainRpc!Served` has weak fairness of `Step` for each request, for the same reason and because
every libvirt call returns; the hour of `waitBlockCommitActive` is a bound in the code, so
`WaitTimeout` is part of `Step`, though of a running domain it takes a stall. A job that never
gets ready without a stall in the budget is excluded in `domain_live` only by `Settled`, which
adds weak fairness of QEMU's two steps `JobReady` and `PivotCompletes`; faults, misreads, crashes
and power-offs are never fair. `NetHook!Spec` has weak fairness of `Hook`: libvirt runs the hook and
waits for it, the kernel runs its commands, and each of them ends.

## Proofs

All for any constants satisfying the named assumptions. Each says what a constant is, none limits
its size, and TLC evaluates them in the runs:

| Module | Assumptions |
|---|---|
| `LockTable` | `NoKeyAssumption`, `CountsAssumption` |
| `DomainDisks`, `DomainRpc` | `DiskAssumption` (there is a disk; which are writable), `BudgetAssumption`, `PlanAssumption`, `PlaceAssumption` |
| `DomainConfig` | `ConfigPlanAssumption`, `ConfigBudgetAssumption`, `ConfigValueAssumption` |
| `Admission` | `AdmissionPlanAssumption`, `AdmissionBudgetAssumption`, `NobodyAssumption`, `VolumeAssumption` (no template has the name of a domain) |
| `Snapshots`, `InfoReport` | `SnapshotPlanAssumption`, `SnapshotBudgetAssumption`, `EarlierAssumption`, `NoSnapshotAssumption`, `FoldAssumption`, `NameAssumption` (the names are finitely many: a report counts them) |
| `NetHook` | `TextAssumption`, `SpeedAssumption`, `WrittenAssumption`, `DevicesAssumption`, `LowerAssumption`, `HookBudgetAssumption` |
| `GuestAgent` | `NobodyAssumption`, `AgentBudgetAssumption` |
| `Capacity` | `WordAssumption` (CPUs are counted in half a word), `LeastAssumption`, `MemInfoAssumption`, `PoolInfoAssumption`, `NetworksAssumption`, `DomainAssumption`, `NewNameAssumption` (no domain has a new name), `AskedAssumption`, `CapacityBudgetAssumption`: domains, networks and their virtual functions are finitely many, quantities are words |

`LockTableProofs`. The inductive invariant is `TypeOK`, `GateOK` (a call at the gate names a key,
and a waiting one has a poll left), `TemporaryLockHasHolder`, `BlockedOK` (a blocked call is at
the gate, its key is in the table and marked manual) and `ListOK` (what a Range has visited is
between `steady` and `ever`). `TemporaryLockHasHolder` is inductive only with `GateOK`, since a
deletion by key must be known to name the key of its call; `OperatorLockBlocks` and
`ListIsFaithful` speak of the end of a call and need the other two for what goes before. From it:
`TypeCorrect`, `NoLeakedTemporaryLock`, `StandingLockBlocks`, `ListCorrect`. `ImplementsGate`
proves the safety part of `KeepsPromise` by simulation, one step per action.

`DomainRpcProofs`. The inductive invariant is `TypeOK`, `JobOK` (a commit runs on an overlay, so
a pivot leaves no negative layer), `CopyOK` (the disks before `at[r]` are compressed while a
handler compresses, all of them afterwards) and `DestroyedImagesWereSaved`. `CopyOK` is what ties
the copies a Destroy made to the deletions it makes many steps later, from the same list of
paths; overlays that MakeBackup deletes are no base images. From it: `TypeCorrect`,
`NoImageLostUnsaved`; and `LeftoversStay`, an action property that follows from `TypeOK` alone by
one step per action.

Three more parts hold as long as no two MakeBackups raced. `LayerOK`: a MakeBackup past its checks
finds all disks on their base images (`Checked`), from its snapshot on those it has still to commit
on their overlay without a pivot (`Covered`), and at most one request is in between (`Alone`): no
second snapshot fits in, as it would need base images everywhere. `FileOK`: MakeBackup has listed
the overlays it deletes (`Listed`). `ChainOK`, while things are steady: the overlay files of a
backup are there until it deletes them, of one request at a time, as libvirt refuses a snapshot
whose file exists (`Present`); the disks it has passed are leaving their overlays (`Pivoted`); and
the layers exist (`Chained`). Steps are first sorted by `Kinds` into quiet ones, those of the host
and those of a MakeBackup. From it: `QuietImages`, `ChainsStayIntact`.

`BackupsComplete` is `SuccessfulBackupIsComplete` itself, with races, and needs to count. When
MakeBackups race, several overlays lie on a disk and nobody knows whose is whose, but each request
past its snapshot has at most one pivot for a disk and one overlay file to delete. `CountOK` says:
the requests that have still to commit a disk, and its pivot under way, are no more than its
layers (`LayersCounted`); a request that merges or deletes has listed an overlay of each disk it
covers (`Relisted`); every base image is saved, or there was no snapshot, or the request that took
the first one is still compressing, or it failed and some layer of every disk will never be merged
(`BaseOK`); and unless a MakeBackup failed, the overlay files of a disk are no more than the
requests that have still to delete one (`OverlaysCounted`). A MakeBackup that answers TRUE has
found all layers gone: then no request has still to commit, which rules out every alternative of
`BaseOK` but that the base images are saved; and an overlay file that is left has a request that
is about to delete it, or one that failed. The lemmas follow the kinds of steps: `CountCalm` (all
that adds neither snapshot nor pivot), `CountOnTheWay`, `CountSnapshot`, `CountMerges`,
`CountPivot`, `CountDelete`.

All of it is for any number of requests and disks, of which only those of `Writable` need get an
overlay.

`DomainConfigProofs`. The inductive invariant is `TypeOK`, `PresenceOK` (a domain that is off is
defined, an absent one is not), `PowerOK` and `FlagsOK` (what a request that was not overtaken
knows: by its label of the power state, by its flags of both), and the three properties. `NoDrift`
needs `FlagsOK` to know that a `Set` reaches every configuration there is, and `PowerOK` that the
others find the domain off; `InterfaceKept` needs `PowerOK` so that a detach and the attach after
it meet the same configuration. From it: `TypeCorrect`, `ConfigurationsAgree`,
`InterfaceSurvives`, `FlagsAccepted`, each for any number of requests.

`AdmissionProofs`. The inductive invariant is `TypeOK`, `OpOK`, `UniqueOK` (no two domains have
one UUID), `HandleOK` (unless it was overtaken, a Destroy's handle stands for the domain it looked
up, it lists no volume but that of its name and undefines no other domain), `MakerOK`, `BuildOK`
(a request that waits for a clone is its maker), `NoOrphan`, and, while `Trusted`: `OwnOK` (a
domain has its image, and its Create has ended), `PendingOK` (a Create about to define has its
image and finds no domain), `HeldOK` (a Destroy that has not undefined its domain finds it
defined), `ErasingOK` and `AloneOK` (one that has undefined it finds the image until it deletes
it, with nobody else at work on the name), `CopiedOK`. The heart of it is the interplay of `OwnOK`
and `ErasingOK`: the image that outlives its domain keeps every Create away until the Destroy in
charge has deleted it. `NoOrphan` holds also where nothing is `Trusted`: who is to blame for an
image stays so (`CulpritStays`), and a Destroy that is to answer TRUE with the image of its domain
still there either met a failing call (`FaultsCounted`) or listed another volume, which by
`HandleOK` only one that was overtaken has. From it: `TypeCorrect`, `ImagesBelong`, `DefinedOnce`,
`OrphansAccountedFor`, and the action properties `DestroyedGone` and `ErasedSaved`.

`SnapshotsProofs`. The inductive invariant is `TypeOK`, `BegunOK`, `HeldOK` (a handle is held
between lookup and last call, or by a refused revert), `AnsweredSnapshotStays`, `QuietOK` (a
request past its checks, told the truth and not overtaken, finds the domain off and on its base
image) and `PlaceOK` (so its snapshot is in the base image). From it: `TypeCorrect`,
`HandlesAreFreed`, `SnapshotsSurviveBackups`, `AnswersHold`, and the action property
`GuestsLeftAlone`. With three requests a revert to a live snapshot, or to one in an overlay, starts
the domain under another request's feet or changes its image, which two requests cannot show to the
properties: the attempt to prove `QuietOK` did, and is why a revert, too, adds to `raced`.

For `InfoReport` the invariant `ReportInv` adds what a report in the making is: `FieldsOK` (its
shape, field by field), `ListedOnce` (a snapshot of the list is still to be described, being
described or described, once), `ErrorsOK` (as long as nothing is removed, what is on the list is
there, and what is not a root keeps its parent, so that an error needs a failed call), and, while
nothing changes: `HeadOK`, `EntryOK` and `DescribedOK` (the first half of the report, the entry
being written as far as it goes, and the entries that are complete are true). `DescribedOK` with
`ListedOnce` is what makes the number of entries agree with the snapshots there are; `EntryOK` is
proved list by list, as the flags of a snapshot are gathered from nine of them. A step of anything
else either keeps what the report speaks of or ends `Quiet`. From it: `ReportTypeCorrect`,
`QuietReportsAreTrue`, `UnmarkedEntriesAreTrue`, `MarksAreExplained`; and `ReportsDisturbNothing`,
which carries the theorems on `Snapshots` over to behaviours with reports.

`NetHookProofs`. The inductive invariant is `TypeOK`, `HookOK` (the domain and the hook go
together), `SpeedOK`, `GroundsOK` (a request that is not overtaken writes to a domain that is off,
on the grounds of metadata that differ from the stored ones in nothing but what others like it have
written), `PromiseOK` (the stored metadata say what was asked for) and `ProgressOK` (what is due is
applied to the interfaces the hook has been at, and to the current one all that is not left). From
it: `TypeCorrect`, `SettingsReachVFs`, for any metadata, interfaces and requests.

`GuestAgentProofs`. The inductive invariant is `TypeOK`, `PlaceOK` (item and label agree), `TurnOK`
(the command that is waited for is the last in the channel), `OffOK`, `PendingOK` (of an opening
still in the channel the answer is awaited, or counts as lost), `HandlesReturned`, `WholeOK`,
`BeforeOK` (who had ended before has ended) and `PasswordOK` (behind a password answered TRUE the
channel holds nothing from requests that had ended before it began). `PendingOK` is what
`HandlesReturned` needs to survive an opening that comes late; `PasswordOK` holds because the
channel is first in, first out, and one command is waited for at a time. From it: `TypeCorrect`,
`FilesAreClosed`, `AnswersHold`, for any number of requests and adversities.

`CapacityProofs`. The inductive invariant is `CapacityTypeOK`, `OpOK` (labels and requests go
together), `CountOK` (the virtual functions counted so far are those of the domains looked at),
`VerdictOK` (CheckResources has passed a check if and only if there is what it asks for, the
name being the first),
`ReportOK` (what HypervisorInfo has put together) and `NameOK` (Info has looked in vain where it has
been). The rest is arithmetic: a number of CPUs that is negative is no match for those of the host
only because these are counted in half a word, which the proof attempt brought up as an assumption
the model had left out; domains with a virtual function of a network are as many as the virtual
functions they have if no two share one (`Shared`), and no fewer in any case, since the addresses
of domains are a surjection (`AddressesCounted`); and the memory in use does not wrap if the host's
numbers are consistent. From it: `TypeCorrect`, `VerdictIsRight`, `ReportsAreTrue`, for words and
hosts of any size.

TLC has confirmed the inductive invariants of all proof modules on the instances of the runs.

Every safety property of a passing run is a theorem. Only model-checked is what needs fairness
(`EveryCallAnswered`, `TemporaryLockEnds`, the liveness part of `KeepsPromise`, `EveryRequestEnds`,
`BackupCommits`, `BackupReturnsToBase`, `StartsEnd`), which the prover does not reach.

## Disagreements between the code and what it says of itself

Each of these has a run that shows it:

1. `gate_threads`, `mutex.go:15`: the "thread safety lock" (`jrpc.go:56`) is released before the
   handler starts.
2. `overlay_lost`, `jrpc.go:1087`: after a timed-out commit the overlay is deleted though the disk
   is on it; `jrpc.go:991` requires the original disk to be active first.
3. `speed_case`, `hook/qemu.go:308`: the hook compares the domain's name with the lower-cased one
   it is called by, and does nothing for a name with an upper case letter, though `SetNetworkSpeed`
   "sets spped for all hostdev network devices bound to specified domain" (`jrpc.go:250`).

These were met while modelling. The models have them, as steps or as exemptions of the properties,
without a run of their own:

* `mutex.go:15`: an operator's lock is removed by the next call that meets it, admitted or not, not
  only by `UnLock` (`jrpc.go:42`).
* `domain.go:41`: a domain started while `Destroy` copies its images is killed; `jrpc.go:771`
  forbids active domains.
* `jrpc.go:1035`: the "sanity lock" and the snapshot are two calls, and nothing keeps a second
  MakeBackup of the domain out between them. The second then stacks an overlay on the first's, and
  the first commits and deletes while the second compresses: a copy may be torn, and an overlay that
  a disk is on may be deleted.
* `jrpc.go:1080`: read-only disks are left out of the snapshot but not of the commits.
* `domain.go:209`: the log of a volume that could not be removed dereferences a nil error.
* `domain.go:40`, `53-66`: of two Destroys of one domain the second acts by a handle that is stale.
  If a Create gave the UUID to another name after the first had ended, the second undefines that
  domain and may leave its image behind, or list, copy and delete it, and answers TRUE.
* `domain.go:433`: the pattern of a valid name accepts any name with one valid character.
* `interfaces.go:117`: the interface of a domain started meanwhile is detached and attached in its
  live configuration; `interfaces.go:102` says "only for domain in shutdown state!".
* `jrpc.go:893`: `RemoveSnapshot` of a name that does not exist frees a nil handle and panics.
* `snapshots.go:402`: a revert that libvirt refuses keeps the handle of its snapshot.
* `snapshots.go:163`: the number of children is 0 when asking for it fails, unmarked.

## Plan

Done, most important first: the gate, backup and destruction of a running domain, its
configuration, its creation, snapshots and reports, the hook, the guest agent, the host's capacity.
What would add most to this: the cache of a storage pool, which the deletions refresh, and reports
that meet two requests at once.

## Not modelled

The libvirt, QEMU and guest agent internals beyond what the handlers use; the contents of images
and the lz4 format; JSON encoding; the rate limiter; logging; authentication; `SetAutostart` (one
flag outside both configurations); the names of physical and virtual functions in sysfs; random
UUIDs and MAC addresses. `Reboot` and `Reset` pass the checks of the modelled handlers and change
neither power state nor disks. Fields of a report that are copied from one answer, and `Domains`, a
list of names. In `DomainRpc` a Destroy finds no pool to refresh if no image lies in one: pools
without images of the domain are left out. In `InfoReport` the connection of a domain handle
(`getConnectFromDomain`), which the library returns without asking libvirtd, is always there.

Overlays outside `/var/lib/libvirt/` are not deleted (`backup.go:42`), so the next MakeBackup
fails at its snapshot and changes nothing; the model has it, and no property denies it.

Hazards without a property, each listed in `PROJECT.json`: a Destroy that is told a persistent
domain is not, and deletes the volumes of a domain that stays (`domain.go:332`); resources that
are checked and not reserved (`validate.go:25`), since `QuietVerdictIsRight` speaks of the moment
of the verdict; snapshots whose names differ in case only, which get each other's flags and which
`QuietReportIsTrue` exempts (`snapshots.go:118`). The name of a compressed image has a resolution
of one second (`backup.go:21`), so that two copies begun in the same second share a file; times
are not modelled.
