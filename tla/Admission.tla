------------------------------ MODULE Admission ------------------------------
(***************************************************************************)
(* jrpc.go: Create, CloneImage and Destroy at work on the domains and the  *)
(* images of one storage pool, with what they call in validate.go,         *)
(* domain.go and storage.go.                                               *)
(*                                                                         *)
(* Create checks, clones a template and defines a domain; nothing that it  *)
(* has checked is reserved.  A domain has one image, the volume of its     *)
(* name, so a name stands for both.  Domains are not running: DomainRpc    *)
(* has Destroy next to Start, and all that stops it early.                 *)
(***************************************************************************)
EXTENDS Naturals

CONSTANTS
  Req,       \* requests
  Name,      \* names of domains, each that of its image, too
  Template,  \* other volumes
  UUID,      \* identities of domains, from the client or genUUID
  Plan,      \* Plan[r]: what request r may ask for
  Cpus,      \* of the node
  MaxVcpus,  \* of a new domain, 16 in the code
  Budget     \* how often each adversity may strike

Volume == Name \union Template
Op == {"Create", "CloneImage", "Destroy"}
Request == [op : Op, name : Name, uuid : UUID, source : Volume, vcpu : Nat]
Adversity == {"fault", "misread", "crash"}

NoUUID == "none"
NoImage == "none"
NoVolume == "none"
Before == "before"          \* who made what is there at first
Maker == Req \union {Before}

ASSUME AdmissionPlanAssumption == Plan \in [Req -> SUBSET Request]
ASSUME AdmissionBudgetAssumption == Budget \in [Adversity -> Nat]
ASSUME NobodyAssumption ==
  NoUUID \notin UUID /\ NoImage \notin Maker /\ NoVolume \notin Volume /\ Before \notin Req
ASSUME VolumeAssumption == Name \cap Template = {}

VARIABLES
  domain,         \* the UUID of the domain of a name
  image,          \* who made the volume
  building,       \* the volume it is being cloned from
  pc,             \* the step request r takes next
  ask,            \* what it asks for
  handle,         \* the UUID of the domain a Destroy looked up
  listed,         \* the volume it found in the XML of its domain
  wasPersistent,  \* what isDomainPersistent told it
  spent,          \* spent[a]: how often adversity a has struck
  definer,        \* history: who defined the domain
  undefiner,      \* history: who undefined it
  saved,          \* history: images an lz4 copy was completed of
  raced           \* history: Destroys whose domain another one undefined under them

hostVars == <<domain, image, building>>
localVars == <<ask, handle, listed, wasPersistent>>
history == <<definer, undefiner, saved, raced>>
vars == <<hostVars, pc, localVars, spent, history>>

Ended == {"ok", "error", "refused", "panic", "lost"}
Using == {"paths", "copy", "persist", "undefine"}        \* the handle
Listing == {"copy", "persist", "undefine", "pools", "erase", "confirm"}
Holding == Using \union Listing
Label == {"idle", "name", "validate", "path", "clone", "building", "define", "lookup"}
           \union Holding \union Ended

TypeOK ==
  /\ domain \in [Name -> UUID \union {NoUUID}]
  /\ image \in [Volume -> Maker \union {NoImage}]
  /\ building \in [Volume -> Volume \union {NoVolume}]
  /\ pc \in [Req -> Label]
  /\ ask \in [Req -> Request]
  /\ handle \in [Req -> UUID \union {NoUUID}]
  /\ listed \in [Req -> Name \union {NoVolume}]
  /\ \A r \in Req : pc[r] \in Holding => handle[r] # NoUUID
  /\ \A r \in Req : pc[r] \in Listing => listed[r] # NoVolume
  /\ wasPersistent \in [Req -> BOOLEAN]
  /\ spent \in [Adversity -> Nat]
  /\ definer \in [Name -> Maker]
  /\ undefiner \in [Name -> Maker]
  /\ saved \subseteq Name \X Maker
  /\ raced \subseteq Req

\* Domains with their images, and templates.
Init ==
  /\ domain \in [Name -> UUID \union {NoUUID}]
  /\ \A m, n \in Name : domain[m] = domain[n] => m = n \/ domain[m] = NoUUID
  /\ image = [v \in Volume |->
                IF v \in Name THEN IF domain[v] = NoUUID THEN NoImage ELSE Before
                ELSE Before]
  /\ building = [v \in Volume |-> NoVolume]
  /\ pc = [r \in Req |-> "idle"]
  /\ ask \in [Req -> UNION {Plan[r] : r \in Req}]
  /\ \A r \in Req : ask[r] \in Plan[r]
  /\ handle = [r \in Req |-> NoUUID]
  /\ listed = [r \in Req |-> NoVolume]
  /\ wasPersistent = [r \in Req |-> FALSE]
  /\ spent = [a \in Adversity |-> 0]
  /\ definer = [n \in Name |-> Before]
  /\ undefiner = [n \in Name |-> Before]
  /\ saved = {}
  /\ raced = {}

Goto(r, label) == pc' = [pc EXCEPT ![r] = label]
Fail(r) == Goto(r, "error")
Its(r) == ask[r].name

Spend(a) ==
  /\ spent[a] < Budget[a]
  /\ spent' = [spent EXCEPT ![a] = @ + 1]

FirstStep(o) ==
  CASE o = "Create" -> "name"
    [] o = "CloneImage" -> "clone"
    [] OTHER -> "lookup"

\* The gate may refuse.
Enter(r) ==
  /\ pc[r] = "idle"
  /\ Goto(r, FirstStep(ask[r].op)) \/ Goto(r, "refused")
  /\ UNCHANGED <<hostVars, localVars, spent, history>>

-----------------------------------------------------------------------------
(***************************************************************************)
(* Create: validateCreateDomain, prepareXMLforNewDomain, cloneVolumeByPath *)
(* and the definition.  CloneImage: cloneVolumeByPath alone.               *)
(***************************************************************************)

\* A lookup that fails finds nothing, whatever it fails for.
NotFound(found) == IF found THEN Spend("fault") ELSE UNCHANGED spent

\* isDomainNameValidAndAvailable.
FreeName(r) ==
  /\ pc[r] = "name"
  /\ \/ domain[Its(r)] # NoUUID /\ Fail(r) /\ UNCHANGED spent
     \/ NotFound(domain[Its(r)] # NoUUID) /\ Goto(r, "validate")
  /\ UNCHANGED <<hostVars, localVars, history>>

\* Memory, storage and virtual functions, if all else fits, may or may not do.
Validate(r) ==
  /\ pc[r] = "validate"
  /\ \/ Fail(r)
     \/ /\ ask[r].vcpu \in 1..Cpus /\ image[ask[r].source] # NoImage
        /\ Goto(r, "path")
  /\ UNCHANGED <<hostVars, localVars, spent, history>>

\* getNewDomainImageName: "image exists".
FreePath(r) ==
  /\ pc[r] = "path"
  /\ \/ image[Its(r)] # NoImage /\ Fail(r) /\ UNCHANGED spent
     \/ NotFound(image[Its(r)] # NoImage) /\ Goto(r, "clone")
  /\ UNCHANGED <<hostVars, localVars, history>>

\* Mutant: a volume that is there already is taken for the clone.
CloneReusing(r) ==
  /\ pc[r] = "clone"
  /\ IF image[Its(r)] # NoImage
     THEN Goto(r, IF ask[r].op = "Create" THEN "define" ELSE "ok") /\ UNCHANGED hostVars
     ELSE /\ Goto(r, "building")
          /\ image' = [image EXCEPT ![Its(r)] = r]
          /\ building' = [building EXCEPT ![Its(r)] = ask[r].source]
          /\ UNCHANGED domain
  /\ UNCHANGED <<localVars, spent, history>>

\* libvirt neither overwrites a volume nor clones one that is incomplete.
Clone(r) ==
  /\ pc[r] = "clone"
  /\ LET from == ask[r].source
         into == Its(r)
     IN  IF image[from] # NoImage /\ building[from] = NoVolume /\ image[into] = NoImage
         THEN /\ image' = [image EXCEPT ![into] = r]
              /\ building' = [building EXCEPT ![into] = from]
              /\ Goto(r, "building")
              /\ UNCHANGED domain
         ELSE Fail(r) /\ UNCHANGED hostVars
  /\ UNCHANGED <<localVars, spent, history>>

\* Too many vCPUs, a UUID or a name that is taken: libvirt rejects the XML.
\* A domain of that name and UUID it redefines.
Define(r) ==
  /\ pc[r] = "define"
  /\ LET n == Its(r)
         u == ask[r].uuid
     IN  IF /\ ask[r].vcpu <= MaxVcpus
            /\ domain[n] \in {NoUUID, u}
            /\ \A m \in Name \ {n} : domain[m] # u
         THEN /\ domain' = [domain EXCEPT ![n] = u]
              /\ definer' = [definer EXCEPT ![n] = r]
              /\ Goto(r, "ok")
         ELSE Fail(r) /\ UNCHANGED <<domain, definer>>
  /\ UNCHANGED <<image, building, localVars, spent, undefiner, saved, raced>>

-----------------------------------------------------------------------------
(***************************************************************************)
(* libvirtd clones on its own: also if nobody waits for it any more.  A    *)
(* volume that could not be built is removed.                              *)
(***************************************************************************)
Waiting(r, v) == pc[r] = "building" /\ Its(r) = v

BuildEnds(v) ==
  /\ building[v] # NoVolume
  /\ building' = [building EXCEPT ![v] = NoVolume]
  /\ pc' = [r \in Req |->
              IF Waiting(r, v) THEN IF ask[r].op = "Create" THEN "define" ELSE "ok"
              ELSE pc[r]]
  /\ UNCHANGED <<domain, image, localVars, spent, history>>

BuildFails(v) ==
  /\ building[v] # NoVolume
  /\ Spend("fault")
  /\ building' = [building EXCEPT ![v] = NoVolume]
  /\ image' = [image EXCEPT ![v] = NoImage]
  /\ pc' = [r \in Req |-> IF Waiting(r, v) THEN "error" ELSE pc[r]]
  /\ UNCHANGED <<domain, localVars, history>>

\* storageVolDelete, virStoragePoolRefresh
CanDelete(v) ==
  /\ image[v] # NoImage
  /\ building[v] = NoVolume
  /\ \A w \in Volume : building[w] # v

CanRefresh == \A v \in Volume : building[v] = NoVolume

-----------------------------------------------------------------------------
(***************************************************************************)
(* Destroy.  libvirt finds the domain of a handle by its UUID: that need   *)
(* not be the domain that was looked up, nor have its name.                *)
(***************************************************************************)
Alive(r) == \E n \in Name : domain[n] = handle[r]

\* Mutant: the error of the lookup is not looked at.
LookupUnchecked(r) ==
  /\ pc[r] = "lookup"
  /\ handle' = [handle EXCEPT ![r] = domain[Its(r)]]
  /\ Goto(r, "paths")
  /\ UNCHANGED <<hostVars, ask, listed, wasPersistent, spent, history>>

Lookup(r) ==
  /\ pc[r] = "lookup"
  /\ handle' = [handle EXCEPT ![r] = domain[Its(r)]]
  /\ IF domain[Its(r)] = NoUUID THEN Fail(r) ELSE Goto(r, "paths")
  /\ UNCHANGED <<hostVars, ask, listed, wasPersistent, spent, history>>

\* The checks that DomainRpc models, and the list of images: that of the
\* domain the handle stands for now.
Paths(r) ==
  /\ pc[r] = "paths"
  /\ \/ Fail(r) /\ UNCHANGED listed
     \/ \E n \in Name :
          /\ domain[n] = handle[r]
          /\ listed' = [listed EXCEPT ![r] = n]
          /\ Goto(r, "copy")
  /\ UNCHANGED <<hostVars, ask, handle, wasPersistent, spent, history>>

\* Mutant: the copy that could not be made is passed over.
CopyUnchecked(r) ==
  /\ pc[r] = "copy"
  /\ Goto(r, "persist")
  /\ UNCHANGED <<hostVars, localVars, spent, history>>

Copy(r) ==
  /\ pc[r] = "copy"
  /\ LET n == listed[r]
     IN  IF image[n] = NoImage THEN Fail(r) /\ UNCHANGED saved
         ELSE /\ saved' = IF building[n] = NoVolume THEN saved \union {<<n, image[n]>>} ELSE saved
              /\ Goto(r, "persist")
  /\ UNCHANGED <<hostVars, localVars, spent, definer, undefiner, raced>>

\* An error counts as FALSE, as it does of a domain that is gone.
ReadPersistent(r) ==
  /\ pc[r] = "persist"
  /\ \E answer \in BOOLEAN :
       /\ wasPersistent' = [wasPersistent EXCEPT ![r] = answer]
       /\ \/ answer = Alive(r) /\ UNCHANGED spent
          \/ answer = FALSE /\ Spend("misread")
  /\ Goto(r, "undefine")
  /\ UNCHANGED <<hostVars, ask, handle, listed, history>>

\* Others that have still to use their handle of the domain r undefines.
Overtaken(r) == {s \in Req \ {r} : handle[s] = handle[r] /\ pc[s] \in Using}

\* virDomainUndefineFlags of r's handle.
TakeDomain(r) ==
  /\ domain' = [n \in Name |-> IF domain[n] = handle[r] THEN NoUUID ELSE domain[n]]
  /\ undefiner' = [n \in Name |-> IF domain[n] = handle[r] THEN r ELSE undefiner[n]]
  /\ raced' = raced \union Overtaken(r)

\* Mutant: an undefinition that fails is logged, and that is all.
UndefineUnchecked(r) ==
  /\ pc[r] = "undefine"
  /\ LET taken == wasPersistent[r] /\ Alive(r)
     IN  \/ taken /\ TakeDomain(r) /\ UNCHANGED spent
         \/ taken /\ Spend("fault") /\ UNCHANGED <<domain, undefiner, raced>>
         \/ ~taken /\ UNCHANGED <<domain, undefiner, raced, spent>>
  /\ Goto(r, "pools")
  /\ UNCHANGED <<image, building, localVars, definer, saved>>

Undefine(r) ==
  /\ pc[r] = "undefine"
  /\ IF wasPersistent[r] /\ Alive(r) THEN TakeDomain(r)
                                     ELSE UNCHANGED <<domain, undefiner, raced>>
  /\ IF wasPersistent[r] => Alive(r) THEN Goto(r, "pools") ELSE Fail(r)
  /\ UNCHANGED <<image, building, localVars, spent, definer, saved>>

\* A pool that cannot be refreshed is passed over: while a clone is being
\* built that is every time.
Pools(r) ==
  /\ pc[r] = "pools"
  /\ \/ CanRefresh /\ Goto(r, "erase") /\ UNCHANGED spent
     \/ ~CanRefresh /\ Goto(r, "confirm") /\ UNCHANGED spent
     \/ Goto(r, "confirm") /\ Spend("fault")
  /\ UNCHANGED <<hostVars, localVars, history>>

\* A volume that cannot be deleted is passed over, too.
Erase(r) ==
  /\ pc[r] = "erase"
  /\ \/ /\ CanDelete(listed[r])
        /\ image' = [image EXCEPT ![listed[r]] = NoImage]
        /\ UNCHANGED spent
     \/ ~CanDelete(listed[r]) /\ UNCHANGED <<image, spent>>
     \/ Spend("fault") /\ UNCHANGED image
  /\ Goto(r, "confirm")
  /\ UNCHANGED <<domain, building, localVars, history>>

\* Mutant: nobody looks if the volume is gone.
ConfirmNothing(r) ==
  /\ pc[r] = "confirm"
  /\ Goto(r, "ok")
  /\ UNCHANGED <<hostVars, localVars, spent, history>>

\* A volume that is still there makes the code use a nil error.
Confirm(r) ==
  /\ pc[r] = "confirm"
  /\ \/ image[listed[r]] # NoImage /\ Goto(r, "panic") /\ UNCHANGED spent
     \/ NotFound(image[listed[r]] # NoImage) /\ Goto(r, "ok")
  /\ UNCHANGED <<hostVars, localVars, history>>

-----------------------------------------------------------------------------
Fault(r) ==
  /\ pc[r] \in {"path", "clone", "define", "lookup", "paths", "copy", "undefine", "pools"}
  /\ Spend("fault")
  /\ Fail(r)
  /\ UNCHANGED <<hostVars, localVars, history>>

\* The daemon is killed.
Crash ==
  /\ \E r \in Req : pc[r] \notin Ended \union {"idle"}
  /\ Spend("crash")
  /\ pc' = [r \in Req |-> IF pc[r] \in Ended \union {"idle"} THEN pc[r] ELSE "lost"]
  /\ UNCHANGED <<hostVars, localVars, history>>

Finished ==
  /\ \A r \in Req : pc[r] \in Ended
  /\ CanRefresh
  /\ UNCHANGED vars

Create(r) == FreeName(r) \/ Validate(r) \/ FreePath(r) \/ Clone(r) \/ Define(r)

Destroy(r) ==
  \/ Lookup(r) \/ Paths(r) \/ Copy(r) \/ ReadPersistent(r) \/ Undefine(r)
  \/ Pools(r) \/ Erase(r) \/ Confirm(r)

Next ==
  \/ \E r \in Req : Enter(r) \/ Create(r) \/ Destroy(r) \/ Fault(r)
  \/ \E v \in Volume : BuildEnds(v) \/ BuildFails(v)
  \/ Crash
  \/ Finished

Safe == Init /\ [][Next]_vars

-----------------------------------------------------------------------------
(***************************************************************************)
(* Properties.  They hold unless a Destroy was told that a domain was not  *)
(* persistent when it was, or two Destroys of one domain overlapped: the   *)
(* later one then meets another domain of that UUID, or none.              *)
(***************************************************************************)
Trusted == spent["misread"] = 0 /\ raced = {}

(***************************************************************************)
(* Every domain has its image, complete, and made by the very request that *)
(* defined the domain, however Creates, CloneImages and Destroys of one    *)
(* name interleave, fail or are lost: it is the clone, not the check of    *)
(* the name, that lets only one Create of a name through.                  *)
(***************************************************************************)
DomainHasItsImage ==
  Trusted =>
    \A n \in Name : domain[n] # NoUUID =>
      image[n] = definer[n] /\ building[n] = NoVolume

(***************************************************************************)
(* Create never redefines a domain that is there, which libvirt would do   *)
(* for one of the same name and UUID: two such Creates, a retry among      *)
(* them, do not both succeed.                                              *)
(***************************************************************************)
NoRedefinition ==
  \A r \in Req : Trusted /\ pc[r] = "define" => domain[Its(r)] = NoUUID

Made(r, n) ==
  /\ image[n] = r
  /\ ask[r].op = "CloneImage" \/ pc[r] \in {"building", "define", "error", "lost"}

Bereft(r, n) ==
  /\ undefiner[n] = r
  /\ \/ pc[r] \in {"pools", "erase", "confirm", "panic", "error", "lost"}
     \/ pc[r] = "ok" /\ (spent["fault"] > 0 \/ (r \in raced /\ listed[r] # n))

(***************************************************************************)
(* An image without a domain is somebody's: CloneImage made it, a Create   *)
(* is at work on it or ended without success; or a Destroy undefined its   *)
(* domain and is at work on it, or ended without success.  If all answers  *)
(* were TRUE and no call failed, an image is left over in one case only:   *)
(* a Destroy listed the image of its domain, another one undefined that,   *)
(* a Create gave the UUID to a domain of another name, and the first       *)
(* undefined this one by its handle, and deleted what it had listed.       *)
(***************************************************************************)
NoOrphan ==
  \A n \in Name : image[n] # NoImage /\ domain[n] = NoUUID =>
    \E r \in Req : Made(r, n) \/ Bereft(r, n)

(***************************************************************************)
(* When Destroy answers TRUE there is no domain of the name it was asked   *)
(* for, even if somebody creates one as soon as that is possible:          *)
(* Destroy's last look, unless it fails, then sees the image.              *)
(***************************************************************************)
DestroyedIsGone ==
  [][\A r \in Req :
       Trusted /\ pc[r] = "confirm" /\ pc'[r] = "ok" /\ UNCHANGED spent
         => domain[Its(r)] = NoUUID]_vars

(***************************************************************************)
(* The image that Destroy deletes is the one it has made a copy of, not a  *)
(* later one of the same name.                                             *)
(***************************************************************************)
ErasedWasSaved ==
  [][\A n \in Name :
       Trusted /\ building[n] = NoVolume /\ image[n] # NoImage /\ image'[n] = NoImage
         => <<n, image[n]>> \in saved]_vars
=============================================================================
