----------------------------- MODULE InfoReport -----------------------------
(***************************************************************************)
(* The request Info of jrpc.go: getDomainInfoResponse (info.go) and        *)
(* listDomainSnapshots (snapshots.go) put a report together from dozens of *)
(* calls, while the requests of Snapshots and the host change what they    *)
(* read.  Infos change nothing, so one is enough.                          *)
(*                                                                         *)
(* One value stands for the block, I/O and scheduler parameters, which are *)
(* read in the same way: once as they are now and, if the domain was found *)
(* persistent and active, once more from its stored configuration.  All    *)
(* other fields are copied from one answer each and left out.              *)
(***************************************************************************)
EXTENDS Snapshots, Integers, Sequences

CONSTANTS
  Fold      \* Fold[n]: the name n without blanks around it and in lower case

ASSUME FoldAssumption == Name \subseteq DOMAIN Fold
ASSUME NameAssumption == IsFiniteSet(Name)

VARIABLES
  live, stored,  \* the parameters the domain runs, or would start, with; those on disk
  ipc,           \* the step Info takes next
  report,        \* what it has put together
  todo,          \* the snapshots it has still to describe
  entry,         \* the description it works on
  asked,         \* how many of Flags it has asked for
  seen           \* history: what has happened since it began: see Seen

infoVars == <<ipc, report, todo, entry, asked>>
configVars == <<live, stored>>
reportVars == <<snapshotVars, configVars, infoVars, seen>>

Value == {1, 2}
Nothing == 0

\* Nothing has changed, something has, or a snapshot has been removed, too.
Seen == {"nothing", "change", "removal"}

\* The lists libvirt is asked for to describe a snapshot.
Flags == <<"INTERNAL", "EXTERNAL", "DISK_ONLY", "ACTIVE", "INACTIVE", "METADATA",
           "NO_METADATA", "LEAVES", "NO_LEAVES">>

Children(n) == {m \in Made : snaps[m].parent = n}

Listed(flag) ==
  {n \in Made :
     CASE flag \in {"INTERNAL", "METADATA"} -> TRUE
       [] flag = "ACTIVE" -> snaps[n].live
       [] flag = "INACTIVE" -> ~snaps[n].live
       [] flag = "LEAVES" -> Children(n) = {}
       [] flag = "NO_LEAVES" -> Children(n) # {}
       [] flag = "ROOTS" -> snaps[n].parent = NoSnapshot
       [] OTHER -> FALSE}

Blank(n) == [name |-> n, children |-> 0, root |-> FALSE, parent |-> NoSnapshot,
             current |-> FALSE, flags |-> {}, error |-> FALSE]
NoReport == [state |-> FALSE, active |-> FALSE, persistent |-> FALSE, config |-> << >>,
             count |-> 0, entries |-> {}]

InfoInit ==
  /\ Init
  /\ live \in Value /\ stored = 1
  /\ on \/ live = stored
  /\ ipc = "idle"
  /\ report = NoReport
  /\ todo = {}
  /\ entry = Blank(NoSnapshot)
  /\ asked = 0
  /\ seen = "nothing"

Describing == {"children", "roots", "parent", "current", "flags"}
Reading == {"active", "persistent", "now", "config", "count", "list", "next"} \union Describing

InfoTypeOK ==
  /\ TypeOK
  /\ live \in Value /\ stored \in Value
  /\ ipc \in Reading \union {"idle", "ok", "error"}
  /\ report.config \in UNION {[1..k -> Value \union {Nothing}] : k \in 0..2}
  /\ report.count \in 0..Cardinality(Name)
  /\ todo \subseteq Name
  /\ Cardinality(report.entries) <= Cardinality(Name)
  /\ asked \in 0..Len(Flags)
  /\ seen \in Seen

Proceed(label) == ipc' = label

\* A call that fails, which the report may or may not tell.
FaultOr(found, missed) ==
  \/ found /\ UNCHANGED spent
  \/ missed /\ Spend("fault")

Rest == <<hostVars, pc, localVars, raced, configVars>>

-----------------------------------------------------------------------------
(***************************************************************************)
(* getDomainInfoResponse.                                                  *)
(***************************************************************************)

\* The statistics come with the state the domain had at that time.
Stats ==
  /\ ipc = "idle"
  /\ FaultOr(/\ report' = [NoReport EXCEPT !.state = on]
             /\ Proceed("active"),
             Proceed("error") /\ UNCHANGED report)
  /\ UNCHANGED <<Rest, todo, entry, asked>>

Active ==
  /\ ipc = "active"
  /\ \E answer \in BOOLEAN :
       /\ Told(answer, on)
       /\ report' = [report EXCEPT !.active = answer]
  /\ Proceed("persistent")
  /\ UNCHANGED <<Rest, todo, entry, asked>>

Persistent ==
  /\ ipc = "persistent"
  /\ \E answer \in BOOLEAN :
       /\ Told(answer, TRUE)
       /\ report' = [report EXCEPT !.persistent = answer]
  /\ Proceed("now")
  /\ UNCHANGED <<Rest, todo, entry, asked>>

Reported(value) == report' = [report EXCEPT !.config = Append(@, value)]

\* A reading that fails leaves an entry without values, or (scheduler) none.
Unread == UNCHANGED report \/ Reported(Nothing)

\* DOMAIN_AFFECT_CURRENT is decided by the state at this call.
Now ==
  /\ ipc = "now"
  /\ FaultOr(Reported(IF on THEN live ELSE stored), Unread)
  /\ Proceed("config")
  /\ UNCHANGED <<Rest, todo, entry, asked>>

\* Mutant: the second reading asks for the current values again.
ConfigCurrent ==
  /\ ipc = "config"
  /\ IF report.persistent /\ report.active
     THEN FaultOr(Reported(IF on THEN live ELSE stored), Unread)
     ELSE UNCHANGED <<report, spent>>
  /\ Proceed("count")
  /\ UNCHANGED <<Rest, todo, entry, asked>>

Config ==
  /\ ipc = "config"
  /\ IF report.persistent /\ report.active
     THEN FaultOr(Reported(stored), Unread)
     ELSE UNCHANGED <<report, spent>>
  /\ Proceed("count")
  /\ UNCHANGED <<Rest, todo, entry, asked>>

\* Mutant: libvirt's -1 for an error is passed on.
CountMinusOne ==
  /\ ipc = "count"
  /\ FaultOr(report' = [report EXCEPT !.count = Cardinality(Made)],
             report' = [report EXCEPT !.count = 0 - 1])
  /\ Proceed("list")
  /\ UNCHANGED <<Rest, todo, entry, asked>>

\* A count that fails is reported as 0.
Count ==
  /\ ipc = "count"
  /\ FaultOr(report' = [report EXCEPT !.count = Cardinality(Made)], UNCHANGED report)
  /\ Proceed("list")
  /\ UNCHANGED <<Rest, todo, entry, asked>>

-----------------------------------------------------------------------------
(***************************************************************************)
(* listDomainSnapshots.                                                    *)
(***************************************************************************)

\* A list that fails is reported as empty.
List ==
  /\ ipc = "list"
  /\ FaultOr(todo' = Made, todo' = {})
  /\ Proceed("next")
  /\ UNCHANGED <<Rest, report, entry, asked>>

\* The name is part of the handle.
NextSnapshot ==
  /\ ipc = "next"
  /\ \/ /\ todo = {}
        /\ Proceed("ok")
        /\ UNCHANGED <<todo, entry>>
     \/ \E n \in todo :
          /\ entry' = Blank(n)
          /\ todo' = todo \ {n}
          /\ Proceed("children")
  /\ asked' = 0
  /\ UNCHANGED <<Rest, spent, report>>

\* An error, also for a snapshot that is gone, is reported as 0 and not flagged.
CountChildren ==
  /\ ipc = "children"
  /\ IF entry.name \in Made
     THEN FaultOr(entry' = [entry EXCEPT !.children = Cardinality(Children(entry.name))],
                  UNCHANGED entry)
     ELSE UNCHANGED <<entry, spent>>
  /\ Proceed("roots")
  /\ UNCHANGED <<Rest, report, todo, asked>>

\* isSnapshotHasFlags: names are compared without regard to case.
HasFlag(flag) == \E n \in Listed(flag) : Fold[n] = Fold[entry.name]

\* Mutant: a root is asked for its parent, too.
RootsIgnored ==
  /\ ipc = "roots"
  /\ FaultOr(entry' = [entry EXCEPT !.root = HasFlag("ROOTS")],
             entry' = [entry EXCEPT !.error = TRUE])
  /\ Proceed("parent")
  /\ UNCHANGED <<Rest, report, todo, asked>>

\* The parent of a root is shown as "/", here NoSnapshot.
Roots ==
  /\ ipc = "roots"
  /\ FaultOr(/\ entry' = [entry EXCEPT !.root = HasFlag("ROOTS")]
             /\ Proceed(IF HasFlag("ROOTS") THEN "current" ELSE "parent"),
             /\ entry' = [entry EXCEPT !.error = TRUE]
             /\ Proceed("parent"))
  /\ UNCHANGED <<Rest, report, todo, asked>>

Flagged == entry' = [entry EXCEPT !.error = TRUE]

Parent ==
  /\ ipc = "parent"
  /\ IF entry.name \in Made /\ snaps[entry.name].parent # NoSnapshot
     THEN FaultOr(entry' = [entry EXCEPT !.parent = snaps[entry.name].parent], Flagged)
     ELSE Flagged /\ UNCHANGED spent
  /\ Proceed("current")
  /\ UNCHANGED <<Rest, report, todo, asked>>

Current ==
  /\ ipc = "current"
  /\ IF entry.name \in Made
     THEN FaultOr(entry' = [entry EXCEPT !.current = (entry.name = current)], Flagged)
     ELSE Flagged /\ UNCHANGED spent
  /\ Proceed("flags")
  /\ UNCHANGED <<Rest, report, todo, asked>>

\* Mutant: a list that fails is taken for one that does not name the snapshot.
FlagUnmarked ==
  /\ ipc = "flags"
  /\ asked < Len(Flags)
  /\ LET flag == Flags[asked + 1]
     IN  FaultOr(entry' = [entry EXCEPT !.flags = IF HasFlag(flag) THEN @ \union {flag} ELSE @],
                 UNCHANGED entry)
  /\ asked' = asked + 1
  /\ UNCHANGED <<Rest, ipc, report, todo>>

Flag ==
  /\ ipc = "flags"
  /\ asked < Len(Flags)
  /\ LET flag == Flags[asked + 1]
     IN  FaultOr(entry' = [entry EXCEPT !.flags = IF HasFlag(flag) THEN @ \union {flag} ELSE @],
                 Flagged)
  /\ asked' = asked + 1
  /\ UNCHANGED <<Rest, ipc, report, todo>>

Described ==
  /\ ipc = "flags"
  /\ asked = Len(Flags)
  /\ report' = [report EXCEPT !.entries = @ \union {entry}]
  /\ Proceed("next")
  /\ UNCHANGED <<Rest, spent, todo, entry, asked>>

-----------------------------------------------------------------------------
DescribeSnapshots == List \/ NextSnapshot \/ CountChildren \/ Roots \/ Parent \/ Current \/ Flag
                  \/ Described
Info == Stats \/ Active \/ Persistent \/ Now \/ Config \/ Count \/ DescribeSnapshots

\* The other handlers, and whoever starts, stops and configures the domain.
Reconfigure ==
  /\ \E v \in Value :
       /\ stored' = v
       /\ live' \in {v, IF on THEN live ELSE v}
  /\ UNCHANGED snapshotVars

Others ==
  \/ /\ SnapshotNext
     /\ live' = IF on /\ on' THEN live ELSE stored
     /\ UNCHANGED stored
  \/ Reconfigure

Noticed ==
  seen' = IF ipc = "idle" \/ UNCHANGED <<hostVars, configVars>> THEN seen
          ELSE IF \E n \in Made : snaps'[n] = NoSnapshot THEN "removal"
          ELSE IF seen = "nothing" THEN "change" ELSE seen

InfoNext ==
  \/ Info /\ UNCHANGED seen
  \/ /\ Others
     /\ Noticed
     /\ UNCHANGED infoVars

InfoSpec == InfoInit /\ [][InfoNext]_reportVars

-----------------------------------------------------------------------------
(***************************************************************************)
(* Properties.                                                             *)
(***************************************************************************)
TrueEntry(n) ==
  [name |-> n, children |-> Cardinality(Children(n)), root |-> snaps[n].parent = NoSnapshot,
   parent |-> snaps[n].parent, current |-> n = current,
   flags |-> {f \in {Flags[i] : i \in DOMAIN Flags} : n \in Listed(f)}, error |-> FALSE]

\* The entries of two names that differ in case only get mixed up.
HasTwin(n) == \E m \in Made \ {n} : Fold[m] = Fold[n]

(***************************************************************************)
(* If nothing changed while it was put together and no call failed, the    *)
(* report of Info is true: power state, the values in force and, of a      *)
(* running domain, the stored ones, the number of snapshots, and for each  *)
(* snapshot its children, parent and flags, unless another one's name      *)
(* differs from its own in case only.                                      *)
(***************************************************************************)
QuietReportIsTrue ==
  ipc = "ok" /\ seen = "nothing" /\ spent["fault"] = 0 /\ spent["misread"] = 0 =>
    /\ report.state = on /\ report.active = on
    /\ report.config = IF on THEN <<live, stored>> ELSE <<stored>>
    /\ report.count = Cardinality(Made)
    /\ {e.name : e \in report.entries} = Made
    /\ \A e \in report.entries : HasTwin(e.name) \/ e = TrueEntry(e.name)

(***************************************************************************)
(* Errors of single calls do not pass for facts: an entry that is not      *)
(* marked with Error is true if nothing changed meanwhile, but for its     *)
(* number of children, whose errors are not marked (snapshots.go:163).     *)
(***************************************************************************)
UnmarkedEntryIsTrue ==
  ipc = "ok" /\ seen = "nothing" =>
    \A e \in report.entries :
      \/ e.error \/ HasTwin(e.name)
      \/ [e EXCEPT !.children = 0] = [TrueEntry(e.name) EXCEPT !.children = 0]

(***************************************************************************)
(* An entry is marked with Error only if a call failed or a snapshot was   *)
(* removed while the list was put together: starts, stops, new snapshots,  *)
(* reverts and backups in between do not look like errors.                 *)
(***************************************************************************)
ErrorsAreExplained ==
  \A e \in report.entries : e.error => spent["fault"] > 0 \/ seen = "removal"
=============================================================================
