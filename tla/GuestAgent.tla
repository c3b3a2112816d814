----------------------------- MODULE GuestAgent -----------------------------
(***************************************************************************)
(* The requests that talk to the agent inside a guest: QemuAgentInfo,      *)
(* which puts getQemuAgentInfoResponse (info.go) together from queries and *)
(* from files it opens, reads and closes in the guest (agent.go), and      *)
(* SetPassword.                                                            *)
(*                                                                         *)
(* libvirt sends the agent one command at a time and gives up on it after  *)
(* some seconds.  A command given up is still in the channel: the agent    *)
(* executes it when it gets to it, before any that is sent later.          *)
(***************************************************************************)
EXTENDS Naturals, FiniteSets, Sequences, SequencesExt

CONSTANTS
  Req,      \* requests
  Nobody,   \* no request
  Budget    \* how often each adversity may strike

Op == {"QemuAgentInfo", "SetPassword"}
Adversity == {"fault", "misread", "timeout", "restart", "crash"}

\* In the order of getQemuAgentInfoResponse.
Queries == <<"ping", "version", "time", "fsinfo", "osinfo", "timezone", "hostname", "network">>
Files == <<"loadavg", "passwd", "uptime">>
Items == Queries \o Files
File == {"loadavg", "passwd", "uptime"}
Item == File \union {"ping", "version", "time", "fsinfo", "osinfo", "timezone", "hostname",
                     "network"}

ASSUME NobodyAssumption == Nobody \notin Req
ASSUME AgentBudgetAssumption == Budget \in [Adversity -> Nat]

VARIABLES
  on,        \* the domain runs
  long,      \* /etc/passwd is longer than what the agent returns at once
  open,      \* open[f]: the requests for which f is open in the guest
  password,  \* the requests that have set the password, Head(password) first
  pipe,      \* the commands the agent has still to execute
  turn,      \* the request whose command libvirt waits for
  pc,        \* the step request r takes next
  op,        \* what it is
  at,        \* the item it is at
  report,    \* what it has put together: nothing, whole answers, or a part of one
  spent,     \* spent[a]: how often adversity a has struck
  before,    \* history: the requests that had ended when r began
  leaked     \* history: <<r, f>>: r lost the answer to its opening or closing f

guestVars == <<on, long, open, password>>
agentVars == <<guestVars, pipe, turn, pc, op, at, report, spent, before, leaked>>

Ended == {"ok", "error", "lost"}
Talking == {"query", "open", "read", "close", "password"}
Command == [by : Req, what : Talking, item : Item]

TypeOK ==
  /\ on \in BOOLEAN /\ long \in BOOLEAN
  /\ open \in [File -> SUBSET Req]
  /\ password \in Seq(Req)
  /\ pipe \in Seq(Command)
  /\ turn \in Req \union {Nobody}
  /\ pc \in [Req -> {"idle", "power", "jobs"} \union Talking \union Ended]
  /\ op \in [Req -> Op \union {"none"}]
  /\ at \in [Req -> DOMAIN Items]
  /\ report \in [Req -> {"nothing", "part", "whole"}]
  /\ spent \in [Adversity -> Nat]
  /\ before \in [Req -> SUBSET Req]
  /\ leaked \subseteq Req \X File

Init ==
  /\ on \in BOOLEAN /\ long \in BOOLEAN
  /\ open = [f \in File |-> {}]
  /\ password = << >>
  /\ pipe = << >> /\ turn = Nobody
  /\ pc = [r \in Req |-> "idle"]
  /\ op = [r \in Req |-> "none"]
  /\ at = [r \in Req |-> 1]
  /\ report = [r \in Req |-> "nothing"]
  /\ spent = [a \in Adversity |-> 0]
  /\ before = [r \in Req |-> {}]
  /\ leaked = {}

Goto(r, label) == pc' = [pc EXCEPT ![r] = label]
Spend(a) == spent[a] < Budget[a] /\ spent' = [spent EXCEPT ![a] = @ + 1]

-----------------------------------------------------------------------------
(***************************************************************************)
(* Heads of the handlers.                                                  *)
(***************************************************************************)
Enter(r) ==
  /\ pc[r] = "idle"
  /\ \E o \in Op :
       /\ op' = [op EXCEPT ![r] = o]
       /\ Goto(r, IF o = "QemuAgentInfo" THEN "power" ELSE "jobs")
  /\ before' = [before EXCEPT ![r] = {q \in Req : pc[q] \in Ended}]
  /\ UNCHANGED <<guestVars, pipe, turn, at, report, spent, leaked>>

\* isDomainActive; SetPassword does not ask.
Power(r) ==
  /\ pc[r] = "power"
  /\ \/ Goto(r, IF on THEN "jobs" ELSE "error") /\ UNCHANGED spent
     \/ on /\ Goto(r, "error") /\ Spend("misread")
  /\ UNCHANGED <<guestVars, pipe, turn, op, at, report, before, leaked>>

\* The request is refused if a block job runs or cannot be asked for.
Jobs(r) ==
  /\ pc[r] = "jobs"
  /\ \/ Goto(r, IF op[r] = "SetPassword" THEN "password" ELSE "query") /\ UNCHANGED spent
     \/ Goto(r, "error") /\ Spend("fault")
  /\ UNCHANGED <<guestVars, pipe, turn, op, at, report, before, leaked>>

-----------------------------------------------------------------------------
(***************************************************************************)
(* getQemuAgentInfoResponse goes on with the next item, whatever became of *)
(* the last one.                                                           *)
(***************************************************************************)
NextItem(r) ==
  IF at[r] = Len(Items) THEN Goto(r, "ok") /\ UNCHANGED at
  ELSE /\ at' = [at EXCEPT ![r] = @ + 1]
       /\ Goto(r, IF at[r] < Len(Queries) THEN "query" ELSE "open")

Note(r, what) == report' = [report EXCEPT ![r] = IF @ = "part" THEN @ ELSE what]

\* Mutant: what was read is taken for the file.
AnsweredInPart(r, what) ==
  \/ pc[r] = "query" /\ Note(r, what) /\ NextItem(r)
  \/ pc[r] = "open" /\ Goto(r, "read") /\ UNCHANGED <<at, report>>
  \/ pc[r] = "read" /\ Note(r, what) /\ Goto(r, "close") /\ UNCHANGED at
  \/ pc[r] = "close" /\ NextItem(r) /\ UNCHANGED report
  \/ pc[r] = "password" /\ Goto(r, "ok") /\ UNCHANGED <<at, report>>

\* r gets an answer to its command; of a file, "part" is one without EOF.
Answered(r, what) ==
  \/ pc[r] = "query" /\ Note(r, what) /\ NextItem(r)
  \/ pc[r] = "open" /\ Goto(r, "read") /\ UNCHANGED <<at, report>>
  \/ /\ pc[r] = "read"
     /\ IF what = "whole" THEN Note(r, what) ELSE UNCHANGED report
     /\ Goto(r, "close") /\ UNCHANGED at
  \/ pc[r] = "close" /\ NextItem(r) /\ UNCHANGED report
  \/ pc[r] = "password" /\ Goto(r, "ok") /\ UNCHANGED <<at, report>>

NoPing(r) == pc[r] = "query" /\ Items[at[r]] = "ping"

\* Mutant: the file is closed only if it could be read.
FailedUnclosed(r) ==
  /\ \/ NoPing(r) /\ Goto(r, "ok") /\ UNCHANGED at
     \/ pc[r] \in {"query", "open", "read", "close"} /\ ~NoPing(r) /\ NextItem(r)
     \/ pc[r] = "password" /\ Goto(r, "error") /\ UNCHANGED at
  /\ UNCHANGED report

\* Its command fails.  Without an answer to the ping the rest is left out.
Failed(r) ==
  /\ \/ NoPing(r) /\ Goto(r, "ok") /\ UNCHANGED at
     \/ pc[r] \in {"query", "open", "close"} /\ ~NoPing(r) /\ NextItem(r)
     \/ pc[r] = "read" /\ Goto(r, "close") /\ UNCHANGED at
     \/ pc[r] = "password" /\ Goto(r, "error") /\ UNCHANGED at
  /\ UNCHANGED report

\* The answer to an opening or a closing is lost, or never was.
Leak(r) ==
  leaked' = IF pc[r] \in {"open", "close"} THEN leaked \union {<<r, Items[at[r]]>>} ELSE leaked

-----------------------------------------------------------------------------
(***************************************************************************)
(* libvirt and the agent.                                                  *)
(***************************************************************************)
Send(r) ==
  /\ pc[r] \in Talking
  /\ turn = Nobody
  /\ \/ /\ on
        /\ turn' = r
        /\ pipe' = Append(pipe, [by |-> r, what |-> pc[r], item |-> Items[at[r]]])
        /\ UNCHANGED <<pc, at, report>>
     \/ ~on /\ Failed(r) /\ UNCHANGED <<turn, pipe>>
  /\ UNCHANGED <<guestVars, op, spent, before, leaked>>

\* What a command does in the guest.
Effect(c) ==
  /\ open' = CASE c.what = "open" -> [open EXCEPT ![c.item] = @ \union {c.by}]
               [] c.what = "close" -> [open EXCEPT ![c.item] = @ \ {c.by}]
               [] OTHER -> open
  /\ password' = IF c.what = "password" THEN <<c.by>> \o password ELSE password

Result(c) == IF c.what = "read" /\ c.item = "passwd" /\ long THEN "part" ELSE "whole"

\* Only the command sent last may have somebody waiting for its answer.
Execute ==
  /\ pipe # << >>
  /\ pipe' = Tail(pipe)
  /\ LET c == Head(pipe) IN
       \/ /\ Effect(c)
          /\ IF turn # Nobody /\ Len(pipe) = 1
             THEN Answered(turn, Result(c)) /\ turn' = Nobody
             ELSE UNCHANGED <<turn, pc, at, report>>
          /\ UNCHANGED <<spent, leaked>>
       \/ /\ turn # Nobody /\ Len(pipe) = 1
          /\ Spend("fault")
          /\ Failed(turn) /\ Leak(turn) /\ turn' = Nobody
          /\ UNCHANGED <<open, password>>
  /\ UNCHANGED <<on, long, op, before>>

\* If the agent does not even answer libvirt's greeting, the command is not sent.
Timeout ==
  /\ turn # Nobody
  /\ Spend("timeout")
  /\ pipe' \in {pipe, Front(pipe)}
  /\ Failed(turn) /\ Leak(turn) /\ turn' = Nobody
  /\ UNCHANGED <<guestVars, op, before>>

\* The agent ends, and with it the files it holds open.
AgentGone ==
  /\ pipe' = << >>
  /\ open' = [f \in File |-> {}]
  /\ IF turn # Nobody THEN Failed(turn) /\ turn' = Nobody
                      ELSE UNCHANGED <<turn, pc, at, report>>
  /\ UNCHANGED <<op, before, leaked>>

PowerOff == on /\ on' = FALSE /\ AgentGone /\ UNCHANGED <<long, password, spent>>
Restart == on /\ Spend("restart") /\ AgentGone /\ UNCHANGED <<on, long, password>>

PowerOn ==
  /\ ~on
  /\ on' = TRUE
  /\ UNCHANGED <<long, open, password, pipe, turn, pc, op, at, report, spent, before, leaked>>

\* The daemon is killed.
Crash ==
  /\ \E r \in Req : pc[r] \notin Ended \union {"idle"}
  /\ Spend("crash")
  /\ pc' = [r \in Req |-> IF pc[r] \in Ended \union {"idle"} THEN pc[r] ELSE "lost"]
  /\ turn' = Nobody
  /\ leaked' = leaked \union {r \in Req : pc[r] \in Talking} \X File
  /\ UNCHANGED <<guestVars, pipe, op, at, report, before>>

Next ==
  \/ \E r \in Req : Enter(r) \/ Power(r) \/ Jobs(r) \/ Send(r)
  \/ Execute
  \/ Timeout
  \/ PowerOff \/ PowerOn \/ Restart
  \/ Crash

Spec == Init /\ [][Next]_agentVars

-----------------------------------------------------------------------------
(***************************************************************************)
(* Properties.                                                             *)
(***************************************************************************)

(***************************************************************************)
(* A file a request has opened in the guest is closed again: as long as it *)
(* is open the request is still to read or close it, or the answer to its  *)
(* opening or closing it was lost, on the way or in a crash.  Failed reads *)
(* and files that are too long leave nothing open.                         *)
(***************************************************************************)
HandlesReturned ==
  \A f \in File : \A r \in open[f] :
    \/ pc[r] \in {"read", "close"} /\ Items[at[r]] = f
    \/ <<r, f>> \in leaked

(***************************************************************************)
(* What a request is told by the agent is so.  Of no file a part only is   *)
(* reported for all of it.  After SetPassword TRUE the password is set,    *)
(* and a SetPassword that had ended before this one began, given up or     *)
(* with its daemon dead, may come true at any time but not after it.       *)
(***************************************************************************)
AnswersAreTrue ==
  \A r \in Req : pc[r] = "ok" =>
    IF op[r] = "SetPassword"
    THEN \E i \in DOMAIN password :
           password[i] = r /\ \A j \in 1..i : password[j] \notin before[r]
    ELSE report[r] # "part"
=============================================================================
