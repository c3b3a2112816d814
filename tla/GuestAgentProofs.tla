-------------------------- MODULE GuestAgentProofs --------------------------
(***************************************************************************)
(* Safety of GuestAgent for any requests and budgets.                      *)
(***************************************************************************)
EXTENDS GuestAgent, SequenceTheorems, TLAPS

(***************************************************************************)
(* A request is at a query or at a file as its label says.                 *)
(***************************************************************************)
PlaceOK ==
  \A r \in Req :
    /\ pc[r] \in {"idle", "power", "jobs", "password"} => at[r] = 1
    /\ pc[r] = "query" => at[r] \in 1..8
    /\ pc[r] \in {"open", "read", "close"} => at[r] \in 9..11
    /\ pc[r] \in {"power", "query", "open", "read", "close"} => op[r] = "QemuAgentInfo"
    /\ pc[r] = "password" => op[r] = "SetPassword"
    /\ pc[r] = "jobs" => op[r] \in Op

(***************************************************************************)
(* The command libvirt waits for is the last one in the channel, and the   *)
(* one its request is at.                                                  *)
(***************************************************************************)
Sent(r) == [by |-> r, what |-> pc[r], item |-> Items[at[r]]]
TurnOK ==
  turn # Nobody =>
    pc[turn] \in Talking /\ pipe # << >> /\ pipe[Len(pipe)] = Sent(turn)

(***************************************************************************)
(* Nothing is open in a guest that is off, and nobody waits for it.        *)
(***************************************************************************)
OffOK == ~on => turn = Nobody /\ pipe = << >> /\ \A f \in File : open[f] = {}

(***************************************************************************)
(* Of an opening that is still in the channel the answer is awaited, or it *)
(* counts as lost.                                                         *)
(***************************************************************************)
PendingOK ==
  \A k \in DOMAIN pipe :
    pipe[k].what = "open" =>
      \/ <<pipe[k].by, pipe[k].item>> \in leaked
      \/ k = Len(pipe) /\ turn = pipe[k].by

WholeOK == \A r \in Req : report[r] # "part"

(***************************************************************************)
(* Who has ended sends nothing, so a SetPassword answered TRUE has nothing *)
(* in the channel behind it from those that had ended before it.           *)
(***************************************************************************)
BeforeOK ==
  \A r \in Req : r \notin before[r] /\ \A q \in before[r] : pc[q] \in Ended

PasswordOK ==
  \A r \in Req : pc[r] = "ok" /\ op[r] = "SetPassword" =>
    /\ \E i \in DOMAIN password :
         password[i] = r /\ \A j \in 1..i : password[j] \notin before[r]
    /\ \A k \in DOMAIN pipe : pipe[k].by \notin before[r]

IInv == /\ TypeOK /\ PlaceOK /\ TurnOK /\ OffOK /\ PendingOK /\ HandlesReturned
        /\ WholeOK /\ BeforeOK /\ PasswordOK

-----------------------------------------------------------------------------
(***************************************************************************)
(* Items, labels and adversities.                                          *)
(***************************************************************************)
LEMMA ItemFacts ==
  /\ Len(Queries) = 8 /\ Len(Items) = 11 /\ DOMAIN Items = 1..11
  /\ \A i \in 1..11 : Items[i] \in Item
  /\ \A i \in 9..11 : Items[i] \in File
  /\ Items[1] = "ping" /\ \A i \in 2..11 : Items[i] # "ping"
<1>1. Queries \in Seq(Item) /\ Files \in Seq(Item) /\ Len(Queries) = 8 /\ Len(Files) = 3
  BY DEF Queries, Files, Item, File
<1>2. /\ Len(Items) = 11 /\ DOMAIN Items = 1..11
      /\ \A i \in 1..11 : Items[i] = IF i <= 8 THEN Queries[i] ELSE Files[i - 8]
  <2>1. /\ Queries \o Files \in Seq(Item)
        /\ Len(Queries \o Files) = Len(Queries) + Len(Files)
        /\ \A i \in 1..Len(Queries) + Len(Files) :
             (Queries \o Files)[i] = IF i <= Len(Queries) THEN Queries[i] ELSE Files[i - Len(Queries)]
    BY <1>1, ConcatProperties
  <2>2. Len(Queries) + Len(Files) = 11
    BY <1>1
  <2>3. DOMAIN Items = 1..Len(Items)
    BY <2>1, LenProperties DEF Items
  <2> QED BY <1>1, <2>1, <2>2, <2>3 DEF Items
<1>3. /\ \A i \in 1..8 : Queries[i] \in Item
      /\ Queries[1] = "ping" /\ \A i \in 2..8 : Queries[i] # "ping"
  BY DEF Queries, Item
<1>4. \A i \in 1..3 : Files[i] \in File
  BY DEF Files, File
<1>5. File \subseteq Item /\ "ping" \notin File
  BY DEF Item, File
<1>6. ASSUME NEW i \in 9..11
      PROVE  Items[i] \in File
  <2>1. i - 8 \in 1..3 /\ Items[i] = Files[i - 8]
    BY <1>2
  <2> QED BY <1>4, <2>1
<1>7. ASSUME NEW i \in 1..8
      PROVE  Items[i] = Queries[i]
  BY <1>2
<1>8. \A i \in 1..11 : i \in 1..8 \/ i \in 9..11
  OBVIOUS
<1>9. \A i \in 2..11 : (i \in 2..8 /\ i \in 1..8) \/ i \in 9..11
  OBVIOUS
<1>10. \A i \in 1..11 : Items[i] \in Item
  BY <1>3, <1>5, <1>6, <1>7, <1>8
<1>11. Items[1] = "ping"
  BY <1>3, <1>7
<1>12. \A i \in 2..11 : Items[i] # "ping"
  BY <1>3, <1>5, <1>6, <1>7, <1>9
<1> QED BY <1>1, <1>2, <1>6, <1>10, <1>11, <1>12

Label == {"idle", "power", "jobs"} \union Talking \union Ended

LEMMA SpendTyped ==
  ASSUME TypeOK, NEW a \in Adversity, Spend(a)
  PROVE  spent' \in [Adversity -> Nat]
<1>1. spent[a] + 1 \in Nat
  BY DEF TypeOK
<1> QED BY <1>1 DEF TypeOK, Spend

(***************************************************************************)
(* Where an answer or an error leads request r.                            *)
(***************************************************************************)
Moved(r) ==
  /\ pc' \in [Req -> Label] /\ at' \in [Req -> DOMAIN Items]
  /\ \A x \in Req \ {r} : pc'[x] = pc[x] /\ at'[x] = at[x]
  /\ pc'[r] \in {"ok", "error", "query", "open", "read", "close"}
  /\ pc'[r] = "query" => at'[r] \in 1..8
  /\ pc'[r] \in {"open", "read", "close"} => at'[r] \in 9..11
  /\ pc'[r] # "error" => op[r] = "QemuAgentInfo" \/ (pc[r] = "password" /\ pc'[r] = "ok")
  /\ pc[r] = "read" => pc'[r] = "close" /\ at'[r] = at[r]

\* Label and item that request r may go on to.
Reaches(r, label, n) ==
  /\ label \in {"ok", "error", "query", "open", "read", "close"} /\ n \in DOMAIN Items
  /\ label = "query" => n \in 1..8
  /\ label \in {"open", "read", "close"} => n \in 9..11
  /\ label # "error" => op[r] = "QemuAgentInfo" \/ (pc[r] = "password" /\ label = "ok")
  /\ pc[r] = "read" => label = "close" /\ n = at[r]

LEMMA GotoMoves ==
  ASSUME TypeOK, NEW r \in Req, NEW label, NEW n,
         Reaches(r, label, n), Goto(r, label), at' = [at EXCEPT ![r] = n]
  PROVE  Moved(r) /\ pc'[r] = label /\ at'[r] = n
<1>1. pc \in [Req -> Label] /\ label \in Label
  BY DEF TypeOK, Label, Talking, Ended, Reaches
<1>2. at \in [Req -> DOMAIN Items] /\ n \in DOMAIN Items
  BY DEF TypeOK, Reaches
<1>3. /\ pc' \in [Req -> Label] /\ pc'[r] = label
      /\ \A x \in Req \ {r} : pc'[x] = pc[x]
  BY <1>1 DEF Goto
<1>4. /\ at' \in [Req -> DOMAIN Items] /\ at'[r] = n
      /\ \A x \in Req \ {r} : at'[x] = at[x]
  BY <1>2
<1> QED BY <1>3, <1>4 DEF Moved, Reaches

LEMMA StayMoves ==
  ASSUME TypeOK, NEW r \in Req, NEW label,
         Reaches(r, label, at[r]), Goto(r, label), UNCHANGED at
  PROVE  Moved(r) /\ pc'[r] = label /\ at'[r] = at[r]
<1>1. at' = [at EXCEPT ![r] = at[r]]
  BY DEF TypeOK
<1> QED BY <1>1, GotoMoves

LEMMA NextItemMoves ==
  ASSUME TypeOK, PlaceOK, NEW r \in Req, pc[r] \in {"query", "open", "close"}, NextItem(r)
  PROVE  Moved(r)
<1>1. at[r] \in 1..11 /\ op[r] = "QemuAgentInfo"
  BY ItemFacts DEF TypeOK, PlaceOK
<1>2. CASE at[r] = 11
  <2>1. Reaches(r, "ok", at[r])
    BY <1>1, ItemFacts DEF Reaches
  <2> QED BY <1>2, <2>1, ItemFacts, StayMoves DEF NextItem
<1>3. CASE at[r] # 11
  <2>1. at[r] + 1 \in 1..11 /\ at' = [at EXCEPT ![r] = @ + 1]
    BY <1>1, <1>3, ItemFacts DEF NextItem
  <2>2. CASE at[r] < 8
    <3>1. at[r] + 1 \in 1..8 /\ Goto(r, "query")
      BY <1>1, <1>3, <2>1, <2>2, ItemFacts DEF NextItem, TypeOK
    <3>2. Reaches(r, "query", at[r] + 1)
      BY <1>1, <2>1, <3>1, ItemFacts DEF Reaches
    <3>3. at' = [at EXCEPT ![r] = at[r] + 1]
      BY <2>1
    <3> QED BY <3>1, <3>2, <3>3, GotoMoves
  <2>3. CASE ~(at[r] < 8)
    <3>1. at[r] + 1 \in 9..11 /\ Goto(r, "open")
      BY <1>1, <1>3, <2>1, <2>3, ItemFacts DEF NextItem, TypeOK
    <3>2. Reaches(r, "open", at[r] + 1)
      BY <1>1, <2>1, <3>1, ItemFacts DEF Reaches
    <3>3. at' = [at EXCEPT ![r] = at[r] + 1]
      BY <2>1
    <3> QED BY <3>1, <3>2, <3>3, GotoMoves
  <2> QED BY <2>2, <2>3
<1> QED BY <1>2, <1>3

LEMMA FailureMoves ==
  ASSUME TypeOK, PlaceOK, NEW r \in Req, Failed(r)
  PROVE  /\ Moved(r) /\ report' = report /\ pc[r] \in Talking
         /\ pc[r] = "password" => pc'[r] = "error"
<1>0. at[r] \in DOMAIN Items
  BY DEF TypeOK
<1>1. pc[r] \in Talking /\ report' = report
  BY DEF Failed, NoPing, Talking
<1>2. CASE NoPing(r) /\ Goto(r, "ok") /\ UNCHANGED at
  <2>1. Reaches(r, "ok", at[r])
    BY <1>0, <1>2 DEF Reaches, NoPing, PlaceOK
  <2> QED BY <1>1, <1>2, <2>1, StayMoves DEF NoPing
<1>3. CASE pc[r] \in {"query", "open", "close"} /\ NextItem(r)
  BY <1>1, <1>3, NextItemMoves
<1>4. CASE pc[r] = "read" /\ Goto(r, "close") /\ UNCHANGED at
  <2>1. Reaches(r, "close", at[r])
    BY <1>0, <1>4 DEF Reaches, PlaceOK
  <2> QED BY <1>1, <1>4, <2>1, StayMoves
<1>5. CASE pc[r] = "password" /\ Goto(r, "error") /\ UNCHANGED at
  <2>1. Reaches(r, "error", at[r])
    BY <1>0, <1>5 DEF Reaches
  <2> QED BY <1>1, <1>5, <2>1, StayMoves
<1> QED BY <1>1, <1>2, <1>3, <1>4, <1>5 DEF Failed

LEMMA AnswerMoves ==
  ASSUME TypeOK, PlaceOK, NEW r \in Req, NEW what \in {"part", "whole"}, Answered(r, what),
         what = "part" => pc[r] = "read"
  PROVE  /\ Moved(r) /\ pc[r] \in Talking
         /\ report' = report \/ report' = [report EXCEPT ![r] = IF @ = "part" THEN @ ELSE "whole"]
         /\ pc[r] = "open" => pc'[r] = "read" /\ at'[r] = at[r]
         /\ pc[r] = "password" => pc'[r] = "ok"
<1>0. at[r] \in DOMAIN Items
  BY DEF TypeOK
<1>1. CASE pc[r] = "query" /\ Note(r, what) /\ NextItem(r)
  BY <1>1, NextItemMoves DEF Note, Talking
<1>2. CASE pc[r] = "open" /\ Goto(r, "read") /\ UNCHANGED <<at, report>>
  <2>1. Reaches(r, "read", at[r])
    BY <1>0, <1>2 DEF Reaches, PlaceOK
  <2>2. Moved(r) /\ pc'[r] = "read" /\ at'[r] = at[r]
    BY <1>2, <2>1, StayMoves
  <2> QED BY <1>2, <2>2 DEF Talking
<1>3. CASE /\ pc[r] = "read"
           /\ IF what = "whole" THEN Note(r, what) ELSE UNCHANGED report
           /\ Goto(r, "close") /\ UNCHANGED at
  <2>1. Reaches(r, "close", at[r])
    BY <1>0, <1>3 DEF Reaches, PlaceOK
  <2>2. Moved(r)
    BY <1>3, <2>1, StayMoves
  <2> QED BY <1>3, <2>2 DEF Talking, Note
<1>4. CASE pc[r] = "close" /\ NextItem(r) /\ UNCHANGED report
  BY <1>4, NextItemMoves DEF Talking
<1>5. CASE pc[r] = "password" /\ Goto(r, "ok") /\ UNCHANGED <<at, report>>
  <2>1. Reaches(r, "ok", at[r])
    BY <1>0, <1>5 DEF Reaches
  <2>2. Moved(r) /\ pc'[r] = "ok"
    BY <1>5, <2>1, StayMoves
  <2> QED BY <1>5, <2>2 DEF Talking
<1> QED BY <1>1, <1>2, <1>3, <1>4, <1>5 DEF Answered

(***************************************************************************)
(* Nothing else disturbs the places.                                       *)
(***************************************************************************)
LEMMA MovedPlace ==
  ASSUME PlaceOK, NEW r \in Req, Moved(r), op' = op
  PROVE  PlaceOK'
BY DEF PlaceOK, Moved

-----------------------------------------------------------------------------
(***************************************************************************)
(* The channel.                                                            *)
(***************************************************************************)
LEMMA PipeFacts ==
  ASSUME TypeOK
  PROVE  /\ Len(pipe) \in Nat /\ DOMAIN pipe = 1..Len(pipe)
         /\ \A k \in DOMAIN pipe : pipe[k] \in Command
         /\ pipe # << >> => /\ Len(pipe) \in Nat \ {0}
                            /\ Head(pipe) = pipe[1] /\ Head(pipe) \in Command
                            /\ Tail(pipe) \in Seq(Command) /\ Len(Tail(pipe)) = Len(pipe) - 1
                            /\ \A k \in 1..Len(pipe) - 1 : Tail(pipe)[k] = pipe[k + 1]
                            /\ Front(pipe) \in Seq(Command) /\ Len(Front(pipe)) = Len(pipe) - 1
                            /\ \A k \in 1..Len(pipe) - 1 : Front(pipe)[k] = pipe[k]
<1>1. pipe \in Seq(Command)
  BY DEF TypeOK
<1>2. Len(pipe) \in Nat /\ DOMAIN pipe = 1..Len(pipe) /\ \A k \in DOMAIN pipe : pipe[k] \in Command
  BY <1>1, LenProperties, ElementOfSeq
<1>3. ASSUME pipe # << >>
      PROVE  /\ Len(pipe) \in Nat \ {0}
             /\ Head(pipe) = pipe[1] /\ Head(pipe) \in Command
             /\ Tail(pipe) \in Seq(Command) /\ Len(Tail(pipe)) = Len(pipe) - 1
             /\ \A k \in 1..Len(pipe) - 1 : Tail(pipe)[k] = pipe[k + 1]
  <2>1. Len(pipe) \in Nat \ {0}
    BY <1>1, <1>2, <1>3, EmptySeq
  <2> QED BY <1>1, <1>3, <2>1, HeadTailProperties
<1>4. ASSUME pipe # << >>
      PROVE  /\ Front(pipe) \in Seq(Command) /\ Len(Front(pipe)) = Len(pipe) - 1
             /\ \A k \in 1..Len(pipe) - 1 : Front(pipe)[k] = pipe[k]
  BY <1>1, <1>2, <1>3, <1>4 DEF Front
<1> QED BY <1>2, <1>3, <1>4

LEMMA NotEmpty ==
  ASSUME NEW s, Len(s) \in Nat \ {0}
  PROVE  s # << >>
<1>1. Len(<< >>) = 0
  OBVIOUS
<1> QED BY <1>1

LEMMA EffectTyped ==
  ASSUME TypeOK, NEW c \in Command, Effect(c)
  PROVE  open' \in [File -> SUBSET Req] /\ password' \in Seq(Req)
<1>1. c.by \in Req
  BY DEF Command
<1>2. open' \in [File -> SUBSET Req]
  <2>1. CASE c.what = "open"
    BY <1>1, <2>1 DEF Effect, TypeOK
  <2>2. CASE c.what = "close"
    BY <1>1, <2>2 DEF Effect, TypeOK
  <2>3. CASE c.what \notin {"open", "close"}
    BY <2>3 DEF Effect, TypeOK
  <2> QED BY <2>1, <2>2, <2>3
<1>3. password' \in Seq(Req)
  <2>1. <<c.by>> \in Seq(Req) /\ password \in Seq(Req)
    BY <1>1 DEF TypeOK
  <2> QED BY <2>1, ConcatProperties DEF Effect
<1> QED BY <1>2, <1>3

(***************************************************************************)
(* The agent executes a command, with or without somebody who waits for    *)
(* its answer, or fails to.                                                *)
(***************************************************************************)
Served(r) ==
  /\ r \in Req /\ turn = r /\ Head(pipe) = Sent(r) /\ Len(pipe) = 1
  /\ Effect(Sent(r)) /\ Answered(r, Result(Sent(r))) /\ UNCHANGED <<spent, leaked>>
Unserved ==
  /\ turn = Nobody \/ Len(pipe) # 1
  /\ Effect(Head(pipe)) /\ UNCHANGED <<turn, pc, at, report, spent, leaked>>
Denied(r) ==
  /\ r \in Req /\ turn = r /\ Head(pipe) = Sent(r) /\ Len(pipe) = 1
  /\ Spend("fault") /\ Failed(r) /\ Leak(r) /\ UNCHANGED <<open, password>>

LEMMA ExecuteCases ==
  ASSUME TypeOK, TurnOK, Execute
  PROVE  /\ pipe # << >> /\ pipe' = Tail(pipe) /\ Head(pipe) \in Command
         /\ UNCHANGED <<on, long, op, before>>
         /\ \/ Served(turn) /\ turn' = Nobody
            \/ Unserved
            \/ Denied(turn) /\ turn' = Nobody
<1>1. pipe # << >> /\ Head(pipe) \in Command /\ Head(pipe) = pipe[1]
  BY PipeFacts DEF Execute
<1>2. turn # Nobody => turn \in Req
  BY DEF TypeOK
<1>3. turn # Nobody /\ Len(pipe) = 1 => Head(pipe) = Sent(turn)
  BY <1>1 DEF TurnOK
<1> QED BY <1>1, <1>2, <1>3 DEF Execute, Served, Unserved, Denied

LEMMA ServedMoves ==
  ASSUME TypeOK, PlaceOK, NEW r \in Req, Served(r)
  PROVE  /\ Moved(r) /\ pc[r] \in Talking
         /\ report' = report \/ report' = [report EXCEPT ![r] = IF @ = "part" THEN @ ELSE "whole"]
         /\ pc[r] = "open" => pc'[r] = "read" /\ at'[r] = at[r]
         /\ pc[r] = "password" => pc'[r] = "ok"
<1>1. Result(Sent(r)) \in {"part", "whole"} /\ (Result(Sent(r)) = "part" => pc[r] = "read")
  BY DEF Result, Sent
<1> QED BY <1>1, AnswerMoves DEF Served

LEMMA LeakTyped ==
  ASSUME TypeOK, PlaceOK, NEW r \in Req, Leak(r)
  PROVE  leaked' \subseteq Req \X File /\ leaked \subseteq leaked'
<1>1. pc[r] \in {"open", "close"} => <<r, Items[at[r]]>> \in Req \X File
  BY ItemFacts DEF PlaceOK
<1> QED BY <1>1 DEF Leak, TypeOK

-----------------------------------------------------------------------------
LEMMA Actions ==
  ASSUME Next
  PROVE  \/ \E r \in Req : Enter(r) \/ Power(r) \/ Jobs(r) \/ Send(r)
         \/ Execute \/ Timeout \/ PowerOff \/ PowerOn \/ Restart \/ Crash
BY DEF Next

(***************************************************************************)
(* What is left of a request when the agent is gone.                       *)
(***************************************************************************)
LEMMA GoneCases ==
  ASSUME TypeOK, PlaceOK, AgentGone
  PROVE  \/ UNCHANGED <<turn, pc, at, report>> /\ turn = Nobody
         \/ turn \in Req /\ Moved(turn) /\ pc[turn] \in Talking /\ report' = report /\ turn' = Nobody
<1>1. turn # Nobody => turn \in Req
  BY DEF TypeOK
<1> QED BY <1>1, FailureMoves DEF AgentGone

LEMMA PlaceStep ==
  ASSUME TypeOK, PlaceOK, TurnOK, [Next]_agentVars
  PROVE  PlaceOK'
<1>1. ASSUME NEW r \in Req, Enter(r)
      PROVE  PlaceOK'
  BY <1>1 DEF Enter, Goto, PlaceOK, TypeOK
<1>2. ASSUME NEW r \in Req, Power(r)
      PROVE  PlaceOK'
  BY <1>2 DEF Power, Goto, PlaceOK, TypeOK
<1>3. ASSUME NEW r \in Req, Jobs(r)
      PROVE  PlaceOK'
  BY <1>3 DEF Jobs, Goto, PlaceOK, TypeOK, Op
<1>4. CASE UNCHANGED <<pc, at, op>>
  BY <1>4 DEF PlaceOK
<1>5. ASSUME NEW r \in Req, Send(r)
      PROVE  PlaceOK'
  BY <1>4, <1>5, FailureMoves, MovedPlace DEF Send
<1>6. CASE Execute
  <2>1. CASE Served(turn)
    BY <1>6, <2>1, ExecuteCases, ServedMoves, MovedPlace DEF Served
  <2>2. CASE Denied(turn)
    BY <1>6, <2>2, ExecuteCases, FailureMoves, MovedPlace DEF Denied
  <2> QED BY <1>4, <1>6, <2>1, <2>2, ExecuteCases DEF Unserved
<1>7. CASE Timeout
  <2>1. turn \in Req /\ Failed(turn) /\ op' = op
    BY <1>7 DEF Timeout, TypeOK
  <2> QED BY <2>1, FailureMoves, MovedPlace
<1>8. CASE PowerOff \/ Restart
  <2>1. AgentGone /\ op' = op
    BY <1>8 DEF PowerOff, Restart, AgentGone
  <2> QED BY <1>4, <2>1, GoneCases, MovedPlace
<1>9. CASE PowerOn \/ UNCHANGED agentVars
  BY <1>4, <1>9 DEF PowerOn, agentVars
<1>10. CASE Crash
  BY <1>10 DEF Crash, PlaceOK, TypeOK, Ended
<1> QED BY <1>1, <1>2, <1>3, <1>5, <1>6, <1>7, <1>8, <1>9, <1>10, Actions

LEMMA TypeStep ==
  ASSUME TypeOK, PlaceOK, TurnOK, BeforeOK, [Next]_agentVars
  PROVE  TypeOK'
<1> USE DEF guestVars
<1>0. TypeOK <=> /\ on \in BOOLEAN /\ long \in BOOLEAN
                 /\ open \in [File -> SUBSET Req]
                 /\ password \in Seq(Req)
                 /\ pipe \in Seq(Command)
                 /\ turn \in Req \union {Nobody}
                 /\ pc \in [Req -> Label]
                 /\ op \in [Req -> Op \union {"none"}]
                 /\ at \in [Req -> DOMAIN Items]
                 /\ report \in [Req -> {"nothing", "part", "whole"}]
                 /\ spent \in [Adversity -> Nat]
                 /\ before \in [Req -> SUBSET Req]
                 /\ leaked \subseteq Req \X File
  BY DEF TypeOK, Label
<1>1. ASSUME NEW r \in Req, Enter(r)
      PROVE  TypeOK'
  BY <1>1 DEF Enter, Goto, TypeOK
<1>2. ASSUME NEW r \in Req, Power(r) \/ Jobs(r)
      PROVE  TypeOK'
  <2>1. spent' \in [Adversity -> Nat]
    BY <1>2, SpendTyped DEF Power, Jobs, Adversity, TypeOK
  <2> QED BY <1>2, <2>1 DEF Power, Jobs, Goto, TypeOK, Talking, Ended
<1>3. ASSUME NEW r \in Req, Send(r)
      PROVE  TypeOK'
  <2>1. CASE on
    <3>1. Items[at[r]] \in Item
      BY ItemFacts DEF TypeOK
    <3>2. Sent(r) \in Command
      BY <1>3, <3>1 DEF Send, Sent, Command
    <3>3. pipe' = Append(pipe, Sent(r))
      BY <1>3, <2>1 DEF Send, Sent
    <3>4. pipe' \in Seq(Command)
      BY <3>2, <3>3, AppendProperties DEF TypeOK
    <3> QED BY <1>3, <2>1, <3>4 DEF Send, TypeOK
  <2>2. CASE ~on
    BY <1>3, <2>2, FailureMoves DEF Send, Moved, TypeOK, Label
  <2> QED BY <2>1, <2>2
<1>4. CASE Execute
  <2>1. /\ pipe' \in Seq(Command) /\ Head(pipe) \in Command
        /\ UNCHANGED <<on, long, op, before>>
    BY <1>4, ExecuteCases, PipeFacts
  <2>2. CASE Served(turn) /\ turn' = Nobody
    <3>1. open' \in [File -> SUBSET Req] /\ password' \in Seq(Req)
      BY <2>1, <2>2, EffectTyped DEF Served
    <3>2. Moved(turn)
          /\ (report' = report \/ report' = [report EXCEPT ![turn] = IF @ = "part" THEN @ ELSE "whole"])
      BY <2>2, ServedMoves DEF Served
    <3>3. report' \in [Req -> {"nothing", "part", "whole"}]
      BY <3>2 DEF TypeOK
    <3> QED BY <1>0, <2>1, <2>2, <3>1, <3>2, <3>3 DEF Served, Moved, TypeOK, Label
  <2>3. CASE Unserved
    <3>1. open' \in [File -> SUBSET Req] /\ password' \in Seq(Req)
      BY <2>1, <2>3, EffectTyped DEF Unserved
    <3> QED BY <2>1, <2>3, <3>1 DEF Unserved, TypeOK
  <2>4. CASE Denied(turn) /\ turn' = Nobody
    <3>1. Moved(turn) /\ report' = report /\ leaked' \subseteq Req \X File
      BY <2>4, FailureMoves, LeakTyped DEF Denied
    <3>2. spent' \in [Adversity -> Nat]
      BY <2>4, SpendTyped DEF Denied, Adversity
    <3> QED BY <2>1, <2>4, <3>1, <3>2 DEF Denied, Moved, TypeOK, Label
  <2> QED BY <1>4, <2>2, <2>3, <2>4, ExecuteCases
<1>5. CASE Timeout
  <2>1. turn \in Req /\ Failed(turn) /\ Leak(turn)
    BY <1>5 DEF Timeout, TypeOK
  <2>2. Moved(turn) /\ report' = report /\ leaked' \subseteq Req \X File
    BY <2>1, FailureMoves, LeakTyped
  <2>3. spent' \in [Adversity -> Nat]
    BY <1>5, SpendTyped DEF Timeout, Adversity
  <2>4. pipe' \in Seq(Command)
    BY <1>5, PipeFacts DEF Timeout, TurnOK, TypeOK
  <2> QED BY <1>5, <2>2, <2>3, <2>4 DEF Timeout, Moved, TypeOK, Label
<1>6. CASE PowerOff \/ Restart
  <2>1. AgentGone /\ UNCHANGED <<long, password>> /\ on' \in BOOLEAN
    BY <1>6 DEF PowerOff, Restart, TypeOK
  <2>2. spent' \in [Adversity -> Nat]
    BY <1>6, SpendTyped DEF PowerOff, Restart, Adversity, TypeOK
  <2>3. /\ turn' \in Req \union {Nobody} /\ pc' \in [Req -> Label] /\ at' \in [Req -> DOMAIN Items]
        /\ report' = report
    BY <1>0, <2>1, GoneCases DEF Moved
  <2>4. /\ pipe' = << >> /\ open' = [f \in File |-> {}] /\ UNCHANGED <<op, before, leaked>>
    BY <2>1 DEF AgentGone
  <2> QED BY <2>1, <2>2, <2>3, <2>4, EmptySeq DEF TypeOK, Label
<1>7. CASE PowerOn
  BY <1>7 DEF PowerOn, TypeOK
<1>8. CASE UNCHANGED agentVars
  BY <1>8 DEF agentVars, TypeOK
<1>9. CASE Crash
  <2>1. spent' \in [Adversity -> Nat]
    BY <1>9, SpendTyped DEF Crash, Adversity
  <2>2. {r \in Req : pc[r] \in Talking} \X File \subseteq Req \X File
    OBVIOUS
  <2> QED BY <1>9, <2>1, <2>2 DEF Crash, TypeOK, Ended
<1> QED BY <1>1, <1>2, <1>3, <1>4, <1>5, <1>6, <1>7, <1>8, <1>9, Actions

LEMMA SendCases ==
  ASSUME TypeOK, NEW r \in Req, Send(r)
  PROVE  /\ turn = Nobody /\ pc[r] \in Talking
         /\ UNCHANGED <<guestVars, op, spent, before, leaked>>
         /\ \/ /\ on /\ turn' = r /\ UNCHANGED <<pc, at, report>>
               /\ pipe' \in Seq(Command) /\ Len(pipe') = Len(pipe) + 1
               /\ pipe'[Len(pipe) + 1] = Sent(r)
               /\ \A k \in 1..Len(pipe) : pipe'[k] = pipe[k]
            \/ ~on /\ Failed(r) /\ UNCHANGED <<turn, pipe>>
<1>1. CASE on
  <2>1. Items[at[r]] \in Item
    BY ItemFacts DEF TypeOK
  <2>2. Sent(r) \in Command
    BY <2>1 DEF Send, Sent, Command
  <2>3. pipe' = Append(pipe, Sent(r))
    BY <1>1 DEF Send, Sent
  <2>4. /\ pipe' \in Seq(Command) /\ Len(pipe') = Len(pipe) + 1
        /\ pipe'[Len(pipe) + 1] = Sent(r)
        /\ \A k \in 1..Len(pipe) : pipe'[k] = pipe[k]
    BY <2>2, <2>3, AppendProperties DEF TypeOK
  <2> QED BY <1>1, <2>4 DEF Send
<1>2. CASE ~on
  BY <1>2 DEF Send
<1> QED BY <1>1, <1>2

LEMMA TurnStep ==
  ASSUME TypeOK, PlaceOK, TurnOK, [Next]_agentVars
  PROVE  TurnOK'
<1>1. ASSUME NEW r \in Req, Enter(r) \/ Power(r) \/ Jobs(r)
      PROVE  TurnOK'
  <2>1. turn' = turn /\ pipe' = pipe /\ at' = at /\ pc[r] \notin Talking
    BY <1>1 DEF Enter, Power, Jobs, Talking
  <2>2. turn # Nobody => pc'[turn] = pc[turn]
    BY <1>1, <2>1 DEF Enter, Power, Jobs, Goto, TypeOK, TurnOK
  <2> QED BY <2>1, <2>2 DEF TurnOK, Sent
<1>2. ASSUME NEW r \in Req, Send(r)
      PROVE  TurnOK'
  <2>1. CASE on
    <3>1. /\ turn' = r /\ pc' = pc /\ at' = at /\ pc[r] \in Talking
          /\ Len(pipe') = Len(pipe) + 1 /\ pipe'[Len(pipe) + 1] = Sent(r)
      BY <1>2, <2>1, SendCases
    <3>2. pipe' # << >>
      <4>1. Len(pipe) \in Nat
        BY PipeFacts
      <4>2. Len(pipe') \in Nat \ {0}
        BY <3>1, <4>1
      <4> QED BY <4>2, NotEmpty
    <3> QED BY <3>1, <3>2 DEF TurnOK, Sent
  <2>2. CASE ~on
    BY <1>2, <2>2, SendCases DEF TurnOK
  <2> QED BY <2>1, <2>2
<1>3. CASE Execute
  <2>1. CASE turn' = Nobody
    BY <2>1 DEF TurnOK
  <2>2. CASE Unserved
    <3>1. turn' = turn /\ pc' = pc /\ at' = at
      BY <2>2 DEF Unserved
    <3>2. ASSUME turn # Nobody
          PROVE  pipe' # << >> /\ pipe'[Len(pipe')] = pipe[Len(pipe)]
      <4>1. Len(pipe) \in Nat \ {0, 1} /\ pipe' = Tail(pipe)
        BY <1>3, <2>2, <3>2, ExecuteCases, PipeFacts DEF Unserved
      <4>2. Len(pipe') = Len(pipe) - 1 /\ pipe'[Len(pipe) - 1] = pipe[Len(pipe) - 1 + 1]
        BY <1>3, <4>1, ExecuteCases, PipeFacts
      <4>3. Len(pipe) - 1 + 1 = Len(pipe) /\ Len(pipe') \in Nat \ {0}
        BY <4>1, <4>2
      <4> QED BY <4>2, <4>3, NotEmpty
    <3> QED BY <3>1, <3>2 DEF TurnOK, Sent
  <2> QED BY <1>3, <2>1, <2>2, ExecuteCases
<1>4. CASE Timeout \/ Crash
  BY <1>4 DEF Timeout, Crash, TurnOK
<1>5. CASE PowerOff \/ Restart
  BY <1>5, GoneCases DEF PowerOff, Restart, TurnOK
<1>6. CASE PowerOn \/ UNCHANGED agentVars
  BY <1>6 DEF PowerOn, agentVars, TurnOK, Sent
<1> QED BY <1>1, <1>2, <1>3, <1>4, <1>5, <1>6, Actions

LEMMA OffStep ==
  ASSUME TypeOK, PlaceOK, TurnOK, OffOK, [Next]_agentVars
  PROVE  OffOK'
<1>1. ASSUME NEW r \in Req, Enter(r) \/ Power(r) \/ Jobs(r)
      PROVE  OffOK'
  BY <1>1 DEF Enter, Power, Jobs, guestVars, OffOK
<1>2. ASSUME NEW r \in Req, Send(r)
      PROVE  OffOK'
  BY <1>2, SendCases DEF guestVars, OffOK
<1>3. CASE Execute
  BY <1>3, ExecuteCases DEF OffOK
<1>4. CASE Timeout
  BY <1>4, ExecuteCases DEF Timeout, guestVars, OffOK
<1>5. CASE PowerOff \/ Restart
  <2>1. AgentGone
    BY <1>5 DEF PowerOff, Restart
  <2> QED BY <2>1, GoneCases DEF AgentGone, OffOK
<1>6. CASE PowerOn \/ UNCHANGED agentVars
  BY <1>6 DEF PowerOn, agentVars, guestVars, OffOK
<1>7. CASE Crash
  BY <1>7 DEF Crash, guestVars, OffOK
<1> QED BY <1>1, <1>2, <1>3, <1>4, <1>5, <1>6, <1>7, Actions

LEMMA WholeStep ==
  ASSUME TypeOK, PlaceOK, TurnOK, WholeOK, [Next]_agentVars
  PROVE  WholeOK'
<1>1. CASE report' = report
  BY <1>1 DEF WholeOK
<1>2. ASSUME NEW r \in Req, Enter(r) \/ Power(r) \/ Jobs(r)
      PROVE  report' = report
  BY <1>2 DEF Enter, Power, Jobs
<1>3. ASSUME NEW r \in Req, Send(r)
      PROVE  report' = report
  BY <1>3, SendCases, FailureMoves
<1>4. CASE Execute
  <2>1. CASE Served(turn)
    BY <2>1, ServedMoves DEF Served, WholeOK, TypeOK
  <2>2. CASE Denied(turn)
    BY <1>1, <2>2, FailureMoves DEF Denied
  <2> QED BY <1>1, <1>4, <2>1, <2>2, ExecuteCases DEF Unserved
<1>5. CASE Timeout
  <2>1. turn \in Req /\ Failed(turn)
    BY <1>5 DEF Timeout, TypeOK
  <2> QED BY <1>1, <2>1, FailureMoves
<1>6. CASE PowerOff \/ Restart
  <2>1. AgentGone
    BY <1>6 DEF PowerOff, Restart
  <2> QED BY <1>1, <2>1, GoneCases
<1>7. CASE PowerOn \/ Crash \/ UNCHANGED agentVars
  BY <1>1, <1>7 DEF PowerOn, Crash, agentVars
<1> QED BY <1>1, <1>2, <1>3, <1>4, <1>5, <1>6, <1>7, Actions

LEMMA PendingStep ==
  ASSUME TypeOK, PlaceOK, TurnOK, PendingOK, [Next]_agentVars
  PROVE  PendingOK'
<1>1. CASE UNCHANGED <<pipe, turn, leaked>>
  BY <1>1 DEF PendingOK
<1>2. ASSUME NEW r \in Req, Enter(r) \/ Power(r) \/ Jobs(r)
      PROVE  UNCHANGED <<pipe, turn, leaked>>
  BY <1>2 DEF Enter, Power, Jobs
<1>3. ASSUME NEW r \in Req, Send(r)
      PROVE  PendingOK'
  <2>1. CASE on
    <3>1. /\ turn = Nobody /\ turn' = r /\ leaked' = leaked
          /\ pipe' \in Seq(Command) /\ Len(pipe') = Len(pipe) + 1
          /\ pipe'[Len(pipe) + 1] = Sent(r)
          /\ \A k \in 1..Len(pipe) : pipe'[k] = pipe[k]
      BY <1>3, <2>1, SendCases
    <3>2. ASSUME NEW k \in 1..Len(pipe), pipe'[k].what = "open"
          PROVE  <<pipe'[k].by, pipe'[k].item>> \in leaked'
      <4>1. pipe[k] \in Command /\ k \in DOMAIN pipe /\ pipe'[k] = pipe[k]
        BY <3>1, PipeFacts
      <4>2. pipe[k].by # Nobody
        BY <4>1, NobodyAssumption DEF Command
      <4> QED BY <3>1, <3>2, <4>1, <4>2 DEF PendingOK
    <3>3. DOMAIN pipe' = 1..(Len(pipe) + 1)
      BY <3>1, LenProperties
    <3>4. Len(pipe) \in Nat
      BY PipeFacts
    <3> QED BY <3>1, <3>2, <3>3, <3>4 DEF PendingOK, Sent
  <2>2. CASE ~on
    BY <1>1, <1>3, <2>2, SendCases
  <2> QED BY <2>1, <2>2
<1>4. CASE Execute
  <2>1. /\ pipe' \in Seq(Command) /\ Len(pipe') = Len(pipe) - 1 /\ Len(pipe) \in Nat \ {0}
        /\ \A k \in 1..Len(pipe) - 1 : pipe'[k] = pipe[k + 1]
        /\ DOMAIN pipe = 1..Len(pipe)
    BY <1>4, ExecuteCases, PipeFacts
  <2>2. DOMAIN pipe' = 1..(Len(pipe) - 1)
    BY <2>1, LenProperties
  <2>3. CASE Len(pipe) = 1
    BY <2>2, <2>3 DEF PendingOK
  <2>4. CASE Unserved
    <3>1. turn' = turn /\ leaked' = leaked
      BY <2>4 DEF Unserved
    <3>2. ASSUME NEW k \in DOMAIN pipe', pipe'[k].what = "open"
          PROVE  \/ <<pipe'[k].by, pipe'[k].item>> \in leaked'
                 \/ k = Len(pipe') /\ turn' = pipe'[k].by
      <4>1. k + 1 \in DOMAIN pipe /\ pipe'[k] = pipe[k + 1] /\ (k + 1 = Len(pipe) => k = Len(pipe'))
        BY <2>1, <2>2
      <4> QED BY <3>1, <3>2, <4>1 DEF PendingOK
    <3> QED BY <3>2 DEF PendingOK
  <2> QED BY <1>4, <2>3, <2>4, ExecuteCases DEF Served, Denied
<1>5. CASE Timeout
  <2>1. turn \in Req /\ Leak(turn) /\ pipe[Len(pipe)] = Sent(turn) /\ pipe # << >>
    BY <1>5 DEF Timeout, TypeOK, TurnOK
  <2>2. ASSUME NEW k \in DOMAIN pipe, pipe[k].what = "open"
        PROVE  <<pipe[k].by, pipe[k].item>> \in leaked'
    <3>1. CASE <<pipe[k].by, pipe[k].item>> \in leaked
      BY <2>1, <3>1 DEF Leak
    <3>2. CASE k = Len(pipe)
      <4>1. pipe[k].by = turn /\ pc[turn] = "open" /\ pipe[k].item = Items[at[turn]]
        BY <2>1, <2>2, <3>2 DEF Sent
      <4> QED BY <2>1, <4>1 DEF Leak
    <3> QED BY <2>2, <3>1, <3>2 DEF PendingOK
  <2>3. ASSUME NEW k \in DOMAIN pipe'
        PROVE  k \in DOMAIN pipe /\ pipe'[k] = pipe[k]
    <3>1. CASE pipe' = pipe
      BY <3>1
    <3>2. CASE pipe' = Front(pipe)
      <4>1. Front(pipe) \in Seq(Command) /\ Len(Front(pipe)) = Len(pipe) - 1 /\ Len(pipe) \in Nat
            /\ (\A i \in 1..Len(pipe) - 1 : Front(pipe)[i] = pipe[i]) /\ DOMAIN pipe = 1..Len(pipe)
        BY <2>1, PipeFacts
      <4>2. DOMAIN pipe' = 1..(Len(pipe) - 1)
        BY <3>2, <4>1, LenProperties
      <4> QED BY <3>2, <4>1, <4>2
    <3> QED BY <1>5, <3>1, <3>2 DEF Timeout
  <2> QED BY <2>2, <2>3 DEF PendingOK
<1>6. CASE PowerOff \/ Restart
  <2>1. pipe' = << >>
    BY <1>6 DEF PowerOff, Restart, AgentGone
  <2> QED BY <2>1 DEF PendingOK
<1>7. CASE PowerOn \/ UNCHANGED agentVars
  BY <1>1, <1>7 DEF PowerOn, agentVars
<1>8. CASE Crash
  <2>1. ASSUME NEW k \in DOMAIN pipe, pipe[k].what = "open"
        PROVE  <<pipe[k].by, pipe[k].item>> \in leaked'
    <3>1. CASE <<pipe[k].by, pipe[k].item>> \in leaked
      BY <1>8, <3>1 DEF Crash
    <3>2. CASE k = Len(pipe) /\ turn = pipe[k].by
      <4>1. pipe[k] \in Command
        BY PipeFacts
      <4>2. turn \in Req
        BY <3>2, <4>1 DEF Command
      <4>3. pc[turn] = "open" /\ pipe[k].item = Items[at[turn]]
        BY <2>1, <3>2, <4>2, NobodyAssumption DEF TurnOK, Sent
      <4>4. pipe[k].item \in File
        BY <4>2, <4>3, ItemFacts DEF PlaceOK
      <4>5. <<turn, pipe[k].item>> \in {r \in Req : pc[r] \in Talking} \X File
        BY <4>2, <4>3, <4>4 DEF Talking
      <4> QED BY <1>8, <3>2, <4>5 DEF Crash
    <3> QED BY <2>1, <3>1, <3>2 DEF PendingOK
  <2> QED BY <1>8, <2>1 DEF Crash, PendingOK
<1> QED BY <1>1, <1>2, <1>3, <1>4, <1>5, <1>6, <1>7, <1>8, Actions

\* What HandlesReturned says of r and f.
Accounted(r, f) == (pc[r] \in {"read", "close"} /\ Items[at[r]] = f) \/ <<r, f>> \in leaked

(***************************************************************************)
(* A request whose command fails, with its leak, still accounts for what   *)
(* it has opened.                                                          *)
(***************************************************************************)
LEMMA FailureAccounts ==
  ASSUME TypeOK, PlaceOK, NEW r \in Req, Failed(r), Leak(r), NEW x \in Req, NEW f \in File,
         Accounted(x, f)
  PROVE  Accounted(x, f)'
<1>1. Moved(r) /\ pc[r] \in Talking
  BY FailureMoves
<1>2. CASE <<x, f>> \in leaked
  BY <1>2 DEF Leak, Accounted
<1>3. CASE x # r
  BY <1>1, <1>2, <1>3 DEF Moved, Accounted
<1>4. CASE x = r /\ pc[r] = "read"
  BY <1>1, <1>2, <1>4 DEF Moved, Accounted
<1>5. CASE x = r /\ pc[r] = "close"
  BY <1>2, <1>5 DEF Leak, Accounted
<1> QED BY <1>2, <1>3, <1>4, <1>5 DEF Accounted

LEMMA HandlesStep ==
  ASSUME TypeOK, PlaceOK, TurnOK, OffOK, PendingOK, HandlesReturned, [Next]_agentVars
  PROVE  HandlesReturned'
<1> SUFFICES ASSUME NEW f \in File, NEW x \in open'[f]
             PROVE  Accounted(x, f)'
  BY DEF HandlesReturned, Accounted
<1>0. ASSUME x \in open[f]
      PROVE  x \in Req /\ Accounted(x, f)
  BY <1>0 DEF HandlesReturned, Accounted, TypeOK
<1>1. CASE UNCHANGED <<open, pc, at, leaked>>
  BY <1>0, <1>1 DEF Accounted
<1>2. ASSUME NEW r \in Req, Enter(r) \/ Power(r) \/ Jobs(r)
      PROVE  Accounted(x, f)'
  <2>1. open' = open /\ at' = at /\ leaked' = leaked /\ pc[r] \notin {"read", "close"}
    BY <1>2 DEF Enter, Power, Jobs, guestVars
  <2>2. \A y \in Req \ {r} : pc'[y] = pc[y]
    BY <1>2 DEF Enter, Power, Jobs, Goto, TypeOK
  <2> QED BY <1>0, <2>1, <2>2 DEF Accounted
<1>3. ASSUME NEW r \in Req, Send(r)
      PROVE  Accounted(x, f)'
  <2>1. open' = open /\ leaked' = leaked
    BY <1>3, SendCases DEF guestVars
  <2>2. on
    BY <2>1 DEF OffOK
  <2> QED BY <1>1, <1>3, <2>1, <2>2, SendCases
<1>4. CASE Execute
  <2>1. CASE Served(turn)
    <3> DEFINE r == turn
    <3>1. /\ r \in Req /\ Moved(r) /\ leaked' = leaked /\ Effect(Sent(r))
          /\ pc[r] = "open" => pc'[r] = "read" /\ at'[r] = at[r]
      BY <2>1, ServedMoves DEF Served
    <3>2. CASE pc[r] = "open"
      <4>1. /\ Items[at[r]] \in File
            /\ open' = [open EXCEPT ![Items[at[r]]] = @ \union {r}]
        BY <3>1, <3>2, ItemFacts DEF Effect, Sent, PlaceOK
      <4>2. (x = r /\ f = Items[at[r]]) \/ x \in open[f]
        BY <4>1 DEF TypeOK
      <4>3. CASE x = r /\ f = Items[at[r]]
        BY <3>1, <3>2, <4>3 DEF Accounted
      <4>4. CASE x \in open[f]
        BY <1>0, <3>1, <3>2, <4>4 DEF Accounted, Moved
      <4> QED BY <4>2, <4>3, <4>4
    <3>3. CASE pc[r] = "close"
      <4>1. /\ Items[at[r]] \in File
            /\ open' = [open EXCEPT ![Items[at[r]]] = @ \ {r}]
        BY <3>1, <3>3, ItemFacts DEF Effect, Sent, PlaceOK
      <4>2. x \in open[f] /\ (x = r => f # Items[at[r]])
        BY <4>1 DEF TypeOK
      <4> QED BY <1>0, <3>1, <4>2 DEF Accounted, Moved
    <3>4. CASE pc[r] \notin {"open", "close"}
      <4>1. open' = open
        BY <3>1, <3>4 DEF Effect, Sent
      <4> QED BY <1>0, <3>1, <3>4, <4>1 DEF Accounted, Moved
    <3> QED BY <3>2, <3>3, <3>4
  <2>2. CASE Unserved
    <3> DEFINE c == Head(pipe)
    <3>1. /\ c \in Command /\ c = pipe[1] /\ 1 \in DOMAIN pipe /\ Effect(c)
          /\ UNCHANGED <<pc, at, leaked>>
      BY <1>4, <2>2, ExecuteCases, PipeFacts DEF Unserved
    <3>2. CASE x \in open[f]
      BY <1>0, <3>1, <3>2 DEF Accounted
    <3>3. CASE x \notin open[f]
      <4>1. c.what = "open" /\ x = c.by /\ f = c.item
        <5>1. CASE c.what = "open"
          BY <3>1, <3>3, <5>1 DEF Effect, TypeOK
        <5>2. CASE c.what = "close"
          BY <3>1, <3>3, <5>2 DEF Effect, TypeOK
        <5>3. CASE c.what \notin {"open", "close"}
          BY <3>1, <3>3, <5>3 DEF Effect
        <5> QED BY <5>1, <5>2, <5>3
      <4>2. c.by # Nobody
        BY <3>1, NobodyAssumption DEF Command
      <4>3. <<x, f>> \in leaked
        BY <2>2, <3>1, <4>1, <4>2 DEF PendingOK, Unserved
      <4> QED BY <3>1, <4>3 DEF Accounted
    <3> QED BY <3>2, <3>3
  <2>3. CASE Denied(turn)
    <3>1. turn \in Req /\ Failed(turn) /\ Leak(turn) /\ open' = open
      BY <2>3 DEF Denied
    <3> QED BY <1>0, <3>1, FailureAccounts
  <2> QED BY <1>4, <2>1, <2>2, <2>3, ExecuteCases
<1>5. CASE Timeout
  <2>1. turn \in Req /\ Failed(turn) /\ Leak(turn) /\ open' = open
    BY <1>5 DEF Timeout, guestVars, TypeOK
  <2> QED BY <1>0, <2>1, FailureAccounts
<1>6. CASE PowerOff \/ Restart
  BY <1>6 DEF PowerOff, Restart, AgentGone
<1>7. CASE PowerOn \/ UNCHANGED agentVars
  BY <1>1, <1>7 DEF PowerOn, agentVars, guestVars
<1>8. CASE Crash
  <2>1. open' = open /\ at' = at /\ leaked' = leaked \union {r \in Req : pc[r] \in Talking} \X File
    BY <1>8 DEF Crash, guestVars
  <2>2. pc[x] \in {"read", "close"} /\ x \in Req => <<x, f>> \in leaked'
    BY <2>1 DEF Talking
  <2> QED BY <1>0, <2>1, <2>2 DEF Accounted
<1> QED BY <1>1, <1>2, <1>3, <1>4, <1>5, <1>6, <1>7, <1>8, Actions

(***************************************************************************)
(* A request that has ended stays as it is; SetPassword ends with TRUE     *)
(* only when its command is executed while it waits.                       *)
(***************************************************************************)
LEMMA Endings ==
  ASSUME TypeOK, PlaceOK, TurnOK, [Next]_agentVars
  PROVE  \A x \in Req :
           /\ pc[x] \in Ended => UNCHANGED <<pc[x], op[x], before[x]>>
           /\ pc'[x] = "ok" /\ op'[x] = "SetPassword" /\ pc[x] # "ok" =>
                Execute /\ Served(x) /\ pc[x] = "password"
<1> SUFFICES ASSUME NEW x \in Req
             PROVE  /\ pc[x] \in Ended => UNCHANGED <<pc[x], op[x], before[x]>>
                    /\ pc'[x] = "ok" /\ op'[x] = "SetPassword" /\ pc[x] # "ok" =>
                         Execute /\ Served(x) /\ pc[x] = "password"
  OBVIOUS
<1>1. ASSUME NEW r \in Req, Enter(r) \/ Power(r) \/ Jobs(r)
      PROVE  (pc[x] \in Ended => UNCHANGED <<pc[x], op[x], before[x]>>) /\ (pc'[x] = "ok" => pc[x] = "ok")
  <2>1. pc[r] \notin Ended /\ pc'[r] # "ok" /\ \A y \in Req \ {r} : pc'[y] = pc[y]
    BY <1>1 DEF Enter, Power, Jobs, Goto, TypeOK, Ended
  <2>2. \A y \in Req \ {r} : op'[y] = op[y] /\ before'[y] = before[y]
    BY <1>1 DEF Enter, Power, Jobs, TypeOK
  <2> QED BY <2>1, <2>2
<1>2. ASSUME NEW r \in Req, Failed(r), op' = op, before' = before
      PROVE  /\ pc[x] \in Ended => UNCHANGED <<pc[x], op[x], before[x]>>
             /\ pc'[x] = "ok" /\ op'[x] = "SetPassword" => pc[x] = "ok"
  <2>1. Moved(r) /\ pc[r] \in Talking /\ (pc[r] = "password" => pc'[r] = "error")
    BY <1>2, FailureMoves
  <2>2. pc[r] \notin Ended
    BY <2>1 DEF Talking, Ended
  <2> QED BY <1>2, <2>1, <2>2 DEF Moved
<1>3. CASE UNCHANGED <<pc, op, before>>
  BY <1>3
<1>4. ASSUME NEW r \in Req, Send(r)
      PROVE  /\ pc[x] \in Ended => UNCHANGED <<pc[x], op[x], before[x]>>
             /\ pc'[x] = "ok" /\ op'[x] = "SetPassword" => pc[x] = "ok"
  BY <1>2, <1>3, <1>4, SendCases
<1>5. CASE Execute
  <2>1. CASE Served(turn)
    <3>1. /\ turn \in Req /\ Moved(turn) /\ pc[turn] \in Talking
          /\ op' = op /\ before' = before
      BY <1>5, <2>1, ServedMoves, ExecuteCases DEF Served
    <3>2. pc[turn] \notin Ended
      BY <3>1 DEF Talking, Ended
    <3>3. pc'[turn] = "ok" /\ op[turn] = "SetPassword" => pc[turn] = "password"
      BY <3>1 DEF Moved
    <3> QED BY <1>5, <2>1, <3>1, <3>2, <3>3 DEF Moved
  <2>2. CASE Denied(turn)
    BY <1>2, <1>5, <2>2, ExecuteCases DEF Denied
  <2> QED BY <1>3, <1>5, <2>1, <2>2, ExecuteCases DEF Unserved
<1>6. CASE Timeout
  <2>1. turn \in Req /\ Failed(turn) /\ op' = op /\ before' = before
    BY <1>6 DEF Timeout, TypeOK
  <2> QED BY <1>2, <2>1
<1>7. CASE PowerOff \/ Restart
  <2>1. /\ op' = op /\ before' = before
        /\ (turn \in Req /\ Failed(turn)) \/ pc' = pc
    BY <1>7 DEF PowerOff, Restart, AgentGone, TypeOK
  <2> QED BY <1>2, <1>3, <2>1
<1>8. CASE PowerOn \/ UNCHANGED agentVars
  BY <1>3, <1>8 DEF PowerOn, agentVars
<1>9. CASE Crash
  BY <1>9 DEF Crash, TypeOK, Ended
<1> QED BY <1>1, <1>4, <1>5, <1>6, <1>7, <1>8, <1>9, Actions

LEMMA BeforeStep ==
  ASSUME TypeOK, PlaceOK, TurnOK, BeforeOK, [Next]_agentVars
  PROVE  BeforeOK'
<1>1. \A x \in Req : pc[x] \in Ended => pc'[x] \in Ended
  BY Endings
<1>2. ASSUME NEW r \in Req
      PROVE  r \notin before'[r] /\ \A q \in before'[r] : q \in Req /\ pc[q] \in Ended
  <2>1. CASE before'[r] = before[r]
    BY <2>1 DEF BeforeOK, TypeOK
  <2>2. CASE before' # before
    <3>1. PICK x \in Req : Enter(x)
      <4>1. ASSUME NEW x \in Req, Power(x) \/ Jobs(x) \/ Send(x)
            PROVE  before' = before
        BY <4>1 DEF Power, Jobs, Send
      <4>2. Execute \/ Timeout \/ PowerOff \/ PowerOn \/ Restart \/ Crash => before' = before
        BY DEF Execute, Timeout, PowerOff, PowerOn, Restart, AgentGone, Crash
      <4> QED BY <2>2, <4>1, <4>2, Actions DEF agentVars
    <3>2. pc[x] = "idle" /\ before' = [before EXCEPT ![x] = {q \in Req : pc[q] \in Ended}]
      BY <3>1 DEF Enter
    <3> QED BY <2>1, <3>2 DEF TypeOK, Ended
  <2> QED BY <2>1, <2>2
<1> QED BY <1>1, <1>2 DEF BeforeOK

\* What PasswordOK says of r.
Confirmed(r) ==
  \E i \in DOMAIN password : password[i] = r /\ \A j \in 1..i : password[j] \notin before[r]
Unthreatened(r) == \A k \in DOMAIN pipe : pipe[k].by \notin before[r]

(***************************************************************************)
(* A command that a step finds in the channel was there before it, or is   *)
(* one of a request that is at it.                                         *)
(***************************************************************************)
LEMMA Senders ==
  ASSUME TypeOK, PlaceOK, TurnOK, [Next]_agentVars
  PROVE  \A k \in DOMAIN pipe' :
           \/ \E j \in DOMAIN pipe : pipe'[k] = pipe[j]
           \/ \E x \in Req : pc[x] \in Talking /\ pipe'[k].by = x
<1>1. CASE pipe' = pipe
  BY <1>1
<1>2. CASE pipe' = << >>
  BY <1>2
<1>3. ASSUME NEW r \in Req, Send(r)
      PROVE  \A k \in DOMAIN pipe' :
               \/ \E j \in DOMAIN pipe : pipe'[k] = pipe[j]
               \/ \E x \in Req : pc[x] \in Talking /\ pipe'[k].by = x
  <2>1. CASE on
    <3>1. /\ pc[r] \in Talking
          /\ pipe' \in Seq(Command) /\ Len(pipe') = Len(pipe) + 1
          /\ pipe'[Len(pipe) + 1] = Sent(r)
          /\ \A k \in 1..Len(pipe) : pipe'[k] = pipe[k]
      BY <1>3, <2>1, SendCases
    <3>2. /\ DOMAIN pipe' = 1..(Len(pipe) + 1) /\ DOMAIN pipe = 1..Len(pipe)
          /\ Len(pipe) \in Nat
      BY <3>1, PipeFacts, LenProperties
    <3>3. Sent(r).by = r
      BY DEF Sent
    <3> QED BY <3>1, <3>2, <3>3
  <2> QED BY <1>1, <1>3, <2>1, SendCases
<1>4. CASE pipe # << >> /\ (pipe' = Tail(pipe) \/ pipe' = Front(pipe))
  <2>1. /\ pipe' \in Seq(Command) /\ Len(pipe') = Len(pipe) - 1 /\ Len(pipe) \in Nat \ {0}
        /\ \A k \in 1..(Len(pipe) - 1) : pipe'[k] = pipe[k + 1] \/ pipe'[k] = pipe[k]
    BY <1>4, PipeFacts
  <2>2. DOMAIN pipe' = 1..(Len(pipe) - 1) /\ DOMAIN pipe = 1..Len(pipe)
    BY <2>1, PipeFacts, LenProperties
  <2>3. \A k \in 1..(Len(pipe) - 1) : k \in 1..Len(pipe) /\ k + 1 \in 1..Len(pipe)
    BY <2>1
  <2> QED BY <2>1, <2>2, <2>3
<1>5. ASSUME NEW r \in Req, Enter(r) \/ Power(r) \/ Jobs(r)
      PROVE  pipe' = pipe
  BY <1>5 DEF Enter, Power, Jobs
<1>6. CASE Execute
  BY <1>4, <1>6, ExecuteCases
<1>7. CASE Timeout
  BY <1>1, <1>4, <1>7 DEF Timeout, TurnOK
<1>8. CASE PowerOff \/ Restart
  BY <1>2, <1>8 DEF PowerOff, Restart, AgentGone
<1>9. CASE PowerOn \/ Crash \/ UNCHANGED agentVars
  BY <1>1, <1>9 DEF PowerOn, Crash, agentVars
<1> QED BY <1>1, <1>3, <1>5, <1>6, <1>7, <1>8, <1>9, Actions

(***************************************************************************)
(* The password is changed by the command at the head of the channel only. *)
(***************************************************************************)
LEMMA Passwords ==
  ASSUME TypeOK, TurnOK, [Next]_agentVars
  PROVE  \/ password' = password
         \/ /\ 1 \in DOMAIN pipe /\ pipe[1].by \in Req
            /\ password' = <<pipe[1].by>> \o password
<1>1. ASSUME NEW r \in Req, Enter(r) \/ Power(r) \/ Jobs(r) \/ Send(r)
      PROVE  password' = password
  BY <1>1 DEF Enter, Power, Jobs, Send, guestVars
<1>2. CASE Execute
  <2>1. 1 \in DOMAIN pipe /\ Head(pipe) = pipe[1] /\ pipe[1] \in Command
    BY <1>2, ExecuteCases, PipeFacts
  <2>2. password' = password \/ Effect(Head(pipe))
    BY <1>2 DEF Execute
  <2> QED BY <2>1, <2>2 DEF Effect, Command
<1>3. CASE Timeout \/ PowerOff \/ PowerOn \/ Restart \/ Crash \/ UNCHANGED agentVars
  BY <1>3 DEF Timeout, PowerOff, PowerOn, Restart, Crash, agentVars, guestVars
<1> QED BY <1>1, <1>2, <1>3, Actions

LEMMA Prepended ==
  ASSUME TypeOK, NEW y \in Req, password' = <<y>> \o password
  PROVE  /\ DOMAIN password' = 1..(Len(password) + 1) /\ DOMAIN password = 1..Len(password)
         /\ Len(password) \in Nat
         /\ password'[1] = y
         /\ \A i \in 1..Len(password) : password'[i + 1] = password[i]
<1>1. <<y>> \in Seq(Req) /\ Len(<<y>>) = 1 /\ <<y>>[1] = y /\ password \in Seq(Req)
  BY DEF TypeOK
<1>2. Len(password) \in Nat /\ DOMAIN password = 1..Len(password)
  BY <1>1, LenProperties
<1>3. /\ password' \in Seq(Req) /\ Len(password') = 1 + Len(password)
      /\ \A i \in 1..(1 + Len(password)) :
           password'[i] = IF i <= 1 THEN <<y>>[i] ELSE password[i - 1]
  BY <1>1, ConcatProperties
<1>4. DOMAIN password' = 1..(Len(password) + 1)
  BY <1>2, <1>3, LenProperties
<1> QED BY <1>1, <1>2, <1>3, <1>4

LEMMA PasswordStep ==
  ASSUME TypeOK, PlaceOK, TurnOK, BeforeOK, PasswordOK, [Next]_agentVars
  PROVE  PasswordOK'
<1> SUFFICES ASSUME NEW r \in Req, pc'[r] = "ok", op'[r] = "SetPassword"
             PROVE  Confirmed(r)' /\ Unthreatened(r)'
  BY DEF PasswordOK, Confirmed, Unthreatened
<1>1. CASE pc[r] = "ok"
  <2>1. op[r] = "SetPassword" /\ before'[r] = before[r]
    BY <1>1, Endings DEF Ended
  <2>2. Confirmed(r) /\ Unthreatened(r)
    BY <1>1, <2>1 DEF PasswordOK, Confirmed, Unthreatened
  <2>3. Unthreatened(r)'
    <3>1. \A x \in Req : pc[x] \in Talking => x \notin before[r]
      BY DEF BeforeOK, Talking, Ended
    <3> QED BY <2>1, <2>2, <3>1, Senders DEF Unthreatened
  <2>4. CASE password' = password
    BY <2>1, <2>2, <2>3, <2>4 DEF Confirmed
  <2>5. CASE /\ 1 \in DOMAIN pipe /\ pipe[1].by \in Req
             /\ password' = <<pipe[1].by>> \o password
    <3>1. /\ DOMAIN password' = 1..(Len(password) + 1) /\ DOMAIN password = 1..Len(password)
          /\ Len(password) \in Nat
          /\ password'[1] = pipe[1].by
          /\ \A i \in 1..Len(password) : password'[i + 1] = password[i]
      BY <2>5, Prepended
    <3>2. pipe[1].by \notin before[r]
      BY <2>2, <2>5 DEF Unthreatened
    <3>3. PICK i \in 1..Len(password) :
            password[i] = r /\ \A j \in 1..i : password[j] \notin before[r]
      BY <2>2, <3>1 DEF Confirmed
    <3>4. i + 1 \in DOMAIN password' /\ password'[i + 1] = r
      BY <3>1, <3>3
    <3>5. ASSUME NEW j \in 1..(i + 1)
          PROVE  password'[j] \notin before[r]
      <4>1. CASE j = 1
        BY <3>1, <3>2, <4>1
      <4>2. CASE j # 1
        <5>1. j - 1 \in 1..i /\ j - 1 \in 1..Len(password) /\ (j - 1) + 1 = j
          BY <3>1, <4>2
        <5>2. password'[j] = password[j - 1]
          BY <3>1, <5>1
        <5> QED BY <3>3, <5>1, <5>2
      <4> QED BY <4>1, <4>2
    <3> QED BY <2>1, <2>3, <3>4, <3>5 DEF Confirmed
  <2> QED BY <2>3, <2>4, <2>5, Passwords
<1>2. CASE pc[r] # "ok"
  <2>1. Execute /\ Served(r) /\ pc[r] = "password"
    BY <1>2, Endings
  <2>2. before'[r] = before[r] /\ r \notin before[r]
    BY <2>1, ExecuteCases DEF BeforeOK
  <2>3. password' = <<r>> \o password
    BY <2>1 DEF Served, Effect, Sent
  <2>4. 1 \in DOMAIN password' /\ password'[1] = r
    BY <2>3, Prepended
  <2>5. DOMAIN pipe' = {}
    <3>1. pipe' = Tail(pipe) /\ pipe # << >> /\ Len(pipe) = 1
      BY <2>1, ExecuteCases DEF Served
    <3>2. pipe' \in Seq(Command) /\ Len(pipe') = 0
      BY <3>1, PipeFacts
    <3> QED BY <3>2, LenProperties
  <2>6. \A j \in 1..1 : j = 1
    OBVIOUS
  <2> QED BY <2>2, <2>4, <2>5, <2>6 DEF Confirmed, Unthreatened
<1> QED BY <1>1, <1>2

-----------------------------------------------------------------------------
LEMMA Invariance == Spec => []IInv
<1>1. Init => IInv
  <2> SUFFICES ASSUME Init
               PROVE  IInv
    OBVIOUS
  <2>1. TypeOK
    <3>1. 1 \in DOMAIN Items
      BY ItemFacts
    <3>2. << >> \in Seq(Req) /\ << >> \in Seq(Command)
      BY EmptySeq
    <3> QED BY <3>1, <3>2 DEF Init, TypeOK
  <2>2. PlaceOK /\ TurnOK /\ OffOK /\ PendingOK /\ HandlesReturned
    BY DEF Init, PlaceOK, TurnOK, OffOK, PendingOK, HandlesReturned
  <2>3. WholeOK /\ BeforeOK /\ PasswordOK
    BY DEF Init, WholeOK, BeforeOK, PasswordOK
  <2> QED BY <2>1, <2>2, <2>3 DEF IInv
<1>2. IInv /\ [Next]_agentVars => IInv'
  <2> SUFFICES ASSUME IInv, [Next]_agentVars
               PROVE  IInv'
    OBVIOUS
  <2>0. /\ TypeOK /\ PlaceOK /\ TurnOK /\ OffOK /\ PendingOK /\ HandlesReturned
        /\ WholeOK /\ BeforeOK /\ PasswordOK
    BY DEF IInv
  <2>1. TypeOK' /\ PlaceOK' /\ TurnOK'
    BY <2>0, TypeStep, PlaceStep, TurnStep
  <2>2. OffOK' /\ PendingOK' /\ HandlesReturned'
    BY <2>0, OffStep, PendingStep, HandlesStep
  <2>3. WholeOK' /\ BeforeOK' /\ PasswordOK'
    BY <2>0, WholeStep, BeforeStep, PasswordStep
  <2> QED BY <2>1, <2>2, <2>3 DEF IInv
<1> QED BY <1>1, <1>2, PTL DEF Spec

(***************************************************************************)
(* The variables keep their types.                                         *)
(***************************************************************************)
THEOREM TypeCorrect == Spec => []TypeOK
<1>1. IInv => TypeOK
  BY DEF IInv
<1> QED BY <1>1, Invariance, PTL

(***************************************************************************)
(* Whatever fails, times out or comes late: a file stays open in the guest *)
(* only for a request that is still at it or has lost the answer to its    *)
(* opening or closing it (agent.go).                                       *)
(***************************************************************************)
THEOREM FilesAreClosed == Spec => []HandlesReturned
<1>1. IInv => HandlesReturned
  BY DEF IInv
<1> QED BY <1>1, Invariance, PTL

(***************************************************************************)
(* No part of a file is reported for all of it, and a password set with    *)
(* TRUE was set after what an older SetPassword left in the channel.       *)
(***************************************************************************)
THEOREM AnswersHold == Spec => []AnswersAreTrue
<1>1. IInv => AnswersAreTrue
  BY DEF IInv, PasswordOK, WholeOK, AnswersAreTrue
<1> QED BY <1>1, Invariance, PTL
=============================================================================
