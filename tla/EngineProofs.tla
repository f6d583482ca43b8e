----------------------------- MODULE EngineProofs -----------------------------
(***************************************************************************)
(* Safety of the conversation engine, for any capacities and any number of *)
(* turns, calls and crashes.                                               *)
(*                                                                         *)
(* An interrupt never cancels a turn submitted after it: the commands in   *)
(* cmdCh carry the number of the last turn submitted when they were sent,  *)
(* so these numbers never decrease along the channel, and none of them is  *)
(* below the turn that the loop took from it (OrderInv).                   *)
(*                                                                         *)
(* The history, the query's copy of it and the session file (EngineInv):   *)
(* which messages a request has depends on what the query has yet to hand  *)
(* over, on where notices come in between, and on what an interrupt, a     *)
(* stop or a crash left behind.                                            *)
(***************************************************************************)
EXTENDS Engine, WellFoundedInduction, TLAPS
(* The channel is first in, first out.                                     *)
Ordered(s) == \A i, j \in 1 .. Len(s) : i <= j => s[i].turn <= s[j].turn

(* All of s was sent at or after turn m and before turn n + 1.             *)
Between(s, m, n) == \A i \in 1 .. Len(s) : m <= s[i].turn /\ s[i].turn <= n

OrderInv ==
  /\ cmdCh \in Seq(Commands)
  /\ lines \in 0 .. MaxLines /\ turnNo \in 0 .. MaxLines /\ cancelled \in 0 .. MaxLines
  /\ turnNo <= lines
  /\ Ordered(cmdCh) /\ Between(cmdCh, turnNo, lines)
  /\ InterruptFresh

-----------------------------------------------------------------------------
(* What the channel keeps.                                                 *)

LEMMA Numbered ==
  ASSUME NEW s \in Seq(Commands)
  PROVE  \A i \in 1 .. Len(s) : s[i].turn \in 0 .. MaxLines
<1> SUFFICES ASSUME NEW i \in 1 .. Len(s) PROVE s[i].turn \in 0 .. MaxLines
  OBVIOUS
<1>1. s[i] \in Commands
  OBVIOUS
<1> QED BY <1>1 DEF Commands

(* A command sent now comes after those in the channel.                    *)
LEMMA SentLast ==
  ASSUME NEW s \in Seq(Commands), NEW m \in 0 .. MaxLines, NEW n \in 0 .. MaxLines, m <= n,
         Ordered(s), Between(s, m, n), NEW k \in CmdKinds
  PROVE  LET t == Append(s, Command(k, n)) IN
         t \in Seq(Commands) /\ Ordered(t) /\ Between(t, m, n)
<1> DEFINE c == Command(k, n)
           t == Append(s, c)
<1>1. c \in Commands /\ c.turn = n
  BY DEF Command, Commands
<1>2. t \in Seq(Commands) /\ Len(t) = Len(s) + 1 /\ Len(s) \in Nat
  BY <1>1
<1>3. \A i \in 1 .. Len(t) : t[i] = IF i <= Len(s) THEN s[i] ELSE c
  BY <1>1, <1>2
<1>4. \A i \in 1 .. Len(s) : s[i].turn \in Nat
  BY Numbered, EngineAssumption
<1>5. Between(t, m, n)
  BY <1>1, <1>2, <1>3, <1>4, EngineAssumption DEF Between
<1>6. Ordered(t)
  BY <1>1, <1>2, <1>3, <1>4, EngineAssumption DEF Between, Ordered
<1> QED BY <1>2, <1>5, <1>6

(* The first command is not later than the rest.                           *)
LEMMA TakenFirst ==
  ASSUME NEW s \in Seq(Commands), s # <<>>, NEW m \in 0 .. MaxLines, NEW n \in 0 .. MaxLines,
         Ordered(s), Between(s, m, n)
  PROVE  /\ Tail(s) \in Seq(Commands) /\ Ordered(Tail(s))
         /\ Head(s).turn \in 0 .. MaxLines /\ m <= Head(s).turn /\ Head(s).turn <= n
         /\ Between(Tail(s), m, n) /\ Between(Tail(s), Head(s).turn, n)
<1> DEFINE t == Tail(s)
<1>1. Len(s) \in Nat \ {0} /\ Head(s) = s[1] /\ s[1] \in Commands
  OBVIOUS
<1>2. t \in Seq(Commands) /\ Len(t) = Len(s) - 1
  BY <1>1
<1>3. \A i \in 1 .. Len(t) : t[i] = s[i + 1] /\ i + 1 \in 1 .. Len(s)
  BY <1>1, <1>2
<1>4. Ordered(t) /\ Between(t, m, n)
  BY <1>1, <1>2, <1>3 DEF Ordered, Between
<1>5. \A i \in 1 .. Len(t) : s[1].turn <= s[i + 1].turn /\ s[i + 1].turn <= n
  BY <1>1, <1>2, <1>3 DEF Ordered, Between
<1>6. Between(t, Head(s).turn, n)
  BY <1>1, <1>3, <1>5 DEF Between
<1>7. m <= s[1].turn /\ s[1].turn <= n /\ s[1].turn \in 0 .. MaxLines
  BY <1>1 DEF Between, Commands
<1> QED BY <1>1, <1>2, <1>4, <1>6, <1>7

-----------------------------------------------------------------------------
(* The steps, by what they do to the channel.                              *)

(* Sending a command.                                                      *)
LEMMA SendKeeps ==
  ASSUME OrderInv, NEW k \in CmdKinds, cmdCh' = Append(cmdCh, Command(k, lines)),
         UNCHANGED <<lines, loop, turnNo, cancelled>>
  PROVE  OrderInv'
<1>1. /\ cmdCh' \in Seq(Commands) /\ Ordered(cmdCh') /\ Between(cmdCh', turnNo, lines)
  BY SentLast DEF OrderInv
<1>2. InterruptFresh'
  BY DEF OrderInv, InterruptFresh
<1> QED BY <1>1, <1>2 DEF OrderInv, Ordered, Between

(* Taking a command that starts no turn.                                   *)
LEMMA TakeKeeps ==
  ASSUME OrderInv, cmdCh # <<>>, cmdCh' = Tail(cmdCh), UNCHANGED <<lines, loop, turnNo>>,
         cancelled' = cancelled \/ cancelled' = Head(cmdCh).turn
  PROVE  OrderInv'
<1>1. /\ cmdCh' \in Seq(Commands) /\ Ordered(cmdCh') /\ Between(cmdCh', turnNo, lines)
      /\ Head(cmdCh).turn \in 0 .. MaxLines /\ turnNo <= Head(cmdCh).turn
  BY TakenFirst DEF OrderInv
<1>2. InterruptFresh' /\ cancelled' \in 0 .. MaxLines
  BY <1>1, EngineAssumption DEF OrderInv, InterruptFresh
<1> QED BY <1>1, <1>2 DEF OrderInv, Ordered, Between

(* Leaving the channel alone and starting no turn.                         *)
LEMMA RestKeeps ==
  ASSUME OrderInv, UNCHANGED <<cmdCh, lines, turnNo>>, loop' = loop \/ loop' # "turn",
         cancelled' = cancelled \/ cancelled' = turnNo
  PROVE  OrderInv'
<1>1. InterruptFresh' /\ cancelled' \in 0 .. MaxLines
  BY EngineAssumption DEF OrderInv, InterruptFresh
<1> QED BY <1>1 DEF OrderInv, Ordered, Between

LEMMA LoopKeeps == ASSUME OrderInv, LoopStep PROVE OrderInv'
<1>1. CASE StartTurn
  <2>1. /\ cmdCh # <<>> /\ cmdCh' = Tail(cmdCh) /\ lines' = lines
        /\ turnNo' = Head(cmdCh).turn /\ cancelled' = 0
    BY <1>1 DEF StartTurn, Take, driverVars
  <2>2. /\ cmdCh' \in Seq(Commands) /\ Ordered(cmdCh') /\ Between(cmdCh', turnNo', lines)
        /\ turnNo' \in 0 .. MaxLines /\ turnNo' <= lines
    BY <2>1, TakenFirst DEF OrderInv
  <2>3. cancelled' \in 0 .. MaxLines /\ InterruptFresh'
    BY <2>1, EngineAssumption DEF OrderInv, InterruptFresh
  <2> QED BY <2>1, <2>2, <2>3 DEF OrderInv, Ordered, Between
<1>2. CASE IdleNotify \/ IdleUsage \/ IdleInterrupt \/ reset \/ AnswerMessages \/ AnswerTotal
  <2>1. cmdCh # <<>> /\ cmdCh' = Tail(cmdCh) /\ UNCHANGED <<lines, loop, turnNo, cancelled>>
    BY <1>2 DEF IdleNotify, IdleUsage, IdleInterrupt, reset, AnswerMessages, AnswerTotal, Take,
                turnVars, driverVars
  <2> QED BY <2>1, TakeKeeps
<1>3. CASE TurnNotify \/ TurnUsage \/ TurnDrop
  <2>1. cmdCh # <<>> /\ cmdCh' = Tail(cmdCh) /\ UNCHANGED <<lines, loop, turnNo, cancelled>>
    BY <1>3 DEF TurnNotify, TurnUsage, TurnDrop, Take, turnVars, driverVars
  <2> QED BY <2>1, TakeKeeps
<1>4. CASE TurnInterrupt
  <2>1. /\ cmdCh # <<>> /\ cmdCh' = Tail(cmdCh) /\ UNCHANGED <<lines, loop, turnNo>>
        /\ cancelled' = Head(cmdCh).turn
    BY <1>4 DEF TurnInterrupt, Take, driverVars
  <2> QED BY <2>1, TakeKeeps
<1>5. CASE Exit \/ TurnStopped \/ Drain \/ handleQueryEvent \/ EndTurn
  <2>1. UNCHANGED <<cmdCh, lines, turnNo>> /\ (loop' = loop \/ loop' # "turn")
    BY <1>5 DEF Exit, TurnStopped, Drain, handleQueryEvent, EndTurn, turnVars, driverVars
  <2>2. cancelled' = cancelled \/ cancelled' = turnNo
    BY <1>5 DEF Exit, TurnStopped, Drain, handleQueryEvent, EndTurn, turnVars
  <2> QED BY <2>1, <2>2, RestKeeps
<1> QED BY <1>1, <1>2, <1>3, <1>4, <1>5 DEF LoopStep

LEMMA QueryKeeps == ASSUME OrderInv, QueryStep PROVE OrderInv'
<1>1. UNCHANGED <<cmdCh, lines, loop, turnNo, cancelled>>
  BY DEF QueryStep, QueryAborted, QueryLimit, NoCompaction, Compaction, RequestFails, ReplyText,
         ReplyCut, ReplyTools, ToolsAborted, executeTools, QueryGoes, turnVars, driverVars
<1> QED BY <1>1, RestKeeps

(* The calls of every goroutine but the loop.                              *)
LEMMA PanicKeeps == ASSUME OrderInv, NEW k, Panic(k) PROVE OrderInv'
<1>1. UNCHANGED <<cmdCh, lines, loop, turnNo, cancelled>>
  BY DEF Panic, turnVars, driverVars
<1> QED BY <1>1, RestKeeps

LEMMA OfferKeeps == ASSUME OrderInv, NEW k \in CmdKinds, Offer(k) PROVE OrderInv'
<1>1. CASE Panic(k)
  BY <1>1, PanicKeeps
<1>2. CASE ~Panic(k)
  <2>1. /\ UNCHANGED <<lines, loop, turnNo, cancelled>>
        /\ cmdCh' = Append(cmdCh, Command(k, lines)) \/ cmdCh' = cmdCh
    BY <1>2 DEF Offer, turnVars, driverVars
  <2> QED BY <2>1, SendKeeps, RestKeeps
<1> QED BY <1>1, <1>2

LEMMA CallMessagesKeeps == ASSUME OrderInv, CallMessages PROVE OrderInv'
<1>1. CASE Panic("messages")
  BY <1>1, PanicKeeps
<1>2. CASE ~Panic("messages")
  <2>1. /\ UNCHANGED <<lines, loop, turnNo, cancelled>>
        /\ cmdCh' = Append(cmdCh, Command("messages", lines)) /\ "messages" \in CmdKinds
    BY <1>2 DEF CallMessages, CmdKinds, turnVars, driverVars
  <2> QED BY <2>1, SendKeeps
<1> QED BY <1>1, <1>2

LEMMA StopKeeps == ASSUME OrderInv, Stop PROVE OrderInv'
<1>1. UNCHANGED <<cmdCh, lines, loop, turnNo, cancelled>>
  BY DEF Stop, turnVars, driverVars
<1> QED BY <1>1, RestKeeps

(* A turn is the one command sent with a new number.                       *)
LEMMA SubmitTurnKeeps == ASSUME OrderInv, SubmitTurn PROVE OrderInv'
<1>1. CASE Panic("turn")
  BY <1>1, PanicKeeps
<1>2. CASE ~Panic("turn")
  <2>1. /\ lines < MaxLines /\ lines' = lines + 1 /\ UNCHANGED <<loop, turnNo, cancelled>>
        /\ cmdCh' = Append(cmdCh, Command("turn", lines + 1)) /\ "turn" \in CmdKinds
    BY <1>2 DEF SubmitTurn, DriverGoes, CmdKinds, turnVars
  <2>2. lines' \in 0 .. MaxLines /\ turnNo <= lines'
    BY <2>1, EngineAssumption DEF OrderInv
  <2>3. Between(cmdCh, turnNo, lines')
    <3>1. \A i \in 1 .. Len(cmdCh) : cmdCh[i].turn \in 0 .. MaxLines
      BY Numbered DEF OrderInv
    <3> QED BY <2>1, <3>1, EngineAssumption DEF OrderInv, Between
  <2>4. cmdCh' \in Seq(Commands) /\ Ordered(cmdCh') /\ Between(cmdCh', turnNo, lines')
    BY <2>1, <2>2, <2>3, SentLast DEF OrderInv
  <2>5. InterruptFresh'
    BY <2>1 DEF OrderInv, InterruptFresh
  <2> QED BY <2>1, <2>2, <2>4, <2>5 DEF OrderInv, Ordered, Between
<1> QED BY <1>1, <1>2

LEMMA DriverKeeps == ASSUME OrderInv, DriverStep PROVE OrderInv'
<1>1. CASE SubmitTurn
  BY <1>1, SubmitTurnKeeps
<1>2. CASE SubmitReset
  <2>1. Offer("reset") /\ "reset" \in CmdKinds
    BY <1>2 DEF SubmitReset, CmdKinds
  <2> QED BY <2>1, OfferKeeps
<1>3. CASE EndOfInput \/ TakeOutput \/ TurnOver \/ SaveSession \/ WriteFile
  <2>1. UNCHANGED <<cmdCh, lines, loop, turnNo, cancelled>>
    BY <1>3 DEF EndOfInput, TakeOutput, TurnOver, SaveSession, WriteFile, DriverGoes, turnVars
  <2> QED BY <2>1, RestKeeps
<1>4. CASE AskUsage
  <2>1. CASE Panic("total")
    BY <2>1, PanicKeeps
  <2>2. CASE ~Panic("total")
    <3>1. /\ UNCHANGED <<lines, loop, turnNo, cancelled>>
          /\ cmdCh' = Append(cmdCh, Command("total", lines)) /\ "total" \in CmdKinds
      BY <1>4, <2>2 DEF AskUsage, DriverGoes, CmdKinds, turnVars
    <3> QED BY <3>1, SendKeeps
  <2> QED BY <2>1, <2>2
<1> QED BY <1>1, <1>2, <1>3, <1>4 DEF DriverStep

(* A new process starts with an empty channel, or with a reset in it.      *)
LEMMA RestartKeeps == ASSUME OrderInv, Restart PROVE OrderInv'
<1>1. lines' = lines /\ loop' = "idle" /\ turnNo' = 0 /\ cancelled' = 0
  BY DEF Restart
<1>2. cmdCh' = <<>> \/ cmdCh' = <<Command("reset", 0)>>
  BY DEF Restart
<1>3. Command("reset", 0) \in Commands /\ Command("reset", 0).turn = 0
  BY EngineAssumption DEF Command, Commands, CmdKinds
<1>4. CASE cmdCh' = <<>>
  BY <1>1, <1>4, EngineAssumption DEF OrderInv, Ordered, Between, InterruptFresh
<1>5. CASE cmdCh' = <<Command("reset", 0)>>
  <2>1. cmdCh' \in Seq(Commands) /\ Len(cmdCh') = 1 /\ cmdCh'[1].turn = 0
    BY <1>3, <1>5
  <2> QED BY <1>1, <2>1, EngineAssumption DEF OrderInv, Ordered, Between, InterruptFresh
<1> QED BY <1>2, <1>4, <1>5

-----------------------------------------------------------------------------
(* For any capacities, numbers of turns, calls and crashes, the commands   *)
(* in the channel are in the order of the turns, none is older than the    *)
(* running turn, and so an interrupt only cancels a turn that was          *)
(* submitted before it (Engine.Interrupt, the cancel of runTurn).          *)
THEOREM OrderCorrect == Spec => []OrderInv
<1>1. Init => OrderInv
  BY EngineAssumption DEF Init, OrderInv, Ordered, Between, InterruptFresh
<1>2. OrderInv /\ [Next]_vars => OrderInv'
  <2> SUFFICES ASSUME OrderInv, [Next]_vars PROVE OrderInv'
    OBVIOUS
  <2>1. CASE LoopStep
    BY <2>1, LoopKeeps
  <2>2. CASE QueryStep
    BY <2>2, QueryKeeps
  <2>3. CASE DriverStep
    BY <2>3, DriverKeeps
  <2>4. CASE CallMessages
    BY <2>4, CallMessagesKeeps
  <2>5. CASE Stop
    BY <2>5, StopKeeps
  <2>6. ASSUME NEW k \in {"notify", "usage", "interrupt"}, Offer(k) PROVE OrderInv'
    <3>1. k \in CmdKinds
      BY DEF CmdKinds
    <3> QED BY <2>6, <3>1, OfferKeeps
  <2>7. CASE Restart
    BY <2>7, RestartKeeps
  <2>8. CASE UNCHANGED vars
    <3>1. UNCHANGED <<cmdCh, lines, loop, turnNo, cancelled>>
      BY <2>8 DEF vars, turnVars, driverVars
    <3> QED BY <3>1, RestKeeps
  <2> QED BY <2>1, <2>2, <2>3, <2>4, <2>5, <2>6, <2>7, <2>8 DEF Next
<1> QED BY <1>1, <1>2, PTL DEF Spec

(* An interrupt never cancels a turn submitted after it.                   *)
THEOREM InterruptsFresh == Spec => []InterruptFresh
<1>1. OrderInv => InterruptFresh
  BY DEF OrderInv
<1> QED BY <1>1, OrderCorrect, PTL

-----------------------------------------------------------------------------
(* The invariant of the histories, the query and the session file.         *)

Events == [kind : {"error", "compacted", "usage", "result", "message"}, msgs : Seq(Kinds)]

EngineTypes ==
  /\ messages \in Seq(Kinds) /\ qmsgs \in Seq(Kinds) /\ loaded \in Seq(Kinds)
  /\ totalUsage \in Nat
  /\ session \in [ok : BOOLEAN, msgs : Seq(Kinds), usage : Nat]
  /\ events \in Seq(Events)

(* One turn at a time: the next is submitted when the events of the last   *)
(* are all taken.                                                          *)
InTurn == loop \in {"turn", "drain"}
TurnCommands == {i \in 1 .. Len(cmdCh) : cmdCh[i].kind = "turn"}
OneTurn ==
  /\ \A i, j \in TurnCommands : i = j
  /\ InTurn => TurnCommands = {}
  /\ InTurn \/ TurnCommands # {} => turnOpen
  /\ turnOpen => driver \in {"turn", "ask", "usage"}

(* SessionCurrent, from the start of the write on.                         *)
SessionInv ==
  driver = "write" \/ (driver = "read" /\ session.ok) =>
    IsPrefix(session.msgs, messages) /\ session.usage <= totalUsage

(* What the query goroutine hands over, by where it goes on.               *)
Handed ==
  \/ events = <<>>
  \/ query = "llm" /\ events = <<QueryEvent("compacted", qmsgs)>>
  \/ query = "top" /\ events \in
       {<<QueryEvent("usage", <<"text">>), QueryEvent("message", <<"user">>)>>,
        <<QueryEvent("message", <<"user">>)>>, <<QueryEvent("message", <<"results">>)>>}
  \/ query = "tools" /\ events = <<QueryEvent("usage", <<"tools">>)>>
  \/ query = "done" /\ events \in
       {Ends("error"), Ends("result"),
        <<QueryEvent("usage", <<"text">>), QueryEvent("result", <<>>)>>,
        <<QueryEvent("message", <<"results">>), QueryEvent("error", <<>>)>>}
QueryRuns == Handed /\ (query # "none" => InTurn) /\ (query = "none" => events = <<>>)

(* The engine has the tool calls of the query, and not their results.      *)
Awaited ==
  \/ query = "tools" /\ events = <<>>
  \/ events # <<>> /\ Head(events) = QueryEvent("message", <<"results">>)

(* Only notes follow message i; they follow tool calls; a note comes next. *)
Notes(s, i) == \A k \in (i + 1) .. Len(s) : s[k] = "note"
Open(s) == \E i \in 1 .. Len(s) : s[i] = "tools" /\ Notes(s, i)
Hidden(s, i) == i < Len(s) /\ s[i + 1] = "note"

(* The process was started with tool calls without results.                *)
Legacy == Unanswered(loaded, Skipped) # {}

(* A boundary comes first, no results lack their tool calls, and tool      *)
(* calls without results come last or before a note.                       *)
Leads(s) == \A i \in 2 .. Len(s) : s[i] # "boundary"
Sound(s) ==
  /\ Leads(s) /\ Unasked(s, Skipped) = {}
  /\ \A i \in Unanswered(s, Skipped) : i = Len(s) \/ Hidden(s, i)
Stopped == closed /\ cmdCh = <<>>

(* Between turns only a loop about to exit may leave tool calls behind     *)
(* that were not loaded; in a turn the query's history lacks the results   *)
(* it is about to add, and the engine's those it is about to be handed.    *)
PairInv ==
  /\ Sound(messages) /\ Sound(session.msgs)
  /\ loop = "drain" => Stopped
  /\ loop = "idle" /\ ~Stopped /\ Unanswered(messages, Skipped) # {} => Legacy
  /\ InTurn =>
       /\ Leads(qmsgs) /\ Unasked(qmsgs, Skipped) = {}
       /\ \A i \in Unanswered(qmsgs, Skipped) :
            (Legacy /\ Hidden(qmsgs, i)) \/ (query = "tools" /\ i = Len(qmsgs))
       /\ query = "tools" => Last0(qmsgs) = "tools"
  /\ loop = "turn" =>
       /\ \A i \in Unanswered(messages, Skipped) :
            (Legacy /\ Hidden(messages, i)) \/ (Awaited /\ Notes(messages, i))
       /\ Awaited => Open(messages)

EngineInv == EngineTypes /\ OneTurn /\ SessionInv /\ QueryRuns /\ PairInv /\ HistoryAgrees
-----------------------------------------------------------------------------
(* Induction over the natural numbers up to n, as a fact about sets.       *)

LEMMA Least ==
  ASSUME NEW T, T \subseteq Nat, T # {}
  PROVE  \E x \in T : \A y \in T : x <= y
<1> DEFINE R == {ss \in Nat \X Nat : ss[1] < ss[2]}
<1>1. IsWellFoundedOn(R, Nat)
  BY NatLessThanWellFounded DEF OpToRel
<1>2. PICK x \in T : \A y \in T : ~ (<<y, x>> \in R)
  BY <1>1, WFMin
<1>3. ASSUME NEW y \in T PROVE x <= y
  <2>1. ~ (<<y, x>> \in R)
    BY <1>2
  <2> QED BY <2>1
<1> QED BY <1>3

LEMMA Induct ==
  ASSUME NEW n \in Nat, NEW T, 0 \in T, \A i \in 1 .. n : i - 1 \in T => i \in T
  PROVE  \A i \in 0 .. n : i \in T
<1> DEFINE Bad == {i \in 0 .. n : i \notin T}
<1>1. Bad \subseteq Nat
  OBVIOUS
<1>2. SUFFICES ASSUME Bad # {} PROVE FALSE
  OBVIOUS
<1>3. PICK i \in Bad : \A j \in Bad : i <= j
  <2> HIDE DEF Bad
  <2> QED BY <1>1, <1>2, Least
<1>4. i \in 1 .. n /\ i - 1 \in 0 .. n /\ i \notin T
  BY <1>3
<1>5. i - 1 \notin Bad
  BY <1>1, <1>3, <1>4
<1> QED BY <1>4, <1>5

(* A function defined by recursion over 0 .. n exists.                     *)
Recurs(f, n, b, G) == f[0] = b /\ \A i \in 1 .. n : f[i] = G[<<f[i - 1], i>>]

LEMMA Recursion ==
  ASSUME NEW S, NEW b \in S, NEW n \in Nat, NEW G \in [S \X (1 .. n) -> S]
  PROVE  \E f \in [0 .. n -> S] : Recurs(f, n, b, G)
<1> DEFINE T == {m \in 0 .. n : \E f \in [0 .. m -> S] : Recurs(f, m, b, G)}
<1>1. 0 \in T
  <2>1. 0 \in 0 .. n
    OBVIOUS
  <2>2. PICK f : f = [i \in 0 .. 0 |-> b]
    OBVIOUS
  <2>3. f \in [0 .. 0 -> S] /\ Recurs(f, 0, b, G)
    BY <2>2 DEF Recurs
  <2> QED BY <2>1, <2>3, Zenon
<1>2. ASSUME NEW m \in 1 .. n, m - 1 \in T
      PROVE  m \in T
  <2>1. PICK f \in [0 .. m - 1 -> S] : Recurs(f, m - 1, b, G)
    BY <1>2
  <2> DEFINE g == [i \in 0 .. m |-> IF i = m THEN G[<<f[m - 1], m>>] ELSE f[i]]
  <2>2. m - 1 \in 0 .. m - 1 /\ f[m - 1] \in S
    OBVIOUS
  <2>3. <<f[m - 1], m>> \in S \X (1 .. n)
    BY <2>2
  <2>4. g \in [0 .. m -> S]
    <3>1. ASSUME NEW i \in 0 .. m
          PROVE  (IF i = m THEN G[<<f[m - 1], m>>] ELSE f[i]) \in S
      <4>1. CASE i = m
        BY <2>3, <4>1
      <4>2. CASE i # m
        BY <4>2
      <4> QED BY <4>1, <4>2
    <3> QED BY <3>1
  <2>5. g[0] = b
    BY <2>1 DEF Recurs
  <2>6. ASSUME NEW i \in 1 .. m
        PROVE  g[i] = G[<<g[i - 1], i>>]
    <3>1. CASE i = m
      <4>1. g[m] = G[<<f[m - 1], m>>]
        OBVIOUS
      <4>2. g[m - 1] = f[m - 1]
        OBVIOUS
      <4> QED BY <3>1, <4>1, <4>2
    <3>2. CASE i # m
      <4>1. i \in 1 .. m - 1 /\ i - 1 \in 0 .. m - 1
        BY <3>2
      <4>2. g[i] = f[i] /\ g[i - 1] = f[i - 1]
        BY <4>1
      <4> QED BY <2>1, <4>1, <4>2 DEF Recurs
    <3> QED BY <3>1, <3>2
  <2> HIDE DEF g
  <2>7. Recurs(g, m, b, G)
    BY <2>5, <2>6 DEF Recurs
  <2> QED BY <2>4, <2>7
<1> HIDE DEF T
<1>3. n \in T
  BY <1>1, <1>2, Induct
<1> QED BY <1>3 DEF T

-----------------------------------------------------------------------------
(* What Without computes.                                                  *)

KeptBy(f, s, drop) ==
  f = [i \in 0 .. Len(s) |->
         IF i = 0 THEN <<>>
         ELSE IF s[i] \in drop THEN f[i - 1] ELSE Append(f[i - 1], s[i])]

LEMMA KeptExists ==
  ASSUME NEW K, NEW s \in Seq(K), NEW drop
  PROVE  \E f \in [0 .. Len(s) -> Seq(K)] : KeptBy(f, s, drop)
<1> DEFINE G == [p \in Seq(K) \X (1 .. Len(s)) |->
                   IF s[p[2]] \in drop THEN p[1] ELSE Append(p[1], s[p[2]])]
<1>1. G \in [Seq(K) \X (1 .. Len(s)) -> Seq(K)]
  OBVIOUS
<1>2. PICK f \in [0 .. Len(s) -> Seq(K)] :
        f[0] = <<>> /\ \A i \in 1 .. Len(s) : f[i] = G[<<f[i - 1], i>>]
  <2>1. PICK SK, n, b : SK = Seq(K) /\ n = Len(s) /\ b = <<>>
    OBVIOUS
  <2>2. b \in SK /\ n \in Nat /\ G \in [SK \X (1 .. n) -> SK]
    BY <1>1, <2>1
  <2> HIDE DEF G
  <2>3. \E f \in [0 .. n -> SK] : Recurs(f, n, b, G)
    BY <2>2, Recursion
  <2> QED BY <2>1, <2>3 DEF Recurs
<1>3. ASSUME NEW i \in 1 .. Len(s)
      PROVE  f[i] = IF s[i] \in drop THEN f[i - 1] ELSE Append(f[i - 1], s[i])
  <2>1. i - 1 \in 0 .. Len(s) /\ f[i - 1] \in Seq(K)
    OBVIOUS
  <2> QED BY <1>2, <2>1
<1>4. f = [i \in 0 .. Len(s) |->
             IF i = 0 THEN <<>>
             ELSE IF s[i] \in drop THEN f[i - 1] ELSE Append(f[i - 1], s[i])]
  <2>1. ASSUME NEW i \in 0 .. Len(s)
        PROVE  f[i] = IF i = 0 THEN <<>>
                      ELSE IF s[i] \in drop THEN f[i - 1] ELSE Append(f[i - 1], s[i])
    <3>1. CASE i = 0
      BY <1>2, <3>1
    <3>2. CASE i \in 1 .. Len(s)
      <4>1. i # 0
        BY <3>2
      <4> QED BY <1>3, <3>2, <4>1, Zenon
    <3> QED BY <3>1, <3>2
  <2>2. f = [i \in 0 .. Len(s) |-> f[i]]
    OBVIOUS
  <2> QED BY <2>1, <2>2
<1> QED BY <1>4 DEF KeptBy

LEMMA KeptSteps ==
  ASSUME NEW K, NEW s \in Seq(K), NEW drop, NEW f, KeptBy(f, s, drop)
  PROVE  /\ f[0] = <<>>
         /\ \A i \in 1 .. Len(s) :
              f[i] = IF s[i] \in drop THEN f[i - 1] ELSE Append(f[i - 1], s[i])
<1>1. \A i \in 0 .. Len(s) :
        f[i] = IF i = 0 THEN <<>>
               ELSE IF s[i] \in drop THEN f[i - 1] ELSE Append(f[i - 1], s[i])
  BY DEF KeptBy
<1> QED BY <1>1

LEMMA KeptUnique ==
  ASSUME NEW K, NEW s \in Seq(K), NEW drop, NEW f, NEW g, KeptBy(f, s, drop), KeptBy(g, s, drop)
  PROVE  f[Len(s)] = g[Len(s)]
<1> DEFINE T == {i \in 0 .. Len(s) : f[i] = g[i]}
<1>5. /\ f[0] = <<>> /\ g[0] = <<>>
      /\ \A i \in 1 .. Len(s) :
           /\ f[i] = IF s[i] \in drop THEN f[i - 1] ELSE Append(f[i - 1], s[i])
           /\ g[i] = IF s[i] \in drop THEN g[i - 1] ELSE Append(g[i - 1], s[i])
  <2>1. f[0] = <<>> /\ g[0] = <<>>
    BY KeptSteps
  <2>2. \A i \in 1 .. Len(s) :
          f[i] = IF s[i] \in drop THEN f[i - 1] ELSE Append(f[i - 1], s[i])
    BY KeptSteps
  <2>3. \A i \in 1 .. Len(s) :
          g[i] = IF s[i] \in drop THEN g[i - 1] ELSE Append(g[i - 1], s[i])
    BY KeptSteps
  <2> QED BY <2>1, <2>2, <2>3
<1>1. 0 \in T
  BY <1>5
<1>2. ASSUME NEW i \in 1 .. Len(s), i - 1 \in T
      PROVE  i \in T
  <2>1. f[i - 1] = g[i - 1]
    BY <1>2
  <2>2. f[i] = g[i]
    BY <1>5, <2>1, Zenon
  <2> QED BY <2>2
<1>3. PICK n \in Nat : n = Len(s)
  OBVIOUS
<1> HIDE DEF T
<1>4. n \in T
  <2>1. \A i \in 1 .. n : i - 1 \in T => i \in T
    BY <1>2, <1>3
  <2>2. n \in 0 .. n
    OBVIOUS
  <2> QED BY <1>1, <2>1, <2>2, Induct
<1> QED BY <1>3, <1>4 DEF T

LEMMA WithoutIs ==
  ASSUME NEW K, NEW s \in Seq(K), NEW drop, NEW f, KeptBy(f, s, drop)
  PROVE  Without(s, drop) = f[Len(s)]
<1> DEFINE g == CHOOSE g : KeptBy(g, s, drop)
<1>1. KeptBy(g, s, drop)
  OBVIOUS
<1>2. Without(s, drop) = g[Len(s)]
  BY DEF Without, KeptBy
<1> HIDE DEF g
<1> QED BY <1>1, <1>2, KeptUnique

(* It goes through a sequence from its first message to its last.          *)
LEMMA WithoutAppend ==
  ASSUME NEW K, NEW s \in Seq(K), NEW x \in K, NEW drop
  PROVE  Without(Append(s, x), drop) =
           IF x \in drop THEN Without(s, drop) ELSE Append(Without(s, drop), x)
<1>1. PICK t \in Seq(K) : t = Append(s, x)
  <2>1. Append(s, x) \in Seq(K)
    OBVIOUS
  <2> QED BY <2>1
<1>2. PICK n \in Nat : n = Len(s)
  OBVIOUS
<1>3. Len(t) = n + 1 /\ t[n + 1] = x /\ \A i \in 1 .. n : t[i] = s[i]
  BY <1>1, <1>2
<1>4. PICK f : KeptBy(f, t, drop)
  BY KeptExists
<1>5. /\ f[0] = <<>>
      /\ \A i \in 1 .. n + 1 : f[i] = IF t[i] \in drop THEN f[i - 1] ELSE Append(f[i - 1], t[i])
  BY <1>3, <1>4, KeptSteps
<1> DEFINE g == [i \in 0 .. n |-> f[i]]
<1>6. KeptBy(g, s, drop)
  <2>1. ASSUME NEW i \in 0 .. n
        PROVE  f[i] = IF i = 0 THEN <<>>
                      ELSE IF s[i] \in drop THEN g[i - 1] ELSE Append(g[i - 1], s[i])
    <3>1. CASE i = 0
      BY <1>5, <3>1
    <3>2. CASE i \in 1 .. n
      <4>1. i # 0 /\ i \in 1 .. n + 1 /\ i - 1 \in 0 .. n
        BY <3>2
      <4>2. g[i - 1] = f[i - 1] /\ t[i] = s[i]
        BY <1>3, <3>2, <4>1
      <4>3. f[i] = IF t[i] \in drop THEN f[i - 1] ELSE Append(f[i - 1], t[i])
        BY <1>5, <4>1
      <4> HIDE DEF g
      <4> QED BY <4>1, <4>2, <4>3, Zenon
    <3> QED BY <3>1, <3>2
  <2>2. g = [i \in 0 .. n |-> IF i = 0 THEN <<>>
                              ELSE IF s[i] \in drop THEN g[i - 1] ELSE Append(g[i - 1], s[i])]
    BY <2>1
  <2> QED BY <1>2, <2>2 DEF KeptBy
<1>7. Without(s, drop) = g[n]
  <2> HIDE DEF g
  <2> QED BY <1>2, <1>6, WithoutIs
<1>8. g[n] = f[n]
  OBVIOUS
<1>9. Without(t, drop) = f[n + 1]
  BY <1>3, <1>4, WithoutIs
<1>10. f[n + 1] = IF x \in drop THEN f[n] ELSE Append(f[n], x)
  BY <1>3, <1>5
<1> QED BY <1>1, <1>7, <1>8, <1>9, <1>10

(* When there is nothing to drop, or the first message only.               *)
LEMMA EmptySlice ==
  ASSUME NEW K, NEW s \in Seq(K), NEW i \in Nat, i >= 1
  PROVE  SubSeq(s, i, i - 1) = <<>>
OBVIOUS

LEMMA WithoutNone ==
  ASSUME NEW K, NEW s \in Seq(K), NEW drop, \A i \in 1 .. Len(s) : s[i] \notin drop
  PROVE  Without(s, drop) = s
<1>1. PICK f : KeptBy(f, s, drop)
  BY KeptExists
<1>2. /\ f[0] = <<>>
      /\ \A i \in 1 .. Len(s) : f[i] = Append(f[i - 1], s[i])
  <2>1. /\ f[0] = <<>>
        /\ \A i \in 1 .. Len(s) :
             f[i] = IF s[i] \in drop THEN f[i - 1] ELSE Append(f[i - 1], s[i])
    BY <1>1, KeptSteps
  <2> QED BY <2>1
<1>3. PICK n \in Nat : n = Len(s)
  OBVIOUS
<1> DEFINE T == {i \in 0 .. n : f[i] = SubSeq(s, 1, i)}
<1>4. 0 \in T
  <2>1. SubSeq(s, 1, 1 - 1) = <<>> /\ 1 - 1 = 0
    BY EmptySlice
  <2>2. f[0] = SubSeq(s, 1, 0) /\ 0 \in 0 .. n
    BY <1>2, <2>1
  <2> QED BY <2>2, Zenon
<1>5. ASSUME NEW i \in 1 .. n, i - 1 \in T
      PROVE  i \in T
  <2>1. f[i] = Append(SubSeq(s, 1, i - 1), s[i])
    BY <1>2, <1>3, <1>5
  <2>2. SubSeq(s, 1, i) = Append(SubSeq(s, 1, i - 1), s[i])
    BY <1>3
  <2> QED BY <2>1, <2>2
<1> HIDE DEF T
<1>6. n \in T
  <2>1. \A i \in 1 .. n : i - 1 \in T => i \in T
    BY <1>5
  <2>2. n \in 0 .. n
    OBVIOUS
  <2> QED BY <1>4, <2>1, <2>2, Induct
<1>7. f[n] = SubSeq(s, 1, n)
  BY <1>6 DEF T
<1>8. SubSeq(s, 1, n) = s
  BY <1>3
<1> QED BY <1>1, <1>3, <1>7, <1>8, WithoutIs

LEMMA WithoutFirst ==
  ASSUME NEW K, NEW s \in Seq(K), NEW drop, s # <<>>, s[1] \in drop,
         \A i \in 2 .. Len(s) : s[i] \notin drop
  PROVE  Without(s, drop) = SubSeq(s, 2, Len(s))
<1>1. PICK f : KeptBy(f, s, drop)
  BY KeptExists
<1>2. f[0] = <<>> /\ f[1] = f[0] /\ \A i \in 2 .. Len(s) : f[i] = Append(f[i - 1], s[i])
  <2>1. 1 \in 1 .. Len(s) /\ \A i \in 2 .. Len(s) : i \in 1 .. Len(s)
    OBVIOUS
  <2>2. /\ f[0] = <<>>
        /\ \A i \in 1 .. Len(s) :
             f[i] = IF s[i] \in drop THEN f[i - 1] ELSE Append(f[i - 1], s[i])
    BY <1>1, KeptSteps
  <2>3. f[1] = f[1 - 1] /\ 1 - 1 = 0
    BY <2>1, <2>2
  <2> QED BY <2>1, <2>2, <2>3
<1>3. PICK n \in Nat : n = Len(s) - 1
  OBVIOUS
<1> DEFINE T == {i \in 0 .. n : f[i + 1] = SubSeq(s, 2, i + 1)}
<1>4. 0 \in T
  <2>1. SubSeq(s, 2, 2 - 1) = <<>> /\ 0 + 1 = 1 /\ 2 - 1 = 1
    BY EmptySlice
  <2>2. f[1] = SubSeq(s, 2, 1)
    BY <1>2, <2>1, Zenon
  <2>3. f[0 + 1] = SubSeq(s, 2, 0 + 1)
    BY <2>1, <2>2, Zenon
  <2>4. 0 \in 0 .. n
    OBVIOUS
  <2> QED BY <2>3, <2>4, Zenon
<1>5. ASSUME NEW i \in 1 .. n, i - 1 \in T
      PROVE  i \in T
  <2>1. i \in 0 .. n /\ i + 1 \in 2 .. Len(s) /\ (i - 1) + 1 = i /\ (i + 1) - 1 = i
    BY <1>3
  <2>2. f[i] = SubSeq(s, 2, i)
    BY <1>5, <2>1
  <2>3. f[i + 1] = Append(f[i], s[i + 1])
    BY <1>2, <2>1
  <2>4. SubSeq(s, 2, i + 1) = Append(SubSeq(s, 2, i), s[i + 1])
    BY <2>1
  <2>5. f[i + 1] = SubSeq(s, 2, i + 1)
    BY <2>2, <2>3, <2>4
  <2> QED BY <2>1, <2>5, Zenon
<1> HIDE DEF T
<1>6. n \in T
  <2>1. \A i \in 1 .. n : i - 1 \in T => i \in T
    BY <1>5
  <2>2. n \in 0 .. n
    OBVIOUS
  <2> QED BY <1>4, <2>1, <2>2, Induct
<1>7. f[n + 1] = SubSeq(s, 2, n + 1) /\ n + 1 = Len(s)
  BY <1>3, <1>6 DEF T
<1> QED BY <1>1, <1>7, WithoutIs

LEMMA WithoutType ==
  ASSUME NEW K, NEW s \in Seq(K), NEW drop
  PROVE  Without(s, drop) \in Seq(K)
<1>1. PICK f \in [0 .. Len(s) -> Seq(K)] : KeptBy(f, s, drop)
  BY KeptExists
<1>2. Without(s, drop) = f[Len(s)] /\ Len(s) \in 0 .. Len(s)
  BY <1>1, WithoutIs
<1> QED BY <1>2

-----------------------------------------------------------------------------
(* Pairing of tool calls and results, as messages are added.               *)

(* What is added is neither results nor, for the second part, tool calls.  *)
LEMMA PairsAppend ==
  ASSUME NEW s \in Seq(Kinds), NEW x \in Kinds
  PROVE  /\ (x # "results" /\ Unasked(s, Skipped) = {}) => Unasked(Append(s, x), Skipped) = {}
         /\ \A i \in Unanswered(Append(s, x), Skipped) :
              i \in Unanswered(s, Skipped) \/ (x = "tools" /\ i = Len(s) + 1)
         /\ \A i \in Unanswered(s, Skipped) :
              /\ i \in 1 .. Len(s)
              /\ (i = Len(s) /\ x = "note") \/ Hidden(s, i) => Hidden(Append(s, x), i)
<1>1. PICK t : t = Append(s, x)
  OBVIOUS
<1>2. Len(t) = Len(s) + 1 /\ t[Len(s) + 1] = x /\ (\A i \in 1 .. Len(s) : t[i] = s[i])
      /\ DOMAIN t = 1 .. Len(s) + 1 /\ DOMAIN s = 1 .. Len(s) /\ Len(s) \in Nat
  BY <1>1
<1>3. ASSUME x # "results", Unasked(s, Skipped) = {}, NEW j \in Unasked(t, Skipped)
      PROVE  FALSE
  <2>1. j \in 1 .. Len(s) /\ s[j] = "results"
    BY <1>2, <1>3 DEF Unasked
  <2>2. PICK i \in 1 .. Len(s) : Adjacent(s, i, j, Skipped) /\ s[i] = "tools"
    BY <1>2, <1>3, <2>1 DEF Unasked
  <2>3. Adjacent(t, i, j, Skipped) /\ t[i] = "tools"
    BY <1>2, <2>1, <2>2 DEF Adjacent
  <2> QED BY <1>2, <1>3, <2>2, <2>3 DEF Unasked
<1>4. ASSUME NEW i \in Unanswered(t, Skipped), i # Len(s) + 1
      PROVE  i \in Unanswered(s, Skipped)
  <2>1. i \in 1 .. Len(s) /\ s[i] = "tools"
    BY <1>2, <1>4 DEF Unanswered
  <2>2. ASSUME NEW j \in 1 .. Len(s), Adjacent(s, i, j, Skipped), s[j] = "results"
        PROVE  FALSE
    <3>1. Adjacent(t, i, j, Skipped) /\ t[j] = "results"
      BY <1>2, <2>1, <2>2 DEF Adjacent
    <3> QED BY <1>2, <1>4, <2>2, <3>1 DEF Unanswered
  <2> QED BY <1>2, <2>1, <2>2 DEF Unanswered
<1>5. ASSUME NEW i \in Unanswered(t, Skipped), i = Len(s) + 1
      PROVE  x = "tools"
  BY <1>2, <1>5 DEF Unanswered
<1>6. ASSUME NEW i \in Unanswered(s, Skipped)
      PROVE  /\ i \in 1 .. Len(s)
             /\ (i = Len(s) /\ x = "note") \/ Hidden(s, i) => Hidden(t, i)
  <2>1. i \in 1 .. Len(s)
    BY <1>2 DEF Unanswered
  <2>2. CASE i = Len(s) /\ x = "note"
    BY <1>2, <2>1, <2>2 DEF Hidden
  <2>3. CASE Hidden(s, i)
    BY <1>2, <2>1, <2>3 DEF Hidden
  <2> QED BY <2>1, <2>2, <2>3
<1> QED BY <1>1, <1>3, <1>4, <1>5, <1>6

LEMMA LeadsAppend ==
  ASSUME NEW s \in Seq(Kinds), NEW x \in Kinds, x # "boundary", Leads(s)
  PROVE  Leads(Append(s, x))
<1>1. PICK t : t = Append(s, x)
  OBVIOUS
<1>2. Len(t) = Len(s) + 1 /\ t[Len(s) + 1] = x /\ \A i \in 1 .. Len(s) : t[i] = s[i]
  BY <1>1
<1> QED BY <1>1, <1>2 DEF Leads

(* Results answer the tool calls that only notes follow.                   *)
LEMMA ResultsAppend ==
  ASSUME NEW s \in Seq(Kinds), Unasked(s, Skipped) = {}, Open(s)
  PROVE  /\ Unasked(Append(s, "results"), Skipped) = {}
         /\ \A i \in Unanswered(Append(s, "results"), Skipped) : ~Notes(s, i)
<1>1. PICK t : t = Append(s, "results")
  OBVIOUS
<1>2. Len(t) = Len(s) + 1 /\ t[Len(s) + 1] = "results" /\ (\A i \in 1 .. Len(s) : t[i] = s[i])
      /\ DOMAIN t = 1 .. Len(s) + 1 /\ DOMAIN s = 1 .. Len(s) /\ Len(s) \in Nat
  BY <1>1
<1>3. ASSUME NEW i \in 1 .. Len(s), Notes(s, i)
      PROVE  Adjacent(t, i, Len(s) + 1, Skipped)
  BY <1>2, <1>3 DEF Notes, Adjacent, Skipped, Silent
<1>4. ASSUME NEW j \in Unasked(t, Skipped)
      PROVE  FALSE
  <2>1. CASE j = Len(s) + 1
    <3>1. PICK i \in 1 .. Len(s) : s[i] = "tools" /\ Notes(s, i)
      BY DEF Open
    <3>2. t[i] = "tools" /\ i \in 1 .. Len(s) + 1
      BY <1>2, <3>1
    <3> QED BY <1>2, <1>3, <1>4, <2>1, <3>1, <3>2 DEF Unasked
  <2>2. CASE j # Len(s) + 1
    <3>1. j \in 1 .. Len(s) /\ s[j] = "results"
      BY <1>2, <1>4, <2>2 DEF Unasked
    <3>2. PICK i \in 1 .. Len(s) : Adjacent(s, i, j, Skipped) /\ s[i] = "tools"
      BY <1>2, <3>1 DEF Unasked
    <3>3. Adjacent(t, i, j, Skipped) /\ t[i] = "tools"
      BY <1>2, <3>1, <3>2 DEF Adjacent
    <3> QED BY <1>2, <1>4, <3>2, <3>3 DEF Unasked
  <2> QED BY <2>1, <2>2
<1>5. ASSUME NEW i \in Unanswered(t, Skipped), Notes(s, i)
      PROVE  FALSE
  <2>1. i \in 1 .. Len(s)
    BY <1>2, <1>5 DEF Unanswered
  <2>2. Adjacent(t, i, Len(s) + 1, Skipped)
    BY <1>3, <1>5, <2>1
  <2> QED BY <1>2, <1>5, <2>2 DEF Unanswered
<1> QED BY <1>1, <1>4, <1>5

(* Memories go before a last message that is not the model's.              *)
LEMMA InjectedPairs ==
  ASSUME NEW s \in Seq(Kinds), s # <<>>, Last0(s) \in FromUser, Leads(s),
         Unasked(s, Skipped) = {}
  PROVE  LET t == injectRelevantMemories(s) IN
         /\ t \in Seq(Kinds) /\ Leads(t) /\ Unasked(t, Skipped) = {}
         /\ \A i \in Unanswered(t, Skipped) :
              i \in Unanswered(s, Skipped) /\ (Hidden(s, i) => Hidden(t, i))
<1>1. PICK n \in Nat : n = Len(s) /\ n >= 1
  OBVIOUS
<1>2. PICK t : t = injectRelevantMemories(s)
  OBVIOUS
<1>3. Last0(s) = s[n] /\ s[n] \in FromUser /\ s[n] \in Kinds
  BY <1>1 DEF Last0
<1>4. t = SubSeq(s, 1, n - 1) \o <<"memory">> \o <<s[n]>>
  BY <1>1, <1>2, <1>3 DEF injectRelevantMemories
<1>5. "memory" \in Kinds
  BY DEF Kinds, FromUser
<1>6. PICK h \in Seq(Kinds) : h = SubSeq(s, 1, n - 1)
  <2>1. SubSeq(s, 1, n - 1) \in Seq(Kinds)
    BY <1>1
  <2> QED BY <2>1
<1>7. Len(h) = n - 1 /\ \A i \in 1 .. n - 1 : h[i] = s[i]
  BY <1>1, <1>6
<1>8. t = Append(Append(h, "memory"), s[n])
  BY <1>3, <1>4, <1>5, <1>6
<1>9. /\ t \in Seq(Kinds) /\ Len(t) = n + 1 /\ t[n] = "memory" /\ t[n + 1] = s[n]
      /\ \A i \in 1 .. n - 1 : t[i] = s[i]
  <2>1. PICK u \in Seq(Kinds) : u = Append(h, "memory")
    <3>1. Append(h, "memory") \in Seq(Kinds)
      BY <1>5
    <3> QED BY <3>1
  <2>2. Len(u) = n /\ u[n] = "memory" /\ \A i \in 1 .. n - 1 : u[i] = s[i]
    BY <1>5, <1>7, <2>1
  <2>3. t = Append(u, s[n])
    BY <1>8, <2>1
  <2> QED BY <1>1, <1>3, <2>2, <2>3
<1>10. DOMAIN t = 1 .. n + 1 /\ DOMAIN s = 1 .. n
  BY <1>1, <1>9
<1>11. "memory" # "tools" /\ "memory" # "results" /\ s[n] # "tools" /\ s[n] # "boundary"
       /\ s[n] # "note" /\ "memory" \in Skipped
  BY <1>3 DEF FromUser, Skipped
<1>12. Leads(t)
  <2>1. ASSUME NEW i \in 2 .. n + 1 PROVE t[i] # "boundary"
    <3>1. CASE i \in 1 .. n - 1
      BY <1>1, <1>9, <3>1 DEF Leads
    <3>2. CASE i = n
      BY <1>9, <3>2
    <3>3. CASE i = n + 1
      BY <1>9, <1>11, <3>3
    <3> QED BY <3>1, <3>2, <3>3
  <2> QED BY <1>9, <2>1 DEF Leads
<1>13. ASSUME NEW i \in 1 .. n - 1, NEW j \in 1 .. n, Adjacent(s, i, j, Skipped)
       PROVE  Adjacent(t, i, IF j = n THEN n + 1 ELSE j, Skipped)
  <2>1. CASE j = n
    <3>1. ASSUME NEW k \in (i + 1) .. n PROVE t[k] \in Skipped
      <4>1. CASE k = n
        BY <1>9, <1>11, <4>1
      <4>2. CASE k # n
        BY <1>9, <1>13, <2>1, <4>2 DEF Adjacent
      <4> QED BY <4>1, <4>2
    <3> QED BY <2>1, <3>1 DEF Adjacent
  <2>2. CASE j # n
    BY <1>9, <1>13, <2>2 DEF Adjacent
  <2> QED BY <2>1, <2>2
<1>14. ASSUME NEW j \in Unasked(t, Skipped)
       PROVE  FALSE
  <2>1. j \in 1 .. n + 1 /\ t[j] = "results" /\ j # n
    BY <1>9, <1>10, <1>11 DEF Unasked
  <2>2. PICK m : m = IF j = n + 1 THEN n ELSE j
    OBVIOUS
  <2>3. m \in 1 .. n /\ s[m] = "results" /\ j = IF m = n THEN n + 1 ELSE m
    BY <1>1, <1>9, <2>1, <2>2
  <2>4. PICK i \in 1 .. n : Adjacent(s, i, m, Skipped) /\ s[i] = "tools"
    BY <1>10, <2>3 DEF Unasked
  <2>5. i \in 1 .. n - 1
    BY <1>11, <2>4
  <2>6. Adjacent(t, i, j, Skipped)
    BY <1>13, <2>3, <2>4, <2>5
  <2>7. t[i] = "tools" /\ i \in 1 .. n + 1
    BY <1>9, <2>4, <2>5
  <2> QED BY <1>10, <1>14, <2>6, <2>7 DEF Unasked
<1>15. ASSUME NEW i \in Unanswered(t, Skipped)
       PROVE  i \in Unanswered(s, Skipped) /\ (Hidden(s, i) => Hidden(t, i))
  <2>1. i \in 1 .. n + 1 /\ t[i] = "tools"
    BY <1>10 DEF Unanswered
  <2>2. i \in 1 .. n - 1 /\ s[i] = "tools"
    BY <1>9, <1>11, <2>1
  <2>3. ASSUME NEW j \in 1 .. n, Adjacent(s, i, j, Skipped), s[j] = "results"
        PROVE  FALSE
    <3>1. PICK m : m = IF j = n THEN n + 1 ELSE j
      OBVIOUS
    <3>2. m \in 1 .. n + 1 /\ t[m] = "results"
      BY <1>9, <2>3, <3>1
    <3>3. Adjacent(t, i, m, Skipped)
      BY <1>13, <2>2, <2>3, <3>1
    <3> QED BY <1>10, <1>15, <3>2, <3>3 DEF Unanswered
  <2>4. i \in Unanswered(s, Skipped)
    BY <1>10, <2>2, <2>3 DEF Unanswered
  <2>5. Hidden(s, i) => Hidden(t, i)
    BY <1>1, <1>9, <1>11, <2>2 DEF Hidden
  <2> QED BY <2>4, <2>5
<1> QED BY <1>2, <1>9, <1>12, <1>14, <1>15

(* Compaction: a boundary, a summary and a tail without boundary.          *)
LEMMA TailIsSlice ==
  ASSUME NEW s \in Seq(Kinds), Leads(s), NEW k \in Tails(s)
  PROVE  \E m \in Tails(s) :
           /\ Compacted(s, k) = <<"boundary", "user">> \o SubSeq(s, m, Len(s))
           /\ \A i \in m .. Len(s) : s[i] # "boundary"
<1>1. k \in 1 .. Len(s) + 1 /\ Len(s) \in Nat
  BY DEF Tails
<1>2. PICK u \in Seq(Kinds) : u = SubSeq(s, k, Len(s))
  <2>1. SubSeq(s, k, Len(s)) \in Seq(Kinds)
    BY <1>1
  <2> QED BY <2>1
<1>3. Len(u) = Len(s) + 1 - k /\ \A i \in 1 .. Len(u) : u[i] = s[i + k - 1]
  BY <1>1, <1>2
<1>4. CASE k = 1 /\ s # <<>> /\ s[1] = "boundary"
  <2>1. u = s
    BY <1>2, <1>4
  <2>2. Without(u, {"boundary"}) = SubSeq(s, 2, Len(s))
    BY <1>4, <2>1, WithoutFirst DEF Leads
  <2>3. 2 \in Tails(s)
    <3>1. 2 \in 1 .. Len(s) + 1
      BY <1>4
    <3>2. ASSUME NEW i \in 2 .. Len(s), s[i] = "results"
          PROVE  \E j \in 2 .. (i - 1) : s[j] = "tools"
      <4>1. PICK j \in 1 .. (i - 1) : s[j] = "tools"
        BY <1>4, <3>2 DEF Tails
      <4>2. j # 1
        BY <1>4, <4>1
      <4>3. j \in 2 .. (i - 1)
        BY <4>1, <4>2
      <4> QED BY <4>1, <4>3
    <3> QED BY <3>1, <3>2 DEF Tails
  <2> QED BY <1>2, <2>2, <2>3 DEF Compacted, Leads
<1>5. CASE ~(k = 1 /\ s # <<>> /\ s[1] = "boundary")
  <2>1. \A i \in k .. Len(s) : s[i] # "boundary"
    BY <1>1, <1>5 DEF Leads
  <2>2. \A i \in 1 .. Len(u) : u[i] \notin {"boundary"}
    <3>1. ASSUME NEW i \in 1 .. Len(u) PROVE u[i] # "boundary"
      <4>1. i + k - 1 \in k .. Len(s)
        BY <1>1, <1>3
      <4> QED BY <1>3, <2>1, <4>1
    <3> QED BY <3>1
  <2>3. Without(u, {"boundary"}) = u
    BY <2>2, WithoutNone
  <2> QED BY <1>2, <2>1, <2>3 DEF Compacted
<1> QED BY <1>4, <1>5

LEMMA Joined ==
  ASSUME NEW K, NEW b \in Seq(K), NEW u \in Seq(K)
  PROVE  /\ b \o u \in Seq(K) /\ Len(b \o u) = Len(b) + Len(u)
         /\ \A i \in 1 .. Len(b) : (b \o u)[i] = b[i]
         /\ \A i \in 1 .. Len(u) : (b \o u)[Len(b) + i] = u[i]
OBVIOUS

LEMMA CompactedPairs ==
  ASSUME NEW s \in Seq(Kinds), Leads(s), Unasked(s, Skipped) = {}, NEW k \in Tails(s)
  PROVE  LET t == Compacted(s, k) IN
         /\ t \in Seq(Kinds) /\ Leads(t) /\ Unasked(t, Skipped) = {}
         /\ \A j \in Unanswered(t, Skipped) :
              \E i \in Unanswered(s, Skipped) :
                (Hidden(s, i) => Hidden(t, j)) /\ (i = Len(s) => j = Len(t))
<1>1. PICK m \in Tails(s) :
        /\ Compacted(s, k) = <<"boundary", "user">> \o SubSeq(s, m, Len(s))
        /\ \A i \in m .. Len(s) : s[i] # "boundary"
  BY TailIsSlice
<1>2. PICK t : t = Compacted(s, k)
  OBVIOUS
<1>3. PICK n \in Nat : n = Len(s)
  OBVIOUS
<1>4. m \in 1 .. n + 1
  BY <1>3 DEF Tails
<1>5. PICK u \in Seq(Kinds) : u = SubSeq(s, m, n)
  <2>1. SubSeq(s, m, n) \in Seq(Kinds)
    BY <1>3, <1>4
  <2> QED BY <2>1
<1>6. Len(u) = n + 1 - m /\ \A i \in 1 .. Len(u) : u[i] = s[i + m - 1]
  BY <1>3, <1>4, <1>5
<1>7. PICK b \in Seq(Kinds) : b = <<"boundary", "user">>
  <2>1. "boundary" \in Kinds /\ "user" \in Kinds
    BY DEF Kinds, FromUser, Silent
  <2>2. <<"boundary", "user">> \in Seq(Kinds)
    BY <2>1
  <2> QED BY <2>2
<1>8. Len(b) = 2 /\ b[1] = "boundary" /\ b[2] = "user"
  BY <1>7
<1>9. t = b \o u
  BY <1>1, <1>2, <1>3, <1>5, <1>7
<1>10. t \in Seq(Kinds) /\ Len(t) = n + 3 - m /\ t[1] = "boundary" /\ t[2] = "user"
  <2>1. t \in Seq(Kinds) /\ Len(t) = Len(b) + Len(u)
    BY <1>9, Joined
  <2>2. t[1] = b[1] /\ t[2] = b[2]
    <3>1. \A i \in 1 .. Len(b) : t[i] = b[i]
      BY <1>9, Joined
    <3>2. 1 \in 1 .. Len(b) /\ 2 \in 1 .. Len(b)
      BY <1>8
    <3> QED BY <3>1, <3>2, Zenon
  <2> QED BY <1>4, <1>6, <1>8, <2>1, <2>2
<1>11. \A j \in 3 .. n + 3 - m : t[j] = s[j + m - 3] /\ j + m - 3 \in m .. n
  <2>1. ASSUME NEW j \in 3 .. n + 3 - m
        PROVE  t[j] = s[j + m - 3] /\ j + m - 3 \in m .. n
    <3>1. j - 2 \in 1 .. Len(u)
      BY <1>4, <1>6
    <3>2. t[j] = u[j - 2]
      <4>1. t[Len(b) + (j - 2)] = u[j - 2]
        BY <1>9, <3>1, Joined
      <4>2. Len(b) + (j - 2) = j
        BY <1>8
      <4> QED BY <4>1, <4>2
    <3>3. u[j - 2] = s[(j - 2) + m - 1] /\ (j - 2) + m - 1 = j + m - 3
      BY <1>4, <1>6, <3>1
    <3> QED BY <1>4, <3>2, <3>3
  <2> QED BY <2>1
<1>12. \A i \in m .. n : i - m + 3 \in 3 .. n + 3 - m /\ t[i - m + 3] = s[i]
  <2>1. ASSUME NEW i \in m .. n
        PROVE  i - m + 3 \in 3 .. n + 3 - m /\ t[i - m + 3] = s[i]
    <3>1. PICK j : j = i - m + 3
      OBVIOUS
    <3>2. j \in 3 .. n + 3 - m /\ j + m - 3 = i
      BY <1>4, <3>1
    <3> QED BY <1>11, <3>1, <3>2
  <2> QED BY <2>1
<1>13. DOMAIN t = 1 .. n + 3 - m /\ DOMAIN s = 1 .. n
  BY <1>3, <1>10
<1>14. Leads(t)
  <2>1. ASSUME NEW j \in 2 .. n + 3 - m PROVE t[j] # "boundary"
    <3>1. CASE j = 2
      BY <1>10, <3>1
    <3>2. CASE j \in 3 .. n + 3 - m
      BY <1>1, <1>3, <1>11, <3>2
    <3> QED BY <3>1, <3>2
  <2> QED BY <1>10, <2>1 DEF Leads
<1>15. ASSUME NEW i \in m .. n, NEW j \in m .. n, Adjacent(s, i, j, Skipped)
       PROVE  Adjacent(t, i - m + 3, j - m + 3, Skipped)
  <2> DEFINE a == i - m + 3
             c == j - m + 3
  <2>1. ASSUME NEW q \in (a + 1) .. (c - 1)
        PROVE  t[q] \in Skipped
    <3>1. q + m - 3 \in (i + 1) .. (j - 1) /\ q \in 3 .. n + 3 - m
      BY <1>4, <2>1
    <3>2. t[q] = s[q + m - 3]
      BY <1>11, <3>1
    <3> QED BY <1>15, <3>1, <3>2 DEF Adjacent
  <2>2. a < c
    BY <1>4, <1>15 DEF Adjacent
  <2> HIDE DEF a, c
  <2>3. Adjacent(t, a, c, Skipped)
    BY <2>1, <2>2 DEF Adjacent
  <2> QED BY <2>3 DEF a, c
<1>16. ASSUME NEW j \in Unasked(t, Skipped)
       PROVE  FALSE
  <2>1. j \in 3 .. n + 3 - m /\ t[j] = "results"
    BY <1>10, <1>13 DEF Unasked
  <2>2. PICK p \in m .. n : p = j + m - 3 /\ s[p] = "results" /\ j = p - m + 3
    BY <1>4, <1>11, <2>1
  <2>3. PICK i \in 1 .. n : Adjacent(s, i, p, Skipped) /\ s[i] = "tools"
    BY <1>4, <1>13, <2>2 DEF Unasked
  <2>4. PICK q \in m .. (p - 1) : s[q] = "tools"
    BY <1>3, <2>2 DEF Tails
  <2>5. "tools" \notin Skipped
    BY DEF Skipped, Silent
  <2>6. i \in m .. n
    BY <1>4, <2>3, <2>4, <2>5 DEF Adjacent
  <2>7. Adjacent(t, i - m + 3, j, Skipped) /\ t[i - m + 3] = "tools"
    BY <1>12, <1>15, <2>2, <2>3, <2>6
  <2>8. i - m + 3 \in 1 .. n + 3 - m
    BY <1>12, <2>6
  <2> QED BY <1>13, <1>16, <2>7, <2>8 DEF Unasked
<1>17. ASSUME NEW j \in Unanswered(t, Skipped)
       PROVE  \E i \in Unanswered(s, Skipped) :
                /\ Hidden(s, i) => Hidden(t, j)
                /\ i = Len(s) => j = Len(t)
  <2>1. j \in 3 .. n + 3 - m /\ t[j] = "tools"
    BY <1>10, <1>13 DEF Unanswered
  <2>2. PICK i \in m .. n : i = j + m - 3 /\ s[i] = "tools" /\ j = i - m + 3
    BY <1>4, <1>11, <2>1
  <2>3. ASSUME NEW p \in 1 .. n, Adjacent(s, i, p, Skipped), s[p] = "results"
        PROVE  FALSE
    <3>1. p \in m .. n
      BY <1>4, <2>3 DEF Adjacent
    <3>2. Adjacent(t, j, p - m + 3, Skipped) /\ t[p - m + 3] = "results"
      BY <1>12, <1>15, <2>2, <2>3, <3>1
    <3>3. p - m + 3 \in 1 .. n + 3 - m
      BY <1>12, <3>1
    <3> QED BY <1>13, <1>17, <3>2, <3>3 DEF Unanswered
  <2>4. i \in Unanswered(s, Skipped)
    BY <1>4, <1>13, <2>2, <2>3 DEF Unanswered
  <2>5. Hidden(s, i) => Hidden(t, j)
    <3>1. SUFFICES ASSUME Hidden(s, i) PROVE Hidden(t, j)
      OBVIOUS
    <3>2. i + 1 \in m .. n /\ s[i + 1] = "note"
      BY <1>3, <1>4, <3>1 DEF Hidden
    <3>3. t[(i + 1) - m + 3] = "note" /\ (i + 1) - m + 3 = j + 1
      BY <1>4, <1>12, <2>2, <3>2
    <3> QED BY <1>4, <1>10, <2>2, <3>2, <3>3 DEF Hidden
  <2>6. i = Len(s) => j = Len(t)
    <3>1. i = n => j = n + 3 - m
      BY <1>4, <2>2
    <3> QED BY <1>3, <1>10, <3>1
  <2> QED BY <2>4, <2>5, <2>6
<1> QED BY <1>2, <1>10, <1>14, <1>16, <1>17

-----------------------------------------------------------------------------
(* The history once the events at hand are taken: none, one or two.        *)

CaughtUpBy(f, s, es) ==
  f = [i \in 0 .. Len(es) |-> IF i = 0 THEN s ELSE Extended(f[i - 1], es[i])]

LEMMA CaughtUpIs ==
  ASSUME NEW s, NEW es, NEW f, CaughtUpBy(f, s, es)
  PROVE  \E g : CaughtUpBy(g, s, es) /\ CaughtUp(s, es) = g[Len(es)]
<1> DEFINE g == CHOOSE g : CaughtUpBy(g, s, es)
<1>1. CaughtUpBy(g, s, es)
  OBVIOUS
<1>2. CaughtUp(s, es) = g[Len(es)]
  BY DEF CaughtUp, CaughtUpBy
<1> HIDE DEF g
<1> QED BY <1>1, <1>2

LEMMA CaughtUpNone ==
  ASSUME NEW s
  PROVE  CaughtUp(s, <<>>) = s
<1>1. PICK f : f = [i \in 0 .. 0 |-> s]
  OBVIOUS
<1>2. Len(<<>>) = 0
  OBVIOUS
<1>3. CaughtUpBy(f, s, <<>>)
  <2>1. \A i \in 0 .. 0 : s = IF i = 0 THEN s ELSE Extended(f[i - 1], <<>>[i])
    OBVIOUS
  <2> QED BY <1>1, <1>2, <2>1 DEF CaughtUpBy
<1>4. PICK g : CaughtUpBy(g, s, <<>>) /\ CaughtUp(s, <<>>) = g[0]
  BY <1>2, <1>3, CaughtUpIs
<1>5. g[0] = s
  BY <1>2, <1>4 DEF CaughtUpBy
<1> QED BY <1>4, <1>5

LEMMA CaughtUpOne ==
  ASSUME NEW s, NEW e
  PROVE  CaughtUp(s, <<e>>) = Extended(s, e)
<1>1. PICK es, x : es = <<e>> /\ x = Extended(s, e)
  OBVIOUS
<1>2. Len(es) = 1 /\ es[1] = e
  BY <1>1
<1>3. PICK f : f = [i \in 0 .. 1 |-> IF i = 0 THEN s ELSE x]
  OBVIOUS
<1>4. CaughtUpBy(f, s, es)
  <2>1. f[0] = s /\ f[1] = x
    BY <1>3
  <2>2. ASSUME NEW i \in 0 .. 1
        PROVE  f[i] = IF i = 0 THEN s ELSE Extended(f[i - 1], es[i])
    <3>1. CASE i = 0
      BY <2>1, <3>1
    <3>2. CASE i = 1
      <4>1. f[i - 1] = s /\ es[i] = e
        BY <1>2, <2>1, <3>2
      <4> QED BY <1>1, <2>1, <3>2, <4>1
    <3> QED BY <3>1, <3>2
  <2>3. f = [i \in 0 .. 1 |-> f[i]]
    BY <1>3
  <2>4. f = [i \in 0 .. 1 |-> IF i = 0 THEN s ELSE Extended(f[i - 1], es[i])]
    BY <2>2, <2>3
  <2> QED BY <1>2, <2>4 DEF CaughtUpBy
<1>5. PICK g : CaughtUpBy(g, s, es) /\ CaughtUp(s, es) = g[1]
  BY <1>2, <1>4, CaughtUpIs
<1>6. g = [i \in 0 .. 1 |-> IF i = 0 THEN s ELSE Extended(g[i - 1], es[i])]
  BY <1>2, <1>5 DEF CaughtUpBy
<1>7. g[0] = s /\ g[1] = Extended(g[1 - 1], es[1]) /\ 1 - 1 = 0
  BY <1>6
<1> QED BY <1>1, <1>2, <1>5, <1>7

LEMMA CaughtUpTwo ==
  ASSUME NEW s, NEW d, NEW e
  PROVE  CaughtUp(s, <<d, e>>) = Extended(Extended(s, d), e)
<1>1. PICK es, x, y : es = <<d, e>> /\ x = Extended(s, d) /\ y = Extended(x, e)
  OBVIOUS
<1>2. Len(es) = 2 /\ es[1] = d /\ es[2] = e
  BY <1>1
<1>3. PICK f : f = [i \in 0 .. 2 |-> IF i = 0 THEN s ELSE IF i = 1 THEN x ELSE y]
  OBVIOUS
<1>4. CaughtUpBy(f, s, es)
  <2>1. f[0] = s /\ f[1] = x /\ f[2] = y
    BY <1>3
  <2>2. ASSUME NEW i \in 0 .. 2
        PROVE  f[i] = IF i = 0 THEN s ELSE Extended(f[i - 1], es[i])
    <3>1. CASE i = 0
      BY <2>1, <3>1
    <3>2. CASE i = 1
      <4>1. f[i - 1] = s /\ es[i] = d
        BY <1>2, <2>1, <3>2
      <4> QED BY <1>1, <2>1, <3>2, <4>1
    <3>3. CASE i = 2
      <4>1. f[i - 1] = x /\ es[i] = e
        BY <1>2, <2>1, <3>3
      <4> QED BY <1>1, <2>1, <3>3, <4>1
    <3> QED BY <3>1, <3>2, <3>3
  <2>3. f = [i \in 0 .. 2 |-> f[i]]
    BY <1>3
  <2>4. f = [i \in 0 .. 2 |-> IF i = 0 THEN s ELSE Extended(f[i - 1], es[i])]
    BY <2>2, <2>3
  <2> QED BY <1>2, <2>4 DEF CaughtUpBy
<1>5. PICK g : CaughtUpBy(g, s, es) /\ CaughtUp(s, es) = g[2]
  BY <1>2, <1>4, CaughtUpIs
<1>6. g = [i \in 0 .. 2 |-> IF i = 0 THEN s ELSE Extended(g[i - 1], es[i])]
  BY <1>2, <1>5 DEF CaughtUpBy
<1>7. /\ g[0] = s /\ g[1] = Extended(g[1 - 1], es[1]) /\ 1 - 1 = 0
      /\ g[2] = Extended(g[2 - 1], es[2]) /\ 2 - 1 = 1
  BY <1>6
<1> QED BY <1>1, <1>2, <1>5, <1>7

-----------------------------------------------------------------------------
(* The histories stay histories.                                           *)

LEMMA KindsHere ==
  /\ "user" \in Kinds /\ "memory" \in Kinds /\ "results" \in Kinds /\ "text" \in Kinds
  /\ "tools" \in Kinds /\ "note" \in Kinds /\ "boundary" \in Kinds
BY DEF Kinds, FromUser, FromModel, Silent

(* A turn starts with a history that ends with the user.                   *)
LEMMA PromptLast ==
  ASSUME NEW s \in Seq(Kinds)
  PROVE  LET r == repairOrphanToolUses(s)
             m == AddPrompt(r)
         IN  /\ r = s \/ (Last0(s) = "tools" /\ r = Append(s, "results"))
             /\ r \in Seq(Kinds) /\ Last0(r) # "tools"
             /\ m = r \/ m = Append(r, "user")
             /\ m \in Seq(Kinds) /\ m # <<>> /\ Last0(m) \in FromUser
<1>1. PICK r : r = repairOrphanToolUses(s)
  OBVIOUS
<1>2. r = s \/ (Last0(s) = "tools" /\ r = Append(s, "results"))
  BY <1>1 DEF repairOrphanToolUses
<1>3. r \in Seq(Kinds)
  BY <1>2, KindsHere
<1>4. Last0(r) # "tools"
  <2>1. CASE Last0(s) = "tools"
    <3>1. r = Append(s, "results")
      BY <1>1, <2>1 DEF repairOrphanToolUses
    <3>2. Len(r) = Len(s) + 1 /\ r[Len(s) + 1] = "results" /\ r # <<>>
      BY <3>1, KindsHere
    <3> QED BY <3>2 DEF Last0
  <2>2. CASE Last0(s) # "tools"
    BY <1>1, <2>2 DEF repairOrphanToolUses
  <2> QED BY <2>1, <2>2
<1>5. PICK m : m = AddPrompt(r)
  OBVIOUS
<1>6. m = r \/ m = Append(r, "user")
  BY <1>5 DEF AddPrompt
<1>7. m \in Seq(Kinds)
  BY <1>3, <1>6, KindsHere
<1>8. m # <<>> /\ Last0(m) \in FromUser
  <2>1. CASE Last0(r) \in FromUser
    <3>1. m = r
      BY <1>5, <2>1 DEF AddPrompt
    <3>2. r # <<>>
      BY <2>1 DEF Last0, FromUser
    <3> QED BY <2>1, <3>1, <3>2
  <2>2. CASE Last0(r) \notin FromUser
    <3>1. m = Append(r, "user")
      BY <1>5, <2>2 DEF AddPrompt
    <3>2. Len(m) = Len(r) + 1 /\ m[Len(r) + 1] = "user" /\ m # <<>>
      BY <1>3, <3>1, KindsHere
    <3> QED BY <3>2 DEF Last0, FromUser
  <2> QED BY <2>1, <2>2
<1> QED BY <1>1, <1>2, <1>3, <1>4, <1>5, <1>6, <1>7, <1>8

LEMMA InjectedIs ==
  ASSUME NEW s \in Seq(Kinds), s # <<>>, Last0(s) \in FromUser
  PROVE  \E h \in Seq(Kinds), x \in FromUser :
           /\ s = Append(h, x)
           /\ injectRelevantMemories(s) = Append(Append(h, "memory"), x)
<1>1. PICK n \in Nat : n = Len(s) /\ n >= 1
  OBVIOUS
<1>2. Last0(s) = s[n] /\ s[n] \in FromUser /\ s[n] \in Kinds
  BY <1>1 DEF Last0
<1>3. PICK h \in Seq(Kinds) : h = SubSeq(s, 1, n - 1)
  <2>1. SubSeq(s, 1, n - 1) \in Seq(Kinds)
    BY <1>1
  <2> QED BY <2>1
<1>4. s = Append(h, s[n])
  BY <1>1, <1>3
<1>5. injectRelevantMemories(s) = h \o <<"memory">> \o <<s[n]>>
  BY <1>1, <1>2, <1>3 DEF injectRelevantMemories
<1>6. h \o <<"memory">> \o <<s[n]>> = Append(Append(h, "memory"), s[n])
  BY <1>2, <1>3, KindsHere
<1> QED BY <1>2, <1>4, <1>5, <1>6

LEMMA ExtendedType ==
  ASSUME NEW s \in Seq(Kinds), NEW e \in Events
  PROVE  Extended(s, e) \in Seq(Kinds)
<1>1. e.msgs \in Seq(Kinds)
  BY DEF Events
<1> QED BY <1>1 DEF Extended

LEMMA EventTypes ==
  /\ \A k \in {"error", "compacted", "usage", "result", "message"}, s \in Seq(Kinds) :
       QueryEvent(k, s) \in Events
  /\ <<>> \in Seq(Kinds) /\ \A x \in Kinds : <<x>> \in Seq(Kinds)
  /\ \A d, e \in Events : <<e>> \in Seq(Events) /\ <<d, e>> \in Seq(Events)
BY DEF QueryEvent, Events

LEMMA TypesRest ==
  ASSUME EngineTypes, UNCHANGED <<messages, qmsgs, loaded, totalUsage, session, events>>
  PROVE  EngineTypes'
BY DEF EngineTypes

LEMMA TypesLoop == ASSUME EngineTypes, LoopStep PROVE EngineTypes'
<1>1. CASE StartTurn
  <2>1. PICK m : m = AddPrompt(repairOrphanToolUses(messages))
    OBVIOUS
  <2>2. m \in Seq(Kinds) /\ m # <<>> /\ Last0(m) \in FromUser
    BY <2>1, PromptLast DEF EngineTypes
  <2>3. injectRelevantMemories(m) \in Seq(Kinds)
    <3>1. PICK h \in Seq(Kinds), x \in FromUser :
            injectRelevantMemories(m) = Append(Append(h, "memory"), x)
      BY <2>2, InjectedIs
    <3>2. x \in Kinds
      BY DEF Kinds
    <3> QED BY <3>1, <3>2, KindsHere
  <2>4. messages' = m /\ qmsgs' \in {m, injectRelevantMemories(m)}
        /\ UNCHANGED <<loaded, totalUsage, session, events>>
    BY <1>1, <2>1 DEF StartTurn, driverVars, hostVars
  <2> QED BY <2>2, <2>3, <2>4 DEF EngineTypes
<1>2. CASE IdleNotify \/ TurnNotify
  <2>1. messages' = Append(messages, "note")
        /\ UNCHANGED <<qmsgs, loaded, totalUsage, session, events>>
    BY <1>2 DEF IdleNotify, TurnNotify, queryVars, driverVars, hostVars
  <2> QED BY <2>1, KindsHere DEF EngineTypes
<1>3. CASE IdleUsage \/ TurnUsage
  <2>1. totalUsage' = totalUsage + 1 /\ UNCHANGED <<messages, qmsgs, loaded, session, events>>
    BY <1>3 DEF IdleUsage, TurnUsage, queryVars, driverVars, hostVars
  <2> QED BY <2>1 DEF EngineTypes
<1>4. CASE reset
  <2>1. messages' = <<>> /\ totalUsage' = 0 /\ session' = NoSession
        /\ UNCHANGED <<qmsgs, loaded, events>>
    BY <1>4 DEF reset, queryVars, hostVars
  <2>2. NoSession \in [ok : BOOLEAN, msgs : Seq(Kinds), usage : Nat]
    BY EventTypes DEF NoSession
  <2> QED BY <2>1, <2>2 DEF EngineTypes
<1>5. CASE handleQueryEvent
  <2>1. Head(events) \in Events /\ Tail(events) \in Seq(Events)
    BY <1>5 DEF handleQueryEvent, EngineTypes
  <2>2. messages' = Extended(messages, Head(events)) /\ events' = Tail(events)
        /\ UNCHANGED <<qmsgs, loaded, session>>
    BY <1>5 DEF handleQueryEvent, queryVars, driverVars, hostVars
  <2>3. totalUsage' \in Nat
    BY <1>5 DEF handleQueryEvent, EngineTypes
  <2>4. messages' \in Seq(Kinds)
    BY <2>1, <2>2, ExtendedType DEF EngineTypes
  <2> QED BY <2>1, <2>2, <2>3, <2>4 DEF EngineTypes
<1>6. CASE Drain
  <2>1. events # <<>> /\ events' = Tail(events)
        /\ UNCHANGED <<messages, qmsgs, loaded, totalUsage, session>>
    BY <1>6 DEF Drain, queryVars, driverVars, hostVars
  <2>2. Tail(events) \in Seq(Events)
    BY <2>1 DEF EngineTypes
  <2> QED BY <2>1, <2>2 DEF EngineTypes
<1>7. CASE IdleInterrupt \/ AnswerMessages \/ AnswerTotal \/ Exit \/ TurnInterrupt \/ TurnDrop
           \/ TurnStopped \/ EndTurn
  <2>1. UNCHANGED <<messages, qmsgs, loaded, totalUsage, session, events>>
    BY <1>7 DEF IdleInterrupt, AnswerMessages, AnswerTotal, Exit, TurnInterrupt, TurnDrop,
                TurnStopped, EndTurn, queryVars, driverVars, hostVars
  <2> QED BY <2>1, TypesRest
<1> QED BY <1>1, <1>2, <1>3, <1>4, <1>5, <1>6, <1>7 DEF LoopStep

(* What a step of the query does to its history and hands over.            *)
LEMMA QueryDoes ==
  ASSUME QueryStep
  PROVE  /\ events = <<>>
         /\ UNCHANGED <<cmdCh, closed, loop, messages, totalUsage, turnOpen, driver, session,
                        loaded>>
         /\ \/ /\ query \in {"top", "llm"} /\ query' = "done" /\ qmsgs' = qmsgs
               /\ events' = <<QueryEvent("error", <<>>)>>
            \/ query = "top" /\ query' = "llm" /\ qmsgs' = qmsgs /\ events' = <<>>
            \/ /\ query = "top" /\ query' = "llm"
               /\ \E k \in Tails(qmsgs) : qmsgs' = Compacted(qmsgs, k)
               /\ events' = <<QueryEvent("compacted", qmsgs')>>
            \/ /\ query = "llm" /\ query' = "done" /\ qmsgs' = Append(qmsgs, "text")
               /\ events' = <<QueryEvent("usage", <<"text">>), QueryEvent("result", <<>>)>>
            \/ /\ query = "llm" /\ query' = "top" /\ qmsgs' = qmsgs \o <<"text", "user">>
               /\ events' = <<QueryEvent("usage", <<"text">>), QueryEvent("message", <<"user">>)>>
            \/ /\ query = "llm" /\ query' = "tools" /\ qmsgs' = Append(qmsgs, "tools")
               /\ events' = <<QueryEvent("usage", <<"tools">>)>>
            \/ /\ query = "tools" /\ query' = "done" /\ qmsgs' = Append(qmsgs, "results")
               /\ events' = <<QueryEvent("message", <<"results">>), QueryEvent("error", <<>>)>>
            \/ /\ query = "tools" /\ query' = "top" /\ qmsgs' = Append(qmsgs, "results")
               /\ events' = <<QueryEvent("message", <<"results">>)>>
<1> USE DEF QueryGoes, Ends, driverVars, hostVars
<1>1. CASE QueryAborted
  BY <1>1 DEF QueryAborted
<1>2. CASE QueryLimit
  BY <1>2 DEF QueryLimit
<1>3. CASE NoCompaction
  BY <1>3 DEF NoCompaction
<1>4. CASE Compaction
  BY <1>4 DEF Compaction
<1>5. CASE RequestFails
  BY <1>5 DEF RequestFails
<1>6. CASE ReplyText
  BY <1>6 DEF ReplyText
<1>7. CASE ReplyCut
  BY <1>7 DEF ReplyCut
<1>8. CASE ReplyTools
  BY <1>8 DEF ReplyTools
<1>9. CASE ToolsAborted
  BY <1>9 DEF ToolsAborted
<1>10. CASE executeTools
  BY <1>10 DEF executeTools
<1> QED BY <1>1, <1>2, <1>3, <1>4, <1>5, <1>6, <1>7, <1>8, <1>9, <1>10 DEF QueryStep

LEMMA CompactedType ==
  ASSUME NEW s \in Seq(Kinds), NEW k \in Tails(s)
  PROVE  Compacted(s, k) \in Seq(Kinds)
<1>1. SubSeq(s, k, Len(s)) \in Seq(Kinds)
  BY DEF Tails
<1>2. Without(SubSeq(s, k, Len(s)), {"boundary"}) \in Seq(Kinds)
  BY <1>1, WithoutType
<1>3. <<"boundary", "user">> \in Seq(Kinds)
  BY KindsHere
<1> QED BY <1>2, <1>3, Joined DEF Compacted

LEMMA TypesQuery == ASSUME EngineTypes, QueryStep PROVE EngineTypes'
<1>1. UNCHANGED <<messages, loaded, totalUsage, session>>
  BY QueryDoes
<1>2. qmsgs \in Seq(Kinds) /\ <<"text", "user">> \in Seq(Kinds)
  BY KindsHere DEF EngineTypes
<1>3. qmsgs' \in Seq(Kinds)
  <2>1. \/ qmsgs' = qmsgs
        \/ \E k \in Tails(qmsgs) : qmsgs' = Compacted(qmsgs, k)
        \/ \E x \in Kinds : qmsgs' = Append(qmsgs, x)
        \/ qmsgs' = qmsgs \o <<"text", "user">>
    BY QueryDoes, KindsHere
  <2>2. CASE \E x \in Kinds : qmsgs' = Append(qmsgs, x)
    BY <1>2, <2>2
  <2>3. CASE qmsgs' = qmsgs \o <<"text", "user">>
    BY <1>2, <2>3, Joined
  <2> QED BY <1>2, <2>1, <2>2, <2>3, CompactedType
<1>4. events' \in Seq(Events)
  <2>1. <<>> \in Seq(Events)
    OBVIOUS
  <2> QED BY <1>3, <2>1, QueryDoes, EventTypes, KindsHere
<1> QED BY <1>1, <1>3, <1>4 DEF EngineTypes

(* The calls of the other goroutines, and panics, touch no history.        *)
LEMMA SendsLeave ==
  ASSUME \/ \E k : Panic(k)
         \/ \E k : Offer(k)
         \/ CallMessages
         \/ Stop
  PROVE  UNCHANGED <<messages, qmsgs, loaded, totalUsage, session, events, query, loop, turnOpen,
                     driver>>
<1> USE DEF queryVars, driverVars, hostVars
<1>1. ASSUME NEW k, Panic(k)
      PROVE  UNCHANGED <<messages, qmsgs, loaded, totalUsage, session, events, query, loop,
                         turnOpen, driver>>
  BY <1>1 DEF Panic
<1>2. CASE \E k : Offer(k)
  BY <1>1, <1>2 DEF Offer
<1>3. CASE CallMessages
  BY <1>1, <1>3 DEF CallMessages
<1>4. CASE Stop
  BY <1>4 DEF Stop
<1> QED BY <1>1, <1>2, <1>3, <1>4

(* What a step of the REPL does.                                           *)
LEMMA DriverDoes ==
  ASSUME DriverStep
  PROVE  /\ UNCHANGED <<messages, qmsgs, loaded, totalUsage, events, query, loop>>
         /\ \/ UNCHANGED <<session, driver, turnOpen>>
            \/ /\ driver = "read" /\ driver' = "turn" /\ turnOpen' = TRUE /\ session' = session
               /\ ~closed /\ UNCHANGED closed
               /\ cmdCh' = Append(cmdCh, Command("turn", lines + 1))
            \/ /\ <<driver, driver'>> \in
                    {<<"read", "done">>, <<"read", "quit">>, <<"turn", "ask">>}
               /\ UNCHANGED <<session, turnOpen, cmdCh, closed>>
            \/ /\ driver = "ask" /\ driver' = "usage" /\ UNCHANGED <<session, turnOpen, closed>>
               /\ ~closed /\ cmdCh' = Append(cmdCh, Command("total", lines))
            \/ /\ driver = "turn" /\ driver' = "save" /\ ~turnOpen
               /\ UNCHANGED <<session, turnOpen, cmdCh, closed>>
            \/ /\ <<driver, driver'>> \in {<<"save", "write">>, <<"quit", "last">>}
               /\ session' = [ok |-> FALSE, msgs |-> messages, usage |-> totalUsage]
               /\ UNCHANGED <<turnOpen, cmdCh, closed>>
            \/ /\ <<driver, driver'>> \in {<<"write", "read">>, <<"last", "done">>}
               /\ session' = [session EXCEPT !.ok = TRUE]
               /\ UNCHANGED <<turnOpen, cmdCh, closed>>
<1> USE DEF DriverGoes, queryVars, hostVars
<1>1. CASE SubmitTurn
  <2>1. CASE Panic("turn")
    BY <2>1, SendsLeave
  <2>2. CASE ~Panic("turn")
    BY <1>1, <2>2 DEF SubmitTurn, Room
  <2> QED BY <2>1, <2>2
<1>2. CASE SubmitReset
  BY <1>2, SendsLeave DEF SubmitReset
<1>3. CASE EndOfInput
  BY <1>3 DEF EndOfInput
<1>4. CASE TakeOutput
  BY <1>4 DEF TakeOutput
<1>5. CASE AskUsage
  <2>1. CASE Panic("total")
    BY <2>1, SendsLeave
  <2>2. CASE ~Panic("total")
    BY <1>5, <2>2 DEF AskUsage, Room
  <2> QED BY <2>1, <2>2
<1>6. CASE TurnOver
  BY <1>6 DEF TurnOver
<1>7. CASE SaveSession
  BY <1>7 DEF SaveSession
<1>8. CASE WriteFile
  BY <1>8 DEF WriteFile
<1> QED BY <1>1, <1>2, <1>3, <1>4, <1>5, <1>6, <1>7, <1>8 DEF DriverStep

LEMMA TypesDriver == ASSUME EngineTypes, DriverStep PROVE EngineTypes'
<1>1. UNCHANGED <<messages, qmsgs, loaded, totalUsage, events>>
  BY DriverDoes
<1>2. session' \in [ok : BOOLEAN, msgs : Seq(Kinds), usage : Nat]
  <2>1. \/ session' = session
        \/ session' = [ok |-> FALSE, msgs |-> messages, usage |-> totalUsage]
        \/ session' = [session EXCEPT !.ok = TRUE]
    BY DriverDoes
  <2>2. /\ session \in [ok : BOOLEAN, msgs : Seq(Kinds), usage : Nat]
        /\ messages \in Seq(Kinds) /\ totalUsage \in Nat
    BY DEF EngineTypes
  <2>3. CASE session' = [ok |-> FALSE, msgs |-> messages, usage |-> totalUsage]
    BY <2>2, <2>3
  <2>4. CASE session' = [session EXCEPT !.ok = TRUE]
    BY <2>2, <2>4
  <2> QED BY <2>1, <2>2, <2>3, <2>4
<1> QED BY <1>1, <1>2 DEF EngineTypes

LEMMA TypesRestart == ASSUME EngineTypes, Restart PROVE EngineTypes'
<1>1. session.msgs \in Seq(Kinds) /\ session.usage \in Nat
  BY DEF EngineTypes
<1>2. (messages' = session.msgs \/ messages' = <<>>)
      /\ (totalUsage' = session.usage \/ totalUsage' \in Nat)
      /\ loaded' = messages' /\ qmsgs' = <<>> /\ events' = <<>> /\ session' = session
  BY DEF Restart
<1>3. <<>> \in Seq(Kinds) /\ <<>> \in Seq(Events)
  OBVIOUS
<1>4. messages' \in Seq(Kinds) /\ totalUsage' \in Nat
  BY <1>1, <1>2, <1>3, Zenon
<1> QED BY <1>2, <1>3, <1>4 DEF EngineTypes

LEMMA TypesKept == ASSUME EngineTypes, [Next]_vars PROVE EngineTypes'
<1>1. CASE (\E k \in {"notify", "usage", "interrupt"} : Offer(k)) \/ CallMessages \/ Stop
  BY <1>1, SendsLeave, TypesRest
<1>2. CASE UNCHANGED vars
  BY <1>2, TypesRest DEF vars, queryVars, driverVars, hostVars
<1> QED BY <1>1, <1>2, TypesLoop, TypesQuery, TypesDriver, TypesRestart DEF Next

-----------------------------------------------------------------------------
(* At most one turn is in cmdCh or running, and only while the REPL ranges *)
(* over its events.                                                        *)

LEMMA TurnsSent ==
  ASSUME cmdCh \in Seq(Commands), NEW c \in Commands, cmdCh' = Append(cmdCh, c)
  PROVE  TurnCommands' =
           IF c.kind = "turn" THEN TurnCommands \cup {Len(cmdCh) + 1} ELSE TurnCommands
<1>1. /\ Len(cmdCh') = Len(cmdCh) + 1 /\ cmdCh'[Len(cmdCh) + 1] = c /\ Len(cmdCh) \in Nat
      /\ \A i \in 1 .. Len(cmdCh) : cmdCh'[i] = cmdCh[i]
  OBVIOUS
<1>2. 1 .. Len(cmdCh') = (1 .. Len(cmdCh)) \cup {Len(cmdCh) + 1}
  BY <1>1
<1> QED BY <1>1, <1>2 DEF TurnCommands

LEMMA TurnsTaken ==
  ASSUME cmdCh \in Seq(Commands), cmdCh # <<>>, cmdCh' = Tail(cmdCh),
         \A i, j \in TurnCommands : i = j
  PROVE  /\ \A i, j \in TurnCommands' : i = j
         /\ TurnCommands' # {} => TurnCommands # {}
         /\ Head(cmdCh).kind = "turn" => TurnCommands' = {} /\ TurnCommands # {}
<1>1. /\ Len(cmdCh') = Len(cmdCh) - 1 /\ Len(cmdCh) \in Nat \ {0} /\ Head(cmdCh) = cmdCh[1]
      /\ \A i \in 1 .. Len(cmdCh') : cmdCh'[i] = cmdCh[i + 1]
  OBVIOUS
<1>2. \A i \in TurnCommands' : i \in Nat /\ i >= 1 /\ i + 1 \in TurnCommands
  BY <1>1 DEF TurnCommands
<1>3. \A i, j \in TurnCommands' : i = j
  <2>1. ASSUME NEW i \in TurnCommands', NEW j \in TurnCommands' PROVE i = j
    <3>1. i + 1 = j + 1
      BY <1>2
    <3> QED BY <1>2, <3>1
  <2> QED BY <2>1
<1>4. ASSUME Head(cmdCh).kind = "turn"
      PROVE  1 \in TurnCommands /\ TurnCommands' = {}
  <2>1. 1 \in TurnCommands
    BY <1>1, <1>4 DEF TurnCommands
  <2>2. ASSUME NEW i \in TurnCommands' PROVE FALSE
    <3>1. i + 1 = 1 /\ i \in Nat /\ i >= 1
      BY <1>2, <2>1
    <3> QED BY <3>1
  <2> QED BY <2>1, <2>2
<1> QED BY <1>2, <1>3, <1>4

LEMMA OneTurnRest ==
  ASSUME OneTurn, UNCHANGED <<cmdCh, loop, turnOpen, driver>>
  PROVE  OneTurn'
BY DEF OneTurn, InTurn, TurnCommands

(* A command that starts no turn is sent.                                  *)
LEMMA OneTurnSent ==
  ASSUME OneTurn, cmdCh \in Seq(Commands), NEW c \in Commands, c.kind # "turn",
         cmdCh' = Append(cmdCh, c) \/ cmdCh' = cmdCh, UNCHANGED <<loop, turnOpen>>,
         driver' = driver \/ driver' \in {"turn", "ask", "usage"}
  PROVE  OneTurn'
<1>1. TurnCommands' = TurnCommands
  BY TurnsSent DEF TurnCommands
<1> QED BY <1>1 DEF OneTurn, InTurn

(* A command is taken.                                                     *)
LEMMA OneTurnTaken ==
  ASSUME OneTurn, cmdCh \in Seq(Commands), cmdCh # <<>>, cmdCh' = Tail(cmdCh),
         UNCHANGED <<loop, turnOpen>>, driver' = driver \/ driver' = "turn"
  PROVE  OneTurn'
<1>1. /\ \A i, j \in TurnCommands' : i = j
      /\ TurnCommands' # {} => TurnCommands # {}
  BY TurnsTaken DEF OneTurn
<1> QED BY <1>1 DEF OneTurn, InTurn

LEMMA OneTurnLoop == ASSUME OneTurn, cmdCh \in Seq(Commands), LoopStep PROVE OneTurn'
<1>1. CASE StartTurn
  <2>1. /\ cmdCh # <<>> /\ cmdCh' = Tail(cmdCh) /\ Head(cmdCh).kind = "turn" /\ loop' = "turn"
        /\ UNCHANGED <<turnOpen, driver>>
    BY <1>1 DEF StartTurn, Take, driverVars
  <2>2. TurnCommands' = {} /\ TurnCommands # {}
    BY <2>1, TurnsTaken DEF OneTurn
  <2> QED BY <2>1, <2>2 DEF OneTurn, InTurn
<1>2. CASE \/ IdleNotify \/ IdleUsage \/ IdleInterrupt \/ reset \/ AnswerMessages \/ AnswerTotal
           \/ TurnInterrupt \/ TurnNotify \/ TurnUsage \/ TurnDrop
  <2>1. /\ cmdCh # <<>> /\ cmdCh' = Tail(cmdCh) /\ UNCHANGED <<loop, turnOpen>>
        /\ driver' = driver \/ driver' = "turn"
    BY <1>2 DEF IdleNotify, IdleUsage, IdleInterrupt, reset, AnswerMessages, AnswerTotal,
                TurnInterrupt, TurnNotify, TurnUsage, TurnDrop, Take, driverVars
  <2> QED BY <2>1, OneTurnTaken
<1>3. CASE Exit \/ TurnStopped \/ EndTurn
  <2>1. /\ UNCHANGED <<cmdCh, driver>>
        /\ \/ loop = "idle" /\ loop' = "exited" /\ turnOpen' = turnOpen
           \/ loop = "turn" /\ loop' = "drain" /\ turnOpen' = turnOpen
           \/ loop \in {"turn", "drain"} /\ loop' = "idle" /\ turnOpen' = FALSE
    BY <1>3 DEF Exit, TurnStopped, EndTurn, driverVars
  <2>2. TurnCommands' = TurnCommands
    BY <2>1 DEF TurnCommands
  <2> QED BY <2>1, <2>2 DEF OneTurn, InTurn
<1>4. CASE Drain \/ handleQueryEvent
  <2>1. UNCHANGED <<cmdCh, loop, turnOpen, driver>>
    BY <1>4 DEF Drain, handleQueryEvent, driverVars
  <2> QED BY <2>1, OneTurnRest
<1> QED BY <1>1, <1>2, <1>3, <1>4 DEF LoopStep

LEMMA OneTurnPanic == ASSUME OneTurn, \E k : Panic(k) PROVE OneTurn'
<1>1. UNCHANGED <<cmdCh, loop, turnOpen, driver>>
  BY DEF Panic, driverVars
<1> QED BY <1>1, OneTurnRest

LEMMA OneTurnOffer ==
  ASSUME OneTurn, OrderInv, NEW k \in CmdKinds, k # "turn", Offer(k)
  PROVE  OneTurn'
<1>1. CASE Panic(k)
  BY <1>1, OneTurnPanic
<1>2. CASE ~Panic(k)
  <2>1. UNCHANGED <<loop, turnOpen, driver>>
    BY SendsLeave
  <2>2. cmdCh' = Append(cmdCh, Command(k, lines)) \/ cmdCh' = cmdCh
    BY <1>2 DEF Offer
  <2>3. Command(k, lines) \in Commands /\ Command(k, lines).kind = k
    BY DEF Command, Commands, OrderInv
  <2> QED BY <2>1, <2>2, <2>3, OneTurnSent DEF OrderInv
<1> QED BY <1>1, <1>2

LEMMA OneTurnCalls == ASSUME OneTurn, OrderInv, CallMessages \/ Stop PROVE OneTurn'
<1>1. CASE CallMessages
  <2>1. CASE Panic("messages")
    BY <2>1, OneTurnPanic
  <2>2. CASE ~Panic("messages")
    <3>1. UNCHANGED <<loop, turnOpen, driver>>
      BY <1>1, SendsLeave
    <3>2. cmdCh' = Append(cmdCh, Command("messages", lines))
      BY <1>1, <2>2 DEF CallMessages
    <3>3. Command("messages", lines) \in Commands /\ Command("messages", lines).kind # "turn"
      BY DEF Command, Commands, CmdKinds, OrderInv
    <3> QED BY <3>1, <3>2, <3>3, OneTurnSent DEF OrderInv
  <2> QED BY <2>1, <2>2
<1>2. CASE Stop
  <2>1. UNCHANGED <<cmdCh, loop, turnOpen, driver>>
    BY <1>2 DEF Stop, driverVars
  <2> QED BY <2>1, OneTurnRest
<1> QED BY <1>1, <1>2

LEMMA OneTurnDriver ==
  ASSUME OneTurn, OrderInv, OrderInv', DriverStep
  PROVE  OneTurn'
<1>1. CASE SubmitReset
  <2>1. Offer("reset") /\ "reset" \in CmdKinds
    BY <1>1 DEF SubmitReset, CmdKinds
  <2> QED BY <2>1, OneTurnOffer
<1>2. CASE SubmitTurn
  <2>1. CASE Panic("turn")
    BY <2>1, OneTurnPanic
  <2>2. CASE ~Panic("turn")
    <3>1. /\ driver = "read" /\ driver' = "turn" /\ turnOpen' = TRUE /\ loop' = loop
          /\ lines < MaxLines /\ cmdCh' = Append(cmdCh, Command("turn", lines + 1))
      BY <1>2, <2>2 DEF SubmitTurn, DriverGoes
    <3>2. Command("turn", lines + 1) \in Commands /\ Command("turn", lines + 1).kind = "turn"
      BY <3>1, EngineAssumption DEF Command, Commands, CmdKinds, OrderInv
    <3>3. ~turnOpen
      BY <3>1 DEF OneTurn
    <3>4. TurnCommands = {} /\ ~InTurn
      BY <3>3 DEF OneTurn
    <3>5. TurnCommands' = {Len(cmdCh) + 1}
      BY <3>1, <3>2, <3>4, TurnsSent DEF OrderInv
    <3> QED BY <3>1, <3>4, <3>5 DEF OneTurn, InTurn
  <2> QED BY <2>1, <2>2
<1>3. CASE AskUsage
  <2>1. CASE Panic("total")
    BY <2>1, OneTurnPanic
  <2>2. CASE ~Panic("total")
    <3>1. /\ UNCHANGED <<loop, turnOpen>> /\ driver' = "usage"
          /\ cmdCh' = Append(cmdCh, Command("total", lines))
      BY <1>3, <2>2 DEF AskUsage, DriverGoes
    <3>2. Command("total", lines) \in Commands /\ Command("total", lines).kind # "turn"
      BY DEF Command, Commands, CmdKinds, OrderInv
    <3> QED BY <3>1, <3>2, OneTurnSent DEF OrderInv
  <2> QED BY <2>1, <2>2
<1>4. CASE EndOfInput \/ TakeOutput \/ TurnOver \/ SaveSession \/ WriteFile
  <2>1. /\ UNCHANGED <<cmdCh, loop, turnOpen>>
        /\ driver = "turn" => driver' \in {"turn", "ask"} \/ ~turnOpen
        /\ driver \notin {"ask", "usage"}
    BY <1>4 DEF EndOfInput, TakeOutput, TurnOver, SaveSession, WriteFile, DriverGoes
  <2> QED BY <2>1 DEF OneTurn, InTurn, TurnCommands
<1> QED BY <1>1, <1>2, <1>3, <1>4 DEF DriverStep

LEMMA OneTurnRestart == ASSUME Restart PROVE OneTurn'
<1>1. cmdCh' = <<>> \/ cmdCh' = <<Command("reset", 0)>>
  BY DEF Restart
<1>2. TurnCommands' = {}
  BY <1>1 DEF TurnCommands, Command
<1>3. loop' = "idle" /\ turnOpen' = FALSE
  BY DEF Restart
<1> QED BY <1>2, <1>3 DEF OneTurn, InTurn

LEMMA OneTurnKept ==
  ASSUME OneTurn, OrderInv, OrderInv', [Next]_vars
  PROVE  OneTurn'
<1>1. CASE LoopStep
  BY <1>1, OneTurnLoop DEF OrderInv
<1>2. CASE QueryStep
  BY <1>2, QueryDoes, OneTurnRest
<1>3. CASE DriverStep
  BY <1>3, OneTurnDriver
<1>4. ASSUME NEW k \in {"notify", "usage", "interrupt"}, Offer(k) PROVE OneTurn'
  <2>1. k \in CmdKinds /\ k # "turn"
    BY DEF CmdKinds
  <2> QED BY <1>4, <2>1, OneTurnOffer
<1>5. CASE UNCHANGED vars
  BY <1>5, OneTurnRest DEF vars, driverVars
<1> QED BY <1>1, <1>2, <1>3, <1>4, <1>5, OneTurnCalls, OneTurnRestart DEF Next

-----------------------------------------------------------------------------
(* The session file.                                                       *)

LEMMA PrefixKept ==
  ASSUME NEW K, NEW s \in Seq(K), NEW t \in Seq(K), NEW x \in K
  PROVE  IsPrefix(s, s) /\ (IsPrefix(s, t) => IsPrefix(s, Append(t, x)))
<1>1. IsPrefix(s, s)
  BY DEF IsPrefix
<1>2. ASSUME IsPrefix(s, t)
      PROVE  IsPrefix(s, Append(t, x))
  <2>1. PICK u \in Seq(K) : u = Append(t, x)
    <3>1. Append(t, x) \in Seq(K)
      OBVIOUS
    <3> QED BY <3>1
  <2>2. Len(u) = Len(t) + 1 /\ Len(s) <= Len(t) /\ \A i \in 1 .. Len(t) : u[i] = t[i]
    BY <1>2, <2>1 DEF IsPrefix
  <2>3. SubSeq(u, 1, Len(s)) = SubSeq(t, 1, Len(s))
    BY <2>2
  <2> QED BY <1>2, <2>1, <2>2, <2>3 DEF IsPrefix
<1> QED BY <1>1, <1>2

LEMMA SessionRest ==
  ASSUME SessionInv, UNCHANGED <<driver, session, messages, totalUsage>>
  PROVE  SessionInv'
BY DEF SessionInv

LEMMA SessionLoop == ASSUME SessionInv, EngineTypes, OneTurn, LoopStep PROVE SessionInv'
<1>1. CASE StartTurn
  <2>1. TurnCommands # {} /\ UNCHANGED driver
    <3>1. cmdCh # <<>> /\ Head(cmdCh).kind = "turn" /\ UNCHANGED driver
      BY <1>1 DEF StartTurn, Take, driverVars
    <3> QED BY <3>1 DEF TurnCommands
  <2>2. driver' \notin {"write", "read"}
    BY <2>1 DEF OneTurn
  <2> QED BY <2>2 DEF SessionInv
<1>2. CASE handleQueryEvent
  <2>1. InTurn /\ UNCHANGED driver
    BY <1>2 DEF handleQueryEvent, InTurn, driverVars
  <2>2. driver' \notin {"write", "read"}
    BY <2>1 DEF OneTurn
  <2> QED BY <2>2 DEF SessionInv
<1>3. CASE IdleNotify \/ TurnNotify
  <2>1. messages' = Append(messages, "note") /\ UNCHANGED <<driver, session, totalUsage>>
    BY <1>3 DEF IdleNotify, TurnNotify, driverVars
  <2>2. session.msgs \in Seq(Kinds) /\ messages \in Seq(Kinds)
    BY DEF EngineTypes
  <2> QED BY <2>1, <2>2, KindsHere, PrefixKept DEF SessionInv
<1>4. CASE IdleUsage \/ TurnUsage
  <2>1. totalUsage' = totalUsage + 1 /\ UNCHANGED <<driver, session, messages>>
    BY <1>4 DEF IdleUsage, TurnUsage, driverVars
  <2>2. session.usage \in Nat /\ totalUsage \in Nat
    BY DEF EngineTypes
  <2> QED BY <2>1, <2>2 DEF SessionInv
<1>5. CASE reset
  <2>1. messages' = <<>> /\ totalUsage' = 0 /\ session'.msgs = <<>> /\ session'.usage = 0
    BY <1>5 DEF reset, NoSession
  <2>2. IsPrefix(<<>>, <<>>)
    BY DEF IsPrefix
  <2> QED BY <2>1, <2>2 DEF SessionInv
<1>6. CASE AnswerTotal
  BY <1>6 DEF AnswerTotal, SessionInv
<1>7. CASE IdleInterrupt \/ AnswerMessages \/ Exit \/ TurnInterrupt \/ TurnDrop \/ TurnStopped
           \/ Drain \/ EndTurn
  <2>1. UNCHANGED <<driver, session, messages, totalUsage>>
    BY <1>7 DEF IdleInterrupt, AnswerMessages, Exit, TurnInterrupt, TurnDrop, TurnStopped, Drain,
                EndTurn, driverVars
  <2> QED BY <2>1, SessionRest
<1> QED BY <1>1, <1>2, <1>3, <1>4, <1>5, <1>6, <1>7 DEF LoopStep

LEMMA SessionDriver == ASSUME SessionInv, EngineTypes, DriverStep PROVE SessionInv'
<1>1. UNCHANGED <<messages, totalUsage>>
  BY DriverDoes
<1>2. CASE UNCHANGED <<driver, session>>
  BY <1>1, <1>2, SessionRest
<1>3. CASE session' = [ok |-> FALSE, msgs |-> messages, usage |-> totalUsage]
  <2>1. session'.msgs = messages /\ session'.usage = totalUsage
    BY <1>3
  <2>2. messages \in Seq(Kinds) /\ totalUsage \in Nat
    BY DEF EngineTypes
  <2>3. IsPrefix(messages, messages) /\ totalUsage <= totalUsage
    BY <2>2, KindsHere, PrefixKept
  <2> QED BY <1>1, <2>1, <2>3 DEF SessionInv
<1>4. CASE /\ <<driver, driver'>> \in {<<"write", "read">>, <<"last", "done">>}
           /\ session' = [session EXCEPT !.ok = TRUE]
  <2>1. session'.msgs = session.msgs /\ session'.usage = session.usage
    BY <1>4 DEF EngineTypes
  <2>2. driver = "write" \/ driver' = "done"
    BY <1>4
  <2> QED BY <1>1, <2>1, <2>2 DEF SessionInv
<1>5. CASE driver' \notin {"read", "write"}
  BY <1>5 DEF SessionInv
<1> QED BY <1>2, <1>3, <1>4, <1>5, DriverDoes

LEMMA SessionRestart == ASSUME EngineTypes, Restart PROVE SessionInv'
<1>1. CASE session.ok
  <2>1. /\ messages' = session.msgs /\ totalUsage' = session.usage /\ session' = session
    BY <1>1 DEF Restart
  <2>2. session.msgs \in Seq(Kinds) /\ session.usage \in Nat
    BY DEF EngineTypes
  <2>3. IsPrefix(session.msgs, session.msgs) /\ session.usage <= session.usage
    BY <2>2, KindsHere, PrefixKept
  <2> QED BY <2>1, <2>3 DEF SessionInv
<1>2. CASE ~session.ok
  BY <1>2 DEF Restart, SessionInv
<1> QED BY <1>1, <1>2

LEMMA SessionKept ==
  ASSUME SessionInv, EngineTypes, OneTurn, [Next]_vars
  PROVE  SessionInv'
<1>1. CASE (\E k \in {"notify", "usage", "interrupt"} : Offer(k)) \/ CallMessages \/ Stop
  BY <1>1, SendsLeave, SessionRest
<1>2. CASE QueryStep
  BY <1>2, QueryDoes, SessionRest
<1>3. CASE UNCHANGED vars
  BY <1>3, SessionRest DEF vars, driverVars
<1> QED BY <1>1, <1>2, <1>3, SessionLoop, SessionDriver, SessionRestart DEF Next

-----------------------------------------------------------------------------
(* What the query has yet to hand over.                                    *)

LEMMA OneOrTwo ==
  /\ \A e : <<e>> # <<>> /\ Head(<<e>>) = e /\ Tail(<<e>>) = <<>>
  /\ \A d, e : <<d, e>> # <<>> /\ Head(<<d, e>>) = d /\ Tail(<<d, e>>) = <<e>>
OBVIOUS

LEMMA HandedNext ==
  ASSUME Handed, events # <<>>
  PROVE  LET e == Head(events)
             es == Tail(events)
         IN  \/ query = "llm" /\ e = QueryEvent("compacted", qmsgs) /\ es = <<>>
             \/ /\ query = "top" /\ e = QueryEvent("usage", <<"text">>)
                /\ es = <<QueryEvent("message", <<"user">>)>>
             \/ query = "top" /\ e = QueryEvent("message", <<"user">>) /\ es = <<>>
             \/ query = "top" /\ e = QueryEvent("message", <<"results">>) /\ es = <<>>
             \/ query = "tools" /\ e = QueryEvent("usage", <<"tools">>) /\ es = <<>>
             \/ query = "done" /\ e = QueryEvent("error", <<>>) /\ es = <<>>
             \/ query = "done" /\ e = QueryEvent("result", <<>>) /\ es = <<>>
             \/ /\ query = "done" /\ e = QueryEvent("usage", <<"text">>)
                /\ es = <<QueryEvent("result", <<>>)>>
             \/ /\ query = "done" /\ e = QueryEvent("message", <<"results">>)
                /\ es = <<QueryEvent("error", <<>>)>>
<1>1. \/ query = "llm" /\ events = <<QueryEvent("compacted", qmsgs)>>
      \/ /\ query = "top"
         /\ events = <<QueryEvent("usage", <<"text">>), QueryEvent("message", <<"user">>)>>
      \/ query = "top" /\ events = <<QueryEvent("message", <<"user">>)>>
      \/ query = "top" /\ events = <<QueryEvent("message", <<"results">>)>>
      \/ query = "tools" /\ events = <<QueryEvent("usage", <<"tools">>)>>
      \/ query = "done" /\ events = <<QueryEvent("error", <<>>)>>
      \/ query = "done" /\ events = <<QueryEvent("result", <<>>)>>
      \/ /\ query = "done"
         /\ events = <<QueryEvent("usage", <<"text">>), QueryEvent("result", <<>>)>>
      \/ /\ query = "done"
         /\ events = <<QueryEvent("message", <<"results">>), QueryEvent("error", <<>>)>>
  BY Zenon DEF Handed, Ends
<1> QED BY <1>1, OneOrTwo, Zenon

LEMMA RunsRest ==
  ASSUME QueryRuns, UNCHANGED <<query, events, qmsgs, loop>>
  PROVE  QueryRuns'
BY DEF QueryRuns, Handed, InTurn

LEMMA RunsLoop == ASSUME QueryRuns, LoopStep PROVE QueryRuns'
<1>1. CASE StartTurn
  <2>1. ~InTurn /\ loop' = "turn" /\ query' = "top" /\ UNCHANGED events
    BY <1>1 DEF StartTurn, Take, InTurn
  <2> QED BY <2>1 DEF QueryRuns, Handed, InTurn
<1>2. CASE Drain \/ handleQueryEvent
  <2>1. events # <<>> /\ events' = Tail(events) /\ UNCHANGED <<query, qmsgs, loop>>
    BY <1>2 DEF Drain, handleQueryEvent, queryVars
  <2>2. Handed'
    <3>1. \/ events' = <<>>
          \/ query' = "top" /\ events' = <<QueryEvent("message", <<"user">>)>>
          \/ query' = "done" /\ events' = Ends("result")
          \/ query' = "done" /\ events' = Ends("error")
      BY <2>1, HandedNext DEF QueryRuns, Ends
    <3> QED BY <3>1 DEF Handed
  <2> QED BY <2>1, <2>2 DEF QueryRuns, InTurn
<1>3. CASE Exit \/ TurnStopped \/ EndTurn
  <2>1. /\ UNCHANGED <<events, qmsgs>>
        /\ \/ loop = "idle" /\ query' = query
           \/ loop' = "drain" /\ query' = query
           \/ events = <<>> /\ query' = "none"
    BY <1>3 DEF Exit, TurnStopped, EndTurn, queryVars
  <2> QED BY <2>1 DEF QueryRuns, Handed, InTurn
<1>4. CASE \/ IdleNotify \/ IdleUsage \/ IdleInterrupt \/ reset \/ AnswerMessages \/ AnswerTotal
           \/ TurnInterrupt \/ TurnNotify \/ TurnUsage \/ TurnDrop
  <2>1. UNCHANGED <<query, events, qmsgs, loop>>
    BY <1>4 DEF IdleNotify, IdleUsage, IdleInterrupt, reset, AnswerMessages, AnswerTotal,
                TurnInterrupt, TurnNotify, TurnUsage, TurnDrop, queryVars
  <2> QED BY <2>1, RunsRest
<1> QED BY <1>1, <1>2, <1>3, <1>4 DEF LoopStep

LEMMA RunsQuery == ASSUME QueryRuns, QueryStep PROVE QueryRuns'
<1>1. query # "none" /\ query' # "none" /\ UNCHANGED loop
  BY QueryDoes
<1>2. Handed'
  BY QueryDoes DEF Handed, Ends
<1> QED BY <1>1, <1>2 DEF QueryRuns, InTurn

LEMMA RunsKept == ASSUME QueryRuns, [Next]_vars PROVE QueryRuns'
<1>1. CASE (\E k \in {"notify", "usage", "interrupt"} : Offer(k)) \/ CallMessages \/ Stop
  BY <1>1, SendsLeave, RunsRest
<1>2. CASE DriverStep
  BY <1>2, DriverDoes, RunsRest
<1>3. CASE Restart
  BY <1>3 DEF Restart, QueryRuns, Handed
<1>4. CASE UNCHANGED vars
  BY <1>4, RunsRest DEF vars, queryVars
<1> QED BY <1>1, <1>2, <1>3, <1>4, RunsLoop, RunsQuery DEF Next

-----------------------------------------------------------------------------
(* The two histories.                                                      *)

LEMMA SpokenAppend ==
  ASSUME NEW s \in Seq(Kinds), NEW x \in Kinds
  PROVE  Spoken(Append(s, x)) =
           IF x \in {"note", "memory"} THEN Spoken(s) ELSE Append(Spoken(s), x)
BY WithoutAppend DEF Spoken

LEMMA ExtendedBy ==
  ASSUME NEW s \in Seq(Kinds), NEW x \in Kinds, NEW t
  PROVE  /\ Extended(s, QueryEvent("usage", <<x>>)) = Append(s, x)
         /\ Extended(s, QueryEvent("message", <<x>>)) = Append(s, x)
         /\ Extended(s, QueryEvent("error", <<>>)) = s
         /\ Extended(s, QueryEvent("result", <<>>)) = s
         /\ Extended(s, QueryEvent("compacted", t)) = t
<1>1. s \o <<x>> = Append(s, x) /\ s \o <<>> = s
  OBVIOUS
<1> QED BY <1>1 DEF Extended, QueryEvent

(* Taking an event changes nothing once all are taken.                     *)
LEMMA CaughtUpNext ==
  ASSUME Handed, events # <<>>, NEW s
  PROVE  CaughtUp(Extended(s, Head(events)), Tail(events)) = CaughtUp(s, events)
<1>1. (\E e : events = <<e>>) \/ (\E d, e : events = <<d, e>>)
  BY DEF Handed, Ends
<1>2. ASSUME NEW e, events = <<e>>
      PROVE  CaughtUp(Extended(s, Head(events)), Tail(events)) = CaughtUp(s, events)
  <2>1. Head(events) = e /\ Tail(events) = <<>>
    BY <1>2, OneOrTwo
  <2> QED BY <1>2, <2>1, CaughtUpOne, CaughtUpNone
<1>3. ASSUME NEW d, NEW e, events = <<d, e>>
      PROVE  CaughtUp(Extended(s, Head(events)), Tail(events)) = CaughtUp(s, events)
  <2>1. Head(events) = d /\ Tail(events) = <<e>>
    BY <1>3, OneOrTwo
  <2> QED BY <1>3, <2>1, CaughtUpOne, CaughtUpTwo
<1> QED BY <1>1, <1>2, <1>3

(* What an event adds does not depend on notes.                            *)
LEMMA ExtendedAgrees ==
  ASSUME NEW s \in Seq(Kinds), NEW t \in Seq(Kinds), Spoken(s) = Spoken(t),
         NEW e \in Events,
         \/ e.kind = "compacted"
         \/ \E k \in {"usage", "message"}, x \in Kinds : e = QueryEvent(k, <<x>>)
         \/ e \in {QueryEvent("error", <<>>), QueryEvent("result", <<>>)}
  PROVE  Spoken(Extended(s, e)) = Spoken(Extended(t, e))
<1>1. CASE e.kind = "compacted"
  BY <1>1 DEF Extended
<1>2. CASE \E k \in {"usage", "message"}, x \in Kinds : e = QueryEvent(k, <<x>>)
  <2>1. PICK k \in {"usage", "message"}, x \in Kinds : e = QueryEvent(k, <<x>>)
    BY <1>2
  <2>2. Extended(s, e) = Append(s, x) /\ Extended(t, e) = Append(t, x)
    BY <2>1, ExtendedBy
  <2> QED BY <2>2, SpokenAppend
<1>3. CASE e \in {QueryEvent("error", <<>>), QueryEvent("result", <<>>)}
  <2>1. Extended(s, e) = s /\ Extended(t, e) = t
    BY <1>3, ExtendedBy, KindsHere
  <2> QED BY <2>1
<1> QED BY <1>1, <1>2, <1>3

LEMMA CaughtUpAgrees ==
  ASSUME Handed, events \in Seq(Events), NEW s \in Seq(Kinds), NEW t \in Seq(Kinds),
         Spoken(s) = Spoken(t)
  PROVE  Spoken(CaughtUp(s, events)) = Spoken(CaughtUp(t, events))
<1> DEFINE Plain(e) ==
             \/ e.kind = "compacted"
             \/ \E k \in {"usage", "message"}, x \in Kinds : e = QueryEvent(k, <<x>>)
             \/ e \in {QueryEvent("error", <<>>), QueryEvent("result", <<>>)}
<1>1. \/ events = <<>>
      \/ \E e : events = <<e>> /\ Plain(e)
      \/ \E d, e : events = <<d, e>> /\ Plain(d) /\ Plain(e)
  BY KindsHere DEF Handed, Ends, QueryEvent
<1>2. CASE events = <<>>
  BY <1>2, CaughtUpNone
<1>3. ASSUME NEW e, events = <<e>>, Plain(e)
      PROVE  Spoken(CaughtUp(s, events)) = Spoken(CaughtUp(t, events))
  <2>1. e \in Events
    <3>1. 1 \in 1 .. Len(events) /\ events[1] = e
      BY <1>3
    <3> QED BY <3>1
  <2>2. CaughtUp(s, events) = Extended(s, e) /\ CaughtUp(t, events) = Extended(t, e)
    BY <1>3, CaughtUpOne
  <2> QED BY <1>3, <2>1, <2>2, ExtendedAgrees
<1>4. ASSUME NEW d, NEW e, events = <<d, e>>, Plain(d), Plain(e)
      PROVE  Spoken(CaughtUp(s, events)) = Spoken(CaughtUp(t, events))
  <2>1. d \in Events /\ e \in Events
    <3>1. 1 \in 1 .. Len(events) /\ 2 \in 1 .. Len(events) /\ events[1] = d /\ events[2] = e
      BY <1>4
    <3> QED BY <3>1
  <2>2. /\ CaughtUp(s, events) = Extended(Extended(s, d), e)
        /\ CaughtUp(t, events) = Extended(Extended(t, d), e)
    BY <1>4, CaughtUpTwo
  <2>3. Spoken(Extended(s, d)) = Spoken(Extended(t, d))
    BY <1>4, <2>1, ExtendedAgrees
  <2>4. Extended(s, d) \in Seq(Kinds) /\ Extended(t, d) \in Seq(Kinds)
    BY <2>1, ExtendedType
  <2> HIDE DEF Plain
  <2>5. PICK sd \in Seq(Kinds), td \in Seq(Kinds) : sd = Extended(s, d) /\ td = Extended(t, d)
    BY <2>4
  <2>6. Spoken(Extended(sd, e)) = Spoken(Extended(td, e))
    BY <1>4, <2>1, <2>3, <2>5, ExtendedAgrees DEF Plain
  <2> QED BY <2>2, <2>5, <2>6
<1> QED BY <1>1, <1>2, <1>3, <1>4

LEMMA SpokenSame ==
  ASSUME NEW s \in Seq(Kinds), NEW t \in Seq(Kinds), NEW x \in Kinds, Spoken(s) = Spoken(t)
  PROVE  Spoken(Append(s, x)) = Spoken(Append(t, x))
<1>1. /\ Spoken(Append(s, x)) =
           IF x \in {"note", "memory"} THEN Spoken(s) ELSE Append(Spoken(s), x)
      /\ Spoken(Append(t, x)) =
           IF x \in {"note", "memory"} THEN Spoken(t) ELSE Append(Spoken(t), x)
  BY SpokenAppend, Zenon
<1> QED BY <1>1, Zenon

LEMMA AgreesRest ==
  ASSUME HistoryAgrees, UNCHANGED <<messages, events, qmsgs>>, loop' = loop \/ loop' # "turn"
  PROVE  HistoryAgrees'
BY DEF HistoryAgrees

LEMMA AgreesLoop ==
  ASSUME HistoryAgrees, EngineTypes, QueryRuns, LoopStep
  PROVE  HistoryAgrees'
<1>1. CASE StartTurn
  <2>1. PICK m : m = AddPrompt(repairOrphanToolUses(messages))
    OBVIOUS
  <2>2. m \in Seq(Kinds) /\ m # <<>> /\ Last0(m) \in FromUser
    BY <2>1, PromptLast DEF EngineTypes
  <2>3. messages' = m /\ qmsgs' \in {m, injectRelevantMemories(m)} /\ events' = <<>>
    <3>1. loop = "idle" /\ UNCHANGED events
      BY <1>1 DEF StartTurn, Take
    <3> QED BY <1>1, <2>1, <3>1 DEF StartTurn, QueryRuns, InTurn
  <2>4. Spoken(injectRelevantMemories(m)) = Spoken(m)
    <3>1. PICK h \in Seq(Kinds), x \in FromUser :
            m = Append(h, x) /\ injectRelevantMemories(m) = Append(Append(h, "memory"), x)
      BY <2>2, InjectedIs
    <3>2. x \in Kinds
      BY DEF Kinds
    <3>3. PICK g \in Seq(Kinds) : g = Append(h, "memory")
      <4>1. Append(h, "memory") \in Seq(Kinds)
        BY KindsHere
      <4> QED BY <4>1
    <3>4. Spoken(g) = Spoken(h)
      BY <3>3, KindsHere, SpokenAppend
    <3>5. Spoken(Append(g, x)) = Spoken(Append(h, x))
      BY <3>2, <3>4, SpokenSame
    <3> QED BY <3>1, <3>3, <3>5
  <2>5. CaughtUp(messages', events') = m
    BY <2>3, CaughtUpNone
  <2>6. Spoken(qmsgs') = Spoken(m)
    BY <2>3, <2>4
  <2> QED BY <2>5, <2>6 DEF HistoryAgrees
<1>2. CASE TurnNotify
  <2>1. messages' = Append(messages, "note") /\ loop = "turn" /\ UNCHANGED <<qmsgs, events, loop>>
    BY <1>2 DEF TurnNotify, Take, queryVars
  <2>2. PICK m \in Seq(Kinds) : m = Append(messages, "note")
    <3>1. Append(messages, "note") \in Seq(Kinds)
      BY KindsHere DEF EngineTypes
    <3> QED BY <3>1
  <2>3. Spoken(m) = Spoken(messages)
    BY <2>2, KindsHere, SpokenAppend DEF EngineTypes
  <2>4. Spoken(CaughtUp(m, events)) = Spoken(CaughtUp(messages, events))
    BY <2>3, CaughtUpAgrees DEF EngineTypes, QueryRuns
  <2> QED BY <2>1, <2>2, <2>4 DEF HistoryAgrees
<1>3. CASE handleQueryEvent
  <2>1. events # <<>> /\ events' = Tail(events) /\ messages' = Extended(messages, Head(events))
        /\ loop = "turn" /\ UNCHANGED qmsgs
    BY <1>3 DEF handleQueryEvent, queryVars
  <2>2. CaughtUp(messages', events') = CaughtUp(messages, events)
    BY <2>1, CaughtUpNext DEF QueryRuns
  <2> QED BY <2>1, <2>2 DEF HistoryAgrees
<1>4. CASE \/ IdleNotify \/ reset \/ Drain \/ IdleUsage \/ IdleInterrupt \/ AnswerMessages
           \/ AnswerTotal
  <2>1. loop' # "turn"
    BY <1>4 DEF IdleNotify, reset, Drain, IdleUsage, IdleInterrupt, AnswerMessages, AnswerTotal,
                Take
  <2> QED BY <2>1 DEF HistoryAgrees
<1>5. CASE TurnInterrupt \/ TurnUsage \/ TurnDrop \/ Exit \/ TurnStopped \/ EndTurn
  <2>1. UNCHANGED <<messages, events, qmsgs>> /\ (loop' = loop \/ loop' # "turn")
    BY <1>5 DEF TurnInterrupt, TurnUsage, TurnDrop, Exit, TurnStopped, EndTurn, queryVars
  <2> QED BY <2>1, AgreesRest
<1> QED BY <1>1, <1>2, <1>3, <1>4, <1>5 DEF LoopStep

LEMMA AgreesQuery ==
  ASSUME HistoryAgrees, EngineTypes, QueryStep
  PROVE  HistoryAgrees'
<1> SUFFICES ASSUME loop = "turn"
             PROVE  Spoken(CaughtUp(messages, events')) = Spoken(qmsgs')
  BY QueryDoes DEF HistoryAgrees
<1>1. Spoken(messages) = Spoken(qmsgs)
  BY QueryDoes, CaughtUpNone DEF HistoryAgrees
<1>2. messages \in Seq(Kinds) /\ qmsgs \in Seq(Kinds)
  BY DEF EngineTypes
<1>3. CASE qmsgs' = qmsgs /\ events' = <<>>
  BY <1>1, <1>3, CaughtUpNone
<1>4. CASE qmsgs' = qmsgs /\ events' = <<QueryEvent("error", <<>>)>>
  <2>1. CaughtUp(messages, events') = Extended(messages, QueryEvent("error", <<>>))
    BY <1>4, CaughtUpOne, Zenon
  <2>2. Extended(messages, QueryEvent("error", <<>>)) = messages
    BY <1>2, ExtendedBy, KindsHere
  <2> QED BY <1>1, <1>4, <2>1, <2>2
<1>5. CASE events' = <<QueryEvent("compacted", qmsgs')>>
  <2>1. CaughtUp(messages, events') = Extended(messages, QueryEvent("compacted", qmsgs'))
    BY <1>5, CaughtUpOne, Zenon
  <2>2. Extended(messages, QueryEvent("compacted", qmsgs')) = qmsgs'
    BY DEF Extended, QueryEvent
  <2> QED BY <2>1, <2>2
<1>6. ASSUME NEW x \in Kinds, NEW k \in {"usage", "message"}, qmsgs' = Append(qmsgs, x),
             events' = <<QueryEvent(k, <<x>>)>>
      PROVE  Spoken(CaughtUp(messages, events')) = Spoken(qmsgs')
  <2>1. CaughtUp(messages, events') = Append(messages, x)
    <3>1. CaughtUp(messages, events') = Extended(messages, QueryEvent(k, <<x>>))
      BY <1>6, CaughtUpOne, Zenon
    <3>2. Extended(messages, QueryEvent(k, <<x>>)) = Append(messages, x)
      BY <1>2, ExtendedBy
    <3> QED BY <3>1, <3>2
  <2>2. Spoken(Append(messages, x)) = Spoken(Append(qmsgs, x))
    BY <1>1, <1>2, SpokenSame
  <2> QED BY <1>6, <2>1, <2>2
<1>7. ASSUME NEW x \in Kinds, NEW k \in {"usage", "message"}, NEW j \in {"result", "error"},
             qmsgs' = Append(qmsgs, x),
             events' = <<QueryEvent(k, <<x>>), QueryEvent(j, <<>>)>>
      PROVE  Spoken(CaughtUp(messages, events')) = Spoken(qmsgs')
  <2>1. PICK m \in Seq(Kinds) : m = Append(messages, x)
    <3>1. Append(messages, x) \in Seq(Kinds)
      BY <1>2
    <3> QED BY <3>1
  <2>2. CaughtUp(messages, events') =
          Extended(Extended(messages, QueryEvent(k, <<x>>)), QueryEvent(j, <<>>))
    BY <1>7, CaughtUpTwo
  <2>3. Extended(messages, QueryEvent(k, <<x>>)) = m
    BY <1>2, <2>1, ExtendedBy
  <2>4. Extended(m, QueryEvent(j, <<>>)) = m
    BY ExtendedBy
  <2>5. CaughtUp(messages, events') = Append(messages, x)
    BY <2>1, <2>2, <2>3, <2>4
  <2>6. Spoken(Append(messages, x)) = Spoken(Append(qmsgs, x))
    BY <1>1, <1>2, SpokenSame
  <2> QED BY <1>7, <2>5, <2>6
<1>8. CASE /\ qmsgs' = qmsgs \o <<"text", "user">>
           /\ events' = <<QueryEvent("usage", <<"text">>), QueryEvent("message", <<"user">>)>>
  <2>1. PICK m \in Seq(Kinds), q \in Seq(Kinds) :
          m = Append(messages, "text") /\ q = Append(qmsgs, "text")
    <3>1. Append(messages, "text") \in Seq(Kinds) /\ Append(qmsgs, "text") \in Seq(Kinds)
      BY <1>2, KindsHere
    <3> QED BY <3>1
  <2>2. Spoken(m) = Spoken(q)
    BY <1>1, <1>2, <2>1, KindsHere, SpokenSame
  <2>3. Extended(messages, QueryEvent("usage", <<"text">>)) = m
    BY <1>2, <2>1, ExtendedBy, KindsHere
  <2>4. Extended(m, QueryEvent("message", <<"user">>)) = Append(m, "user")
    BY ExtendedBy, KindsHere
  <2>5. CaughtUp(messages, events') = Append(m, "user")
    BY <1>8, <2>3, <2>4, CaughtUpTwo
  <2>6. qmsgs' = Append(q, "user")
    BY <1>2, <1>8, <2>1, KindsHere
  <2>7. Spoken(Append(m, "user")) = Spoken(Append(q, "user"))
    BY <2>2, KindsHere, SpokenSame
  <2> QED BY <2>5, <2>6, <2>7
<1> QED BY <1>3, <1>4, <1>5, <1>6, <1>7, <1>8, QueryDoes, KindsHere

LEMMA AgreesKept ==
  ASSUME HistoryAgrees, EngineTypes, QueryRuns, [Next]_vars
  PROVE  HistoryAgrees'
<1>1. CASE (\E k \in {"notify", "usage", "interrupt"} : Offer(k)) \/ CallMessages \/ Stop
  BY <1>1, SendsLeave, AgreesRest
<1>2. CASE DriverStep
  BY <1>2, DriverDoes, AgreesRest
<1>3. CASE Restart
  BY <1>3 DEF Restart, HistoryAgrees
<1>4. CASE UNCHANGED vars
  BY <1>4, AgreesRest DEF vars, queryVars
<1> QED BY <1>1, <1>2, <1>3, <1>4, AgreesLoop, AgreesQuery DEF Next

-----------------------------------------------------------------------------
(* Histories that a message is added to.                                   *)

Hiding(s) == \A i \in Unanswered(s, Skipped) : Hidden(s, i)

LEMMA InRange ==
  ASSUME NEW s \in Seq(Kinds), NEW i \in Unanswered(s, Skipped)
  PROVE  i \in 1 .. Len(s)
BY DEF Unanswered

(* A message that neither asks nor answers.                                *)
LEMMA SoundAppend ==
  ASSUME NEW s \in Seq(Kinds), NEW x \in Kinds, x \notin {"results", "tools", "boundary"},
         Sound(s), Hiding(s) \/ x = "note"
  PROVE  /\ Sound(Append(s, x)) /\ Hiding(Append(s, x))
         /\ \A i \in Unanswered(Append(s, x), Skipped) :
              i \in Unanswered(s, Skipped) /\ Hidden(Append(s, x), i)
<1>1. PICK t : t = Append(s, x)
  OBVIOUS
<1>2. Leads(t) /\ Unasked(t, Skipped) = {}
  BY <1>1, LeadsAppend, PairsAppend DEF Sound
<1>3. ASSUME NEW i \in Unanswered(t, Skipped)
      PROVE  i \in Unanswered(s, Skipped) /\ Hidden(t, i)
  <2>1. i \in Unanswered(s, Skipped)
    BY <1>1, <1>3, PairsAppend
  <2>2. (i = Len(s) /\ x = "note") \/ Hidden(s, i)
    BY <2>1 DEF Hiding, Sound
  <2> QED BY <1>1, <2>1, <2>2, PairsAppend
<1> QED BY <1>1, <1>2, <1>3 DEF Sound, Hiding

(* Results that answer the last message but for notices.                   *)
LEMMA SoundResults ==
  ASSUME NEW s \in Seq(Kinds), Leads(s), Unasked(s, Skipped) = {}, Open(s),
         \A i \in Unanswered(s, Skipped) : Hidden(s, i) \/ Notes(s, i)
  PROVE  /\ Sound(Append(s, "results")) /\ Hiding(Append(s, "results"))
         /\ \A i \in Unanswered(Append(s, "results"), Skipped) :
              i \in Unanswered(s, Skipped) /\ ~Notes(s, i) /\ Hidden(Append(s, "results"), i)
<1>1. PICK t : t = Append(s, "results")
  OBVIOUS
<1>2. Leads(t) /\ Unasked(t, Skipped) = {}
  BY <1>1, KindsHere, LeadsAppend, ResultsAppend
<1>3. ASSUME NEW i \in Unanswered(t, Skipped)
      PROVE  i \in Unanswered(s, Skipped) /\ ~Notes(s, i) /\ Hidden(t, i)
  <2>1. i \in Unanswered(s, Skipped)
    BY <1>1, <1>3, KindsHere, PairsAppend
  <2>2. ~Notes(s, i)
    BY <1>1, <1>3, ResultsAppend
  <2>3. Hidden(s, i)
    BY <2>1, <2>2
  <2> QED BY <1>1, <2>1, <2>2, <2>3, KindsHere, PairsAppend
<1> QED BY <1>1, <1>2, <1>3 DEF Sound, Hiding

(* Tool calls that have no answer yet.                                     *)
LEMMA SoundTools ==
  ASSUME NEW s \in Seq(Kinds), Sound(s), Hiding(s)
  PROVE  LET t == Append(s, "tools") IN
         /\ Sound(t) /\ Open(t) /\ Last0(t) = "tools"
         /\ \A i \in Unanswered(t, Skipped) :
              \/ i \in Unanswered(s, Skipped) /\ Hidden(t, i)
              \/ i = Len(t) /\ Notes(t, i)
<1>1. PICK t : t = Append(s, "tools")
  OBVIOUS
<1>2. t \in Seq(Kinds) /\ Len(t) = Len(s) + 1 /\ t[Len(s) + 1] = "tools" /\ Len(s) \in Nat
  BY <1>1, KindsHere
<1>3. Leads(t) /\ Unasked(t, Skipped) = {}
  BY <1>1, KindsHere, LeadsAppend, PairsAppend DEF Sound
<1>4. Notes(t, Len(t)) /\ Open(t) /\ Last0(t) = "tools"
  <2>1. Notes(t, Len(t))
    BY <1>2 DEF Notes
  <2>2. Open(t)
    BY <1>2, <2>1 DEF Open
  <2>3. Last0(t) = "tools"
    BY <1>2 DEF Last0
  <2> QED BY <2>1, <2>2, <2>3
<1>5. ASSUME NEW i \in Unanswered(t, Skipped)
      PROVE  (i \in Unanswered(s, Skipped) /\ Hidden(t, i)) \/ (i = Len(t) /\ Notes(t, i))
  <2>1. i \in Unanswered(s, Skipped) \/ i = Len(s) + 1
    BY <1>1, <1>5, KindsHere, PairsAppend
  <2>2. CASE i \in Unanswered(s, Skipped)
    <3>1. Hidden(s, i)
      BY <2>2 DEF Hiding
    <3> QED BY <1>1, <2>2, <3>1, KindsHere, PairsAppend
  <2>3. CASE i = Len(s) + 1
    BY <1>2, <1>4, <2>3
  <2> QED BY <2>1, <2>2, <2>3
<1>6. Sound(t)
  BY <1>3, <1>5 DEF Sound
<1> QED BY <1>1, <1>4, <1>5, <1>6

LEMMA NotesAppend ==
  ASSUME NEW s \in Seq(Kinds)
  PROVE  /\ \A i \in 1 .. Len(s) : Notes(s, i) => Notes(Append(s, "note"), i)
         /\ Open(s) => Open(Append(s, "note"))
         /\ Last0(s) = "tools" => Open(s) /\ Notes(s, Len(s))
<1>1. PICK t : t = Append(s, "note")
  OBVIOUS
<1>2. Len(t) = Len(s) + 1 /\ t[Len(s) + 1] = "note" /\ Len(s) \in Nat
      /\ \A i \in 1 .. Len(s) : t[i] = s[i]
  BY <1>1, KindsHere
<1>3. \A i \in 1 .. Len(s) : Notes(s, i) => Notes(t, i)
  <2>1. ASSUME NEW i \in 1 .. Len(s), Notes(s, i), NEW k \in (i + 1) .. Len(t)
        PROVE  t[k] = "note"
    <3>1. CASE k = Len(s) + 1
      BY <1>2, <3>1
    <3>2. CASE k # Len(s) + 1
      BY <1>2, <2>1, <3>2 DEF Notes
    <3> QED BY <3>1, <3>2
  <2> QED BY <2>1 DEF Notes
<1>4. Open(s) => Open(t)
  BY <1>2, <1>3 DEF Open
<1>5. ASSUME Last0(s) = "tools" PROVE Open(s) /\ Notes(s, Len(s))
  <2>1. s # <<>> /\ s[Len(s)] = "tools"
    BY <1>5 DEF Last0
  <2>2. Len(s) \in 1 .. Len(s)
    BY <2>1
  <2>3. Notes(s, Len(s))
    BY <1>2 DEF Notes
  <2> QED BY <2>1, <2>2, <2>3 DEF Open
<1> QED BY <1>1, <1>3, <1>4, <1>5

LEMMA SoundEmpty == Sound(<<>>) /\ Unanswered(<<>>, Skipped) = {}
<1>1. Len(<<>>) = 0 /\ DOMAIN <<>> = {}
  OBVIOUS
<1> QED BY <1>1 DEF Sound, Leads, Unasked, Unanswered

-----------------------------------------------------------------------------
(* Requests.                                                               *)

LEMMA AwaitedIs ==
  /\ \A k, s : QueryEvent(k, s).kind = k
  /\ \A k, s : k # "message" \/ s # <<"results">> =>
       QueryEvent(k, s) # QueryEvent("message", <<"results">>)
<1>1. \A k, s : QueryEvent(k, s).kind = k /\ QueryEvent(k, s).msgs = s
  BY DEF QueryEvent
<1> QED BY <1>1

(* Steps that change no history.                                           *)
LEMMA PairRest ==
  ASSUME PairInv, UNCHANGED <<messages, session, loaded, qmsgs, query, events, loop>>,
         loop = "idle" => ~Stopped \/ Stopped', loop = "drain" => Stopped'
  PROVE  PairInv'
BY DEF PairInv, Awaited, Legacy, InTurn

(* Notes are appended between turns and in them.                           *)
LEMMA PairNote ==
  ASSUME PairInv, EngineTypes, IdleNotify \/ TurnNotify
  PROVE  PairInv'
<1>1. /\ messages' = Append(messages, "note") /\ loop \in {"idle", "turn"} /\ cmdCh # <<>>
      /\ UNCHANGED <<session, loaded, qmsgs, query, events, loop>>
  BY DEF IdleNotify, TurnNotify, Take, queryVars, driverVars, hostVars
<1>2. PICK m : m = Append(messages, "note")
  OBVIOUS
<1>3. messages \in Seq(Kinds) /\ Sound(messages)
  BY DEF EngineTypes, PairInv
<1>4. /\ Sound(m)
      /\ \A i \in Unanswered(m, Skipped) : i \in Unanswered(messages, Skipped) /\ Hidden(m, i)
  BY <1>2, <1>3, KindsHere, SoundAppend
<1>5. (loop = "idle" => ~Stopped) /\ InTurn' = InTurn /\ Legacy' = Legacy /\ Awaited' = Awaited
  BY <1>1 DEF Stopped, InTurn, Legacy, Awaited
<1>6. CASE loop = "idle"
  <2>1. Unanswered(m, Skipped) # {} => Legacy
    BY <1>4, <1>5, <1>6 DEF PairInv
  <2> QED BY <1>1, <1>2, <1>4, <1>5, <1>6, <2>1 DEF PairInv, InTurn
<1>7. CASE loop = "turn"
  <2>1. ASSUME NEW i \in Unanswered(m, Skipped)
        PROVE  (Legacy /\ Hidden(m, i)) \/ (Awaited /\ Notes(m, i))
    <3>1. i \in Unanswered(messages, Skipped) /\ Hidden(m, i) /\ i \in 1 .. Len(messages)
      BY <1>3, <1>4, InRange
    <3>2. Legacy \/ (Awaited /\ Notes(messages, i))
      BY <1>7, <3>1 DEF PairInv
    <3> QED BY <1>2, <1>3, <3>1, <3>2, NotesAppend
  <2>2. Awaited => Open(m)
    BY <1>2, <1>3, <1>7, NotesAppend DEF PairInv
  <2> QED BY <1>1, <1>2, <1>4, <1>5, <1>7, <2>1, <2>2 DEF PairInv, InTurn
<1> QED BY <1>1, <1>6, <1>7

(* A turn answers the tool calls that the last one left, unless notes hide *)
(* them.                                                                   *)
LEMMA PairStart ==
  ASSUME PairInv, EngineTypes, QueryRuns, StartTurn
  PROVE  PairInv'
<1>1. PICK r, m : r = repairOrphanToolUses(messages) /\ m = AddPrompt(r)
  OBVIOUS
<1>2. /\ r = messages \/ (Last0(messages) = "tools" /\ r = Append(messages, "results"))
      /\ r \in Seq(Kinds) /\ Last0(r) # "tools"
      /\ m = r \/ m = Append(r, "user")
      /\ m \in Seq(Kinds) /\ m # <<>> /\ Last0(m) \in FromUser
  BY <1>1, PromptLast DEF EngineTypes
<1>3. /\ loop = "idle" /\ cmdCh # <<>> /\ loop' = "turn" /\ messages' = m
      /\ qmsgs' \in {m, injectRelevantMemories(m)} /\ query' = "top"
      /\ UNCHANGED <<session, loaded, events>>
  BY <1>1 DEF StartTurn, Take, driverVars, hostVars
<1>4. messages \in Seq(Kinds) /\ Sound(messages)
  BY DEF EngineTypes, PairInv
<1>5. Unanswered(messages, Skipped) # {} => Legacy
  BY <1>3 DEF PairInv, Stopped
<1>6. /\ Sound(r) /\ Hiding(r)
      /\ \A i \in Unanswered(r, Skipped) : i \in Unanswered(messages, Skipped)
  <2>1. CASE Last0(messages) = "tools"
    <3>1. Open(messages) /\ Notes(messages, Len(messages)) /\ r = Append(messages, "results")
      BY <1>2, <1>4, <2>1, NotesAppend
    <3>2. \A i \in Unanswered(messages, Skipped) : Hidden(messages, i) \/ Notes(messages, i)
      BY <1>4, <3>1 DEF Sound
    <3> QED BY <1>4, <3>1, <3>2, SoundResults DEF Sound
  <2>2. CASE Last0(messages) # "tools"
    <3>1. r = messages
      BY <1>2, <2>2
    <3>2. ASSUME NEW i \in Unanswered(messages, Skipped), i = Len(messages)
          PROVE  FALSE
      <4>1. i \in 1 .. Len(messages) /\ messages[i] = "tools"
        BY <1>4, InRange DEF Unanswered
      <4>2. messages # <<>>
        BY <1>4, <4>1
      <4> QED BY <2>2, <3>2, <4>1, <4>2 DEF Last0
    <3> QED BY <1>4, <3>1, <3>2 DEF Hiding, Sound
  <2> QED BY <2>1, <2>2
<1>7. /\ Sound(m) /\ Hiding(m)
      /\ \A i \in Unanswered(m, Skipped) : i \in Unanswered(messages, Skipped)
  <2>1. CASE m = r
    BY <1>6, <2>1
  <2>2. CASE m = Append(r, "user")
    <3>1. /\ Sound(m) /\ Hiding(m)
          /\ \A i \in Unanswered(m, Skipped) : i \in Unanswered(r, Skipped)
      BY <1>2, <1>6, <2>2, KindsHere, SoundAppend
    <3> QED BY <1>6, <3>1
  <2> QED BY <1>2, <2>1, <2>2
<1>8. ASSUME NEW q \in {m, injectRelevantMemories(m)}
      PROVE  /\ Leads(q) /\ Unasked(q, Skipped) = {}
             /\ \A i \in Unanswered(q, Skipped) : Legacy /\ Hidden(q, i)
  <2>1. CASE q = m
    BY <1>5, <1>7, <2>1 DEF Sound, Hiding
  <2>2. CASE q = injectRelevantMemories(m)
    <3>1. /\ Leads(q) /\ Unasked(q, Skipped) = {}
          /\ \A i \in Unanswered(q, Skipped) :
               i \in Unanswered(m, Skipped) /\ (Hidden(m, i) => Hidden(q, i))
      BY <1>2, <1>7, <2>2, InjectedPairs DEF Sound
    <3> QED BY <1>5, <1>7, <3>1 DEF Hiding
  <2> QED BY <2>1, <2>2
<1>9. events' = <<>> /\ ~Awaited'
  BY <1>3 DEF QueryRuns, InTurn, Awaited
<1>10. Sound(messages') /\ Sound(session'.msgs)
  BY <1>3, <1>7 DEF PairInv
<1>11. \A i \in Unanswered(messages', Skipped) : Legacy' /\ Hidden(messages', i)
  <2>1. Legacy' = Legacy
    BY <1>3 DEF Legacy
  <2> QED BY <1>3, <1>5, <1>7, <2>1 DEF Hiding
<1>12. /\ Leads(qmsgs') /\ Unasked(qmsgs', Skipped) = {}
       /\ \A i \in Unanswered(qmsgs', Skipped) : Legacy' /\ Hidden(qmsgs', i)
  <2>1. Legacy' = Legacy
    BY <1>3 DEF Legacy
  <2> QED BY <1>3, <1>8, <2>1
<1> QED BY <1>3, <1>9, <1>10, <1>11, <1>12 DEF PairInv

(* An event is taken into the history of the engine.                       *)
LEMMA PairEvent ==
  ASSUME PairInv, EngineTypes, QueryRuns, handleQueryEvent
  PROVE  PairInv'
<1>1. /\ loop = "turn" /\ InTurn /\ events # <<>> /\ events' = Tail(events)
      /\ messages' = Extended(messages, Head(events))
      /\ UNCHANGED <<session, loaded, qmsgs, query, loop>>
  BY DEF handleQueryEvent, InTurn, queryVars, driverVars, hostVars
<1>2. PICK m, e : m = Extended(messages, e) /\ e = Head(events)
  OBVIOUS
<1>3. messages \in Seq(Kinds) /\ Sound(messages) /\ qmsgs \in Seq(Kinds)
  BY DEF EngineTypes, PairInv
<1>4. ASSUME ~Awaited
      PROVE  Hiding(messages) /\ (Unanswered(messages, Skipped) # {} => Legacy)
  BY <1>1, <1>4 DEF PairInv, Hiding
<1>5. /\ Sound(m)
      /\ \A i \in Unanswered(m, Skipped) : (Legacy /\ Hidden(m, i)) \/ (Awaited' /\ Notes(m, i))
      /\ Awaited' => Open(m)
  <2>1. CASE e.kind = "compacted"
    <3>1. query = "llm" /\ e = QueryEvent("compacted", qmsgs) /\ Tail(events) = <<>>
      BY <1>1, <1>2, <2>1, HandedNext, AwaitedIs DEF QueryRuns
    <3>2. m = qmsgs
      BY <1>2, <1>3, <3>1, ExtendedBy, KindsHere
    <3>3. ~Awaited'
      BY <1>1, <3>1 DEF Awaited
    <3>4. /\ Leads(qmsgs) /\ Unasked(qmsgs, Skipped) = {}
          /\ \A i \in Unanswered(qmsgs, Skipped) : Legacy /\ Hidden(qmsgs, i)
      BY <1>1, <3>1 DEF PairInv
    <3> QED BY <3>2, <3>3, <3>4 DEF Sound
  <2>2. CASE e = QueryEvent("message", <<"results">>)
    <3>1. query \in {"top", "done"}
          /\ (Tail(events) = <<>> \/ Tail(events) = <<QueryEvent("error", <<>>)>>)
      <4>1. e.kind = "message" /\ e.msgs = <<"results">>
        BY <2>2 DEF QueryEvent
      <4>2. <<"text">> # <<"results">> /\ <<"user">> # <<"results">>
        OBVIOUS
      <4> QED BY <1>1, <1>2, <4>1, <4>2, HandedNext DEF QueryRuns, QueryEvent
    <3>2. ~Awaited'
      <4>1. QueryEvent("error", <<>>) # QueryEvent("message", <<"results">>)
        BY AwaitedIs
      <4> QED BY <1>1, <3>1, <4>1, OneOrTwo DEF Awaited
    <3>3. Open(messages)
      BY <1>1, <1>2, <2>2 DEF PairInv, Awaited
    <3>4. m = Append(messages, "results")
      BY <1>2, <1>3, <2>2, ExtendedBy, KindsHere
    <3>5. \A i \in Unanswered(messages, Skipped) :
            (Legacy /\ Hidden(messages, i)) \/ Notes(messages, i)
      BY <1>1 DEF PairInv
    <3>6. /\ Sound(m) /\ Hiding(m)
          /\ \A i \in Unanswered(m, Skipped) :
               i \in Unanswered(messages, Skipped) /\ ~Notes(messages, i)
      BY <1>3, <3>3, <3>4, <3>5, SoundResults DEF Sound
    <3> QED BY <3>2, <3>5, <3>6 DEF Hiding
  <2>3. CASE e = QueryEvent("usage", <<"tools">>)
    <3>1. query = "tools" /\ Tail(events) = <<>>
      <4>1. e.kind = "usage" /\ e.msgs = <<"tools">>
        BY <2>3 DEF QueryEvent
      <4>2. <<"text">> # <<"tools">>
        OBVIOUS
      <4> QED BY <1>1, <1>2, <4>1, <4>2, HandedNext DEF QueryRuns, QueryEvent
    <3>2. Awaited'
      BY <1>1, <3>1 DEF Awaited
    <3>3. ~Awaited
      <4>1. e # QueryEvent("message", <<"results">>)
        BY <2>3, AwaitedIs
      <4> QED BY <1>1, <1>2, <4>1 DEF Awaited
    <3>4. m = Append(messages, "tools")
      BY <1>2, <1>3, <2>3, ExtendedBy, KindsHere
    <3>5. /\ Sound(m) /\ Open(m)
          /\ \A i \in Unanswered(m, Skipped) :
               \/ i \in Unanswered(messages, Skipped) /\ Hidden(m, i)
               \/ Notes(m, i)
      BY <1>3, <1>4, <3>3, <3>4, SoundTools
    <3> QED BY <1>4, <3>2, <3>3, <3>5
  <2>4. CASE \E k \in {"usage", "message"}, x \in {"text", "user"} : e = QueryEvent(k, <<x>>)
    <3>1. PICK k \in {"usage", "message"}, x \in {"text", "user"} : e = QueryEvent(k, <<x>>)
      BY <2>4
    <3>2. ~Awaited
      <4>1. <<x>> # <<"results">>
        OBVIOUS
      <4>2. e # QueryEvent("message", <<"results">>)
        BY <3>1, <4>1, AwaitedIs
      <4> QED BY <1>1, <1>2, <4>2 DEF Awaited
    <3>3. ~Awaited'
      <4>1. e.kind \in {"usage", "message"} /\ e.msgs = <<x>> /\ <<x>> # <<"results">>
            /\ <<x>> # <<"tools">>
        BY <3>1 DEF QueryEvent
      <4>2. /\ query \in {"top", "done"}
            /\ Tail(events) \in {<<>>, <<QueryEvent("message", <<"user">>)>>,
                                 <<QueryEvent("result", <<>>)>>}
        BY <1>1, <1>2, <4>1, HandedNext DEF QueryRuns, QueryEvent
      <4>3. <<"user">> # <<"results">>
        OBVIOUS
      <4>4. /\ QueryEvent("message", <<"user">>) # QueryEvent("message", <<"results">>)
            /\ QueryEvent("result", <<>>) # QueryEvent("message", <<"results">>)
        BY <4>3, AwaitedIs
      <4> QED BY <1>1, <4>2, <4>4, OneOrTwo DEF Awaited
    <3>4. m = Append(messages, x)
      <4>1. x \in Kinds
        BY KindsHere
      <4>2. Extended(messages, QueryEvent(k, <<x>>)) = Append(messages, x)
        BY <1>3, <4>1, ExtendedBy
      <4> QED BY <1>2, <3>1, <4>2
    <3>5. /\ Sound(m) /\ Hiding(m)
          /\ \A i \in Unanswered(m, Skipped) : i \in Unanswered(messages, Skipped)
      BY <1>3, <1>4, <3>2, <3>4, KindsHere, SoundAppend
    <3> QED BY <1>4, <3>2, <3>3, <3>5 DEF Hiding
  <2>5. CASE e \in {QueryEvent("error", <<>>), QueryEvent("result", <<>>)}
    <3>1. m = messages
      BY <1>2, <1>3, <2>5, ExtendedBy, KindsHere
    <3>2. ~Awaited
      <4>1. e # QueryEvent("message", <<"results">>)
        BY <2>5, AwaitedIs
      <4> QED BY <1>1, <1>2, <4>1 DEF Awaited
    <3>3. ~Awaited'
      <4>1. e.kind \in {"error", "result"}
        BY <2>5 DEF QueryEvent
      <4>2. query = "done" /\ Tail(events) = <<>>
        BY <1>1, <1>2, <4>1, HandedNext, AwaitedIs DEF QueryRuns
      <4> QED BY <1>1, <4>2 DEF Awaited
    <3> QED BY <1>3, <1>4, <3>1, <3>2, <3>3 DEF Hiding
  <2>6. \/ e = QueryEvent("compacted", qmsgs)
        \/ e = QueryEvent("message", <<"results">>)
        \/ e = QueryEvent("usage", <<"tools">>)
        \/ \E k \in {"usage", "message"}, x \in {"text", "user"} : e = QueryEvent(k, <<x>>)
        \/ e \in {QueryEvent("error", <<>>), QueryEvent("result", <<>>)}
    BY <1>1, <1>2, HandedNext DEF QueryRuns
  <2> QED BY <2>1, <2>2, <2>3, <2>4, <2>5, <2>6, AwaitedIs
<1>6. messages' = m /\ Legacy' = Legacy /\ InTurn'
  BY <1>1, <1>2 DEF Legacy, InTurn
<1> QED BY <1>1, <1>5, <1>6 DEF PairInv

(* The query adds to its history.                                          *)
LEMMA PairQuery ==
  ASSUME PairInv, EngineTypes, QueryRuns, QueryStep
  PROVE  PairInv'
<1>1. /\ events = <<>> /\ query # "none" /\ InTurn
      /\ UNCHANGED <<cmdCh, closed, loop, messages, session, loaded>>
  BY QueryDoes DEF QueryRuns
<1>2. qmsgs \in Seq(Kinds) /\ Leads(qmsgs) /\ Unasked(qmsgs, Skipped) = {}
      /\ (\A i \in Unanswered(qmsgs, Skipped) :
            (Legacy /\ Hidden(qmsgs, i)) \/ (query = "tools" /\ i = Len(qmsgs)))
      /\ (query = "tools" => Last0(qmsgs) = "tools")
  BY <1>1 DEF EngineTypes, PairInv
<1>3. PICK q : q = qmsgs'
  OBVIOUS
<1>4. /\ Leads(q) /\ Unasked(q, Skipped) = {}
      /\ (\A i \in Unanswered(q, Skipped) :
            (Legacy /\ Hidden(q, i)) \/ (query' = "tools" /\ i = Len(q)))
      /\ (query' = "tools" => Last0(q) = "tools")
  <2>1. CASE query # "tools" /\ q = qmsgs /\ query' # "tools"
    BY <1>2, <2>1
  <2>2. CASE query # "tools" /\ query' # "tools" /\ \E k \in Tails(qmsgs) : q = Compacted(qmsgs, k)
    <3>1. /\ Leads(q) /\ Unasked(q, Skipped) = {}
          /\ \A j \in Unanswered(q, Skipped) :
               \E i \in Unanswered(qmsgs, Skipped) : Hidden(qmsgs, i) => Hidden(q, j)
      BY <1>2, <2>2, CompactedPairs
    <3> QED BY <1>2, <2>2, <3>1
  <2>3. CASE query # "tools" /\ query' # "tools" /\ q = Append(qmsgs, "text")
    <3>1. Sound(qmsgs) /\ Hiding(qmsgs)
      BY <1>2, <2>3 DEF Sound, Hiding
    <3>2. /\ Sound(q) /\ Hiding(q)
          /\ \A i \in Unanswered(q, Skipped) : i \in Unanswered(qmsgs, Skipped)
      BY <1>2, <2>3, <3>1, KindsHere, SoundAppend
    <3> QED BY <1>2, <2>3, <3>2 DEF Sound, Hiding
  <2>4. CASE query # "tools" /\ query' # "tools" /\ q = qmsgs \o <<"text", "user">>
    <3>1. PICK t \in Seq(Kinds) : t = Append(qmsgs, "text")
      <4>1. Append(qmsgs, "text") \in Seq(Kinds)
        BY <1>2, KindsHere
      <4> QED BY <4>1
    <3>2. q = Append(t, "user")
      BY <1>2, <2>4, <3>1, KindsHere
    <3>3. Sound(qmsgs) /\ Hiding(qmsgs)
      BY <1>2, <2>4 DEF Sound, Hiding
    <3>4. /\ Sound(t) /\ Hiding(t)
          /\ \A i \in Unanswered(t, Skipped) : i \in Unanswered(qmsgs, Skipped)
      BY <1>2, <3>1, <3>3, KindsHere, SoundAppend
    <3>5. /\ Sound(q) /\ Hiding(q)
          /\ \A i \in Unanswered(q, Skipped) : i \in Unanswered(t, Skipped)
      BY <3>2, <3>4, KindsHere, SoundAppend
    <3> QED BY <1>2, <2>4, <3>4, <3>5 DEF Sound, Hiding
  <2>5. CASE query # "tools" /\ query' = "tools" /\ q = Append(qmsgs, "tools")
    <3>1. Sound(qmsgs) /\ Hiding(qmsgs)
      BY <1>2, <2>5 DEF Sound, Hiding
    <3>2. /\ Sound(q) /\ Last0(q) = "tools"
          /\ \A i \in Unanswered(q, Skipped) :
               (i \in Unanswered(qmsgs, Skipped) /\ Hidden(q, i)) \/ i = Len(q)
      BY <1>2, <2>5, <3>1, SoundTools
    <3> QED BY <1>2, <2>5, <3>2 DEF Sound
  <2>6. CASE query = "tools" /\ query' # "tools" /\ q = Append(qmsgs, "results")
    <3>1. Open(qmsgs) /\ Notes(qmsgs, Len(qmsgs))
      BY <1>2, <2>6, NotesAppend
    <3>2. \A i \in Unanswered(qmsgs, Skipped) : Hidden(qmsgs, i) \/ Notes(qmsgs, i)
      BY <1>2, <3>1
    <3>3. /\ Sound(q) /\ Hiding(q)
          /\ \A i \in Unanswered(q, Skipped) :
               i \in Unanswered(qmsgs, Skipped) /\ ~Notes(qmsgs, i)
      BY <1>2, <2>6, <3>1, <3>2, SoundResults
    <3>4. \A i \in Unanswered(q, Skipped) : Legacy /\ Hidden(q, i)
      BY <1>2, <3>1, <3>3 DEF Hiding
    <3> QED BY <2>6, <3>3, <3>4 DEF Sound
  <2> QED BY <1>3, <2>1, <2>2, <2>3, <2>4, <2>5, <2>6, QueryDoes
<1>5. Awaited' = Awaited
  <2>1. CASE query = "tools"
    <3>1. Awaited
      BY <1>1, <2>1 DEF Awaited
    <3>2. events' # <<>> /\ Head(events') = QueryEvent("message", <<"results">>)
      BY <2>1, QueryDoes, OneOrTwo
    <3> QED BY <3>1, <3>2 DEF Awaited
  <2>2. CASE query # "tools"
    <3>1. ~Awaited
      BY <1>1, <2>2 DEF Awaited
    <3>2. \/ events' = <<>> /\ query' # "tools"
          \/ events' # <<>> /\ Head(events') = QueryEvent("error", <<>>)
          \/ events' # <<>> /\ Head(events') = QueryEvent("compacted", qmsgs')
          \/ events' # <<>> /\ Head(events') = QueryEvent("usage", <<"text">>)
          \/ events' # <<>> /\ Head(events') = QueryEvent("usage", <<"tools">>)
      BY <2>2, QueryDoes, OneOrTwo
    <3>3. ~Awaited'
      <4>1. \/ events' = <<>> /\ query' # "tools"
            \/ events' # <<>> /\ Head(events').kind # "message"
        BY <3>2, AwaitedIs
      <4>2. CASE events' # <<>> /\ Head(events').kind # "message"
        <5>1. Head(events') # QueryEvent("message", <<"results">>)
          BY <4>2, AwaitedIs
        <5> QED BY <4>2, <5>1 DEF Awaited
      <4>3. CASE events' = <<>> /\ query' # "tools"
        BY <4>3 DEF Awaited
      <4> QED BY <4>1, <4>2, <4>3
    <3> QED BY <3>1, <3>3 DEF Awaited
  <2> QED BY <2>1, <2>2
<1>6. Legacy' = Legacy /\ Stopped' = Stopped /\ InTurn'
  BY <1>1 DEF Legacy, Stopped, InTurn
<1>7. Sound(messages') /\ Sound(session'.msgs)
  BY <1>1 DEF PairInv
<1>8. loop' = "turn" =>
        /\ \A i \in Unanswered(messages', Skipped) :
             (Legacy' /\ Hidden(messages', i)) \/ (Awaited' /\ Notes(messages', i))
        /\ Awaited' => Open(messages')
  BY <1>1, <1>5, <1>6 DEF PairInv
<1>9. loop' # "idle" /\ (loop' = "drain" => Stopped')
  BY <1>1, <1>6 DEF PairInv, InTurn
<1> QED BY <1>3, <1>4, <1>6, <1>7, <1>8, <1>9 DEF PairInv

LEMMA PairLoop ==
  ASSUME PairInv, EngineTypes, QueryRuns, LoopStep
  PROVE  PairInv'
<1>1. CASE reset
  <2>1. /\ messages' = <<>> /\ session'.msgs = <<>> /\ loop = "idle" /\ loop' = "idle"
    BY <1>1 DEF reset, NoSession, Take
  <2> QED BY <2>1, SoundEmpty DEF PairInv, InTurn
<1>2. CASE EndTurn
  <2>1. /\ InTurn /\ query = "done" /\ events = <<>> /\ loop' = "idle"
        /\ UNCHANGED <<cmdCh, closed, messages, session, loaded>>
    BY <1>2 DEF EndTurn, InTurn, driverVars, hostVars
  <2>2. Legacy' = Legacy /\ Stopped' = Stopped /\ ~InTurn'
    BY <2>1 DEF Legacy, Stopped, InTurn
  <2>3. ASSUME ~Stopped, NEW i \in Unanswered(messages, Skipped)
        PROVE  Legacy
    <3>1. loop = "turn" /\ ~Awaited
      BY <2>1, <2>3 DEF PairInv, InTurn, Awaited
    <3> QED BY <2>3, <3>1 DEF PairInv
  <2> QED BY <2>1, <2>2, <2>3 DEF PairInv
<1>3. CASE Exit
  <2>1. /\ loop' = "exited" /\ UNCHANGED <<messages, session>>
    BY <1>3 DEF Exit, driverVars
  <2> QED BY <2>1 DEF PairInv, InTurn
<1>4. CASE TurnStopped
  <2>1. /\ loop = "turn" /\ loop' = "drain" /\ closed' /\ cmdCh' = <<>>
        /\ UNCHANGED <<messages, session, loaded, qmsgs, query>>
    BY <1>4 DEF TurnStopped, queryVars, driverVars, hostVars
  <2>2. Legacy' = Legacy /\ Stopped' /\ InTurn
    BY <2>1 DEF Legacy, Stopped, InTurn
  <2> QED BY <2>1, <2>2 DEF PairInv
<1>5. CASE Drain
  <2>1. /\ loop = "drain" /\ UNCHANGED <<cmdCh, closed, messages, session, loaded, qmsgs, query, loop>>
    BY <1>5 DEF Drain, queryVars, driverVars, hostVars
  <2>2. Legacy' = Legacy /\ Stopped' = Stopped /\ InTurn
    BY <2>1 DEF Legacy, Stopped, InTurn
  <2> QED BY <2>1, <2>2 DEF PairInv
<1>6. CASE \/ IdleUsage \/ IdleInterrupt \/ AnswerMessages \/ AnswerTotal
           \/ TurnInterrupt \/ TurnUsage \/ TurnDrop
  <2>1. /\ cmdCh # <<>> /\ loop \in {"idle", "turn"}
        /\ UNCHANGED <<messages, session, loaded, qmsgs, query, events, loop>>
    BY <1>6 DEF IdleUsage, IdleInterrupt, AnswerMessages, AnswerTotal, TurnInterrupt, TurnUsage,
                TurnDrop, Take, queryVars, driverVars, hostVars
  <2> QED BY <2>1, PairRest DEF Stopped
<1> QED BY <1>1, <1>2, <1>3, <1>4, <1>5, <1>6, PairNote, PairStart, PairEvent DEF LoopStep

(* A command is sent, or Stop is called, while cmdCh is open.              *)
LEMMA PairOpen ==
  ASSUME PairInv, ~closed, UNCHANGED <<messages, session, loaded, qmsgs, query, events, loop>>
  PROVE  PairInv'
<1>1. ~Stopped /\ loop # "drain"
  BY DEF PairInv, Stopped
<1> QED BY <1>1, PairRest

LEMMA PairSend ==
  ASSUME PairInv, (\E k : Panic(k)) \/ (\E k : Offer(k)) \/ CallMessages \/ Stop
  PROVE  PairInv'
<1>1. UNCHANGED <<messages, session, loaded, qmsgs, query, events, loop>>
  BY SendsLeave
<1>2. ~closed \/ UNCHANGED <<cmdCh, closed>>
  BY DEF Panic, Offer, CallMessages, Stop, Room
<1>3. CASE ~closed
  BY <1>1, <1>3, PairOpen
<1>4. CASE UNCHANGED <<cmdCh, closed>>
  <2>1. Stopped' = Stopped
    BY <1>4 DEF Stopped
  <2> QED BY <1>1, <2>1, PairRest DEF PairInv
<1> QED BY <1>2, <1>3, <1>4

LEMMA PairDriver ==
  ASSUME PairInv, EngineTypes, DriverStep
  PROVE  PairInv'
<1>1. UNCHANGED <<messages, qmsgs, loaded, events, query, loop>>
  BY DriverDoes
<1>2. CASE (\E k : Panic(k)) \/ (\E k : Offer(k))
  BY <1>2, PairSend
<1>3. CASE ~((\E k : Panic(k)) \/ (\E k : Offer(k)))
  <2>1. ~closed \/ UNCHANGED <<cmdCh, closed>>
    BY <1>3 DEF DriverStep, SubmitTurn, SubmitReset, EndOfInput, TakeOutput, AskUsage, TurnOver,
                SaveSession, WriteFile, DriverGoes, Room
  <2>2. session'.msgs \in {session.msgs, messages}
    <3>1. \/ session' = session
          \/ session' = [ok |-> FALSE, msgs |-> messages, usage |-> totalUsage]
          \/ session' = [session EXCEPT !.ok = TRUE]
      BY DriverDoes
    <3>2. session \in [ok : BOOLEAN, msgs : Seq(Kinds), usage : Nat]
      BY DEF EngineTypes
    <3>3. CASE session' = [session EXCEPT !.ok = TRUE]
      BY <3>2, <3>3
    <3> QED BY <3>1, <3>3
  <2>3. Sound(messages') /\ Sound(session'.msgs)
    BY <1>1, <2>2 DEF PairInv
  <2>4. /\ loop = "idle" => ~Stopped \/ Stopped'
        /\ loop = "drain" => Stopped'
    BY <2>1 DEF PairInv, Stopped
  <2>5. Legacy' = Legacy /\ Awaited' = Awaited /\ InTurn' = InTurn
    BY <1>1 DEF Legacy, Awaited, InTurn
  <2>6. loop' = "idle" /\ ~Stopped' /\ Unanswered(messages', Skipped) # {} => Legacy'
    BY <1>1, <2>4, <2>5 DEF PairInv
  <2> QED BY <1>1, <2>3, <2>4, <2>5, <2>6 DEF PairInv
<1> QED BY <1>2, <1>3

(* What a session holds without answer, the history has from the start.    *)
LEMMA PairRestart == ASSUME PairInv, Restart PROVE PairInv'
<1>1. /\ messages' = session.msgs \/ messages' = <<>>
      /\ loaded' = messages' /\ session' = session /\ loop' = "idle"
  BY DEF Restart
<1>2. Sound(messages') /\ Sound(session'.msgs)
  BY <1>1, SoundEmpty DEF PairInv
<1>3. Unanswered(messages', Skipped) # {} => Legacy'
  BY <1>1 DEF Legacy
<1> QED BY <1>1, <1>2, <1>3 DEF PairInv, InTurn

LEMMA PairKept ==
  ASSUME PairInv, EngineTypes, QueryRuns, [Next]_vars
  PROVE  PairInv'
<1>1. CASE (\E k \in {"notify", "usage", "interrupt"} : Offer(k)) \/ CallMessages \/ Stop
  BY <1>1, PairSend
<1>2. CASE UNCHANGED vars
  <2>1. /\ UNCHANGED <<messages, session, loaded, qmsgs, query, events, loop>>
        /\ UNCHANGED <<cmdCh, closed>>
    BY <1>2 DEF vars, queryVars, driverVars, hostVars
  <2>2. Stopped' = Stopped
    BY <2>1 DEF Stopped
  <2> QED BY <2>1, <2>2, PairRest DEF PairInv
<1> QED BY <1>1, <1>2, PairLoop, PairQuery, PairDriver, PairRestart DEF Next

-----------------------------------------------------------------------------
(* For any capacities and any number of turns, interrupts, notices, resets, *)
(* stops and crashes: at most one turn is under way, the query has handed  *)
(* over nothing but what its last step added, the two histories differ by  *)
(* what is under way, and tool calls lack results only where the query is  *)
(* about to add them, at the end of a history that the next turn repairs,  *)
(* or before a notice (runTurn, handleQueryEvent, query.Query, SaveSession *)
(* and LoadSession).                                                       *)
THEOREM EngineCorrect == Spec => []EngineInv
<1>1. Init => EngineInv
  <2> SUFFICES ASSUME Init PROVE EngineInv
    OBVIOUS
  <2>1. /\ messages = <<>> /\ qmsgs = <<>> /\ loaded = <<>> /\ totalUsage = 0 /\ events = <<>>
        /\ session = [ok |-> TRUE, msgs |-> <<>>, usage |-> 0] /\ cmdCh = <<>> /\ loop = "idle"
        /\ turnOpen = FALSE /\ query = "none"
    BY DEF Init
  <2>2. session.msgs = <<>> /\ session.usage = 0
    BY <2>1
  <2>3. EngineTypes
    BY <2>1 DEF EngineTypes
  <2>4. OneTurn
    BY <2>1 DEF OneTurn, TurnCommands, InTurn
  <2>5. SessionInv
    BY <2>1, <2>2 DEF SessionInv, IsPrefix
  <2>6. QueryRuns
    BY <2>1 DEF QueryRuns, Handed
  <2>7. PairInv
    BY <2>1, <2>2, SoundEmpty DEF PairInv, InTurn
  <2>8. HistoryAgrees
    BY <2>1 DEF HistoryAgrees
  <2> QED BY <2>3, <2>4, <2>5, <2>6, <2>7, <2>8 DEF EngineInv
<1>2. EngineInv /\ OrderInv /\ OrderInv' /\ [Next]_vars => EngineInv'
  BY TypesKept, OneTurnKept, SessionKept, RunsKept, PairKept, AgreesKept DEF EngineInv
<1> QED BY <1>1, <1>2, OrderCorrect, PTL DEF Spec

(* Every request to the model has each tool call answered and each result  *)
(* asked for, but for calls that the session was loaded with.              *)
THEOREM RequestsPaired == Spec => []RequestPaired
<1>1. EngineInv => RequestPaired
  <2> SUFFICES ASSUME EngineInv, query = "llm" PROVE RequestPaired
    BY DEF RequestPaired
  <2>1. /\ Unasked(qmsgs, Skipped) = {}
        /\ \A i \in Unanswered(qmsgs, Skipped) : Legacy /\ Hidden(qmsgs, i)
    BY DEF EngineInv, PairInv, QueryRuns
  <2> QED BY <2>1 DEF RequestPaired, Legacy, Hidden
<1> QED BY <1>1, EngineCorrect, PTL

(* In a turn the history of the engine is the query's, but for notices and *)
(* memories, once all events are taken.                                    *)
THEOREM HistoriesAgree == Spec => []HistoryAgrees
<1>1. EngineInv => HistoryAgrees
  BY DEF EngineInv
<1> QED BY <1>1, EngineCorrect, PTL

(* While the REPL waits for input, a whole session file holds a prefix of  *)
(* the history and no more than the usage.                                 *)
THEOREM SessionsCurrent == Spec => []SessionCurrent
<1>1. EngineInv => SessionCurrent
  BY DEF EngineInv, SessionInv, SessionCurrent
<1> QED BY <1>1, EngineCorrect, PTL

=============================================================================
