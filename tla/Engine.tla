-------------------------------- MODULE Engine --------------------------------
(***************************************************************************)
(* The conversation engine of internal/engine, the query goroutine of      *)
(* internal/query that it runs in each turn, the REPL loop that drives it  *)
(* (EngineDriver.runEngineLoop, cli.RunREPL) and the session file.         *)
(*                                                                         *)
(* The engine's loop goroutine owns the history and takes commands from    *)
(* the buffered channel cmdCh.  In a turn it also takes the events of a    *)
(* query goroutine, which keeps a history of its own, and it drops every   *)
(* command but interrupts, notices and usage.                              *)
(***************************************************************************)
EXTENDS Naturals, SequencesExt

CONSTANTS
  CmdCap,      \* capacity of cmdCh (64 in NewEngine)
  OutCap,      \* capacity of a turn's event channel (64 in Turn)
  MaxTurns,    \* the engine's maxTurns
  AsksUsage,   \* TRUE for EngineDriver, which calls TotalUsage in a turn
  HostStops,   \* TRUE if a host may stop the engine at any time, FALSE if it
               \* waits for the driver to be done, as main.go does
  MaxLines,    \* bound: prompts in a behaviour
  MaxExt,      \* bound: calls of other goroutines
  MaxCuts,     \* bound: replies cut at the token limit
  MaxCrashes   \* bound: crashes

ASSUME EngineAssumption ==
  /\ CmdCap \in Nat \ {0} /\ OutCap \in Nat \ {0} /\ MaxTurns \in Nat \ {0}
  /\ AsksUsage \in BOOLEAN /\ HostStops \in BOOLEAN
  /\ MaxLines \in Nat /\ MaxExt \in Nat /\ MaxCuts \in Nat /\ MaxCrashes \in Nat

(* A message is known by its kind: text of the user (a prompt, a summary,  *)
(* a request to go on), injected memories, tool results, an answer, one    *)
(* that calls tools, a notice (role system), or the compaction boundary    *)
(* (role system).                                                          *)
FromUser  == {"user", "memory", "results"}
FromModel == {"text", "tools"}
Silent    == {"note", "boundary"}   \* the LLM clients skip role system
Kinds     == FromUser \cup FromModel \cup Silent

VARIABLES
  cmdCh,       \* commands, with the number of the last turn submitted before
  closed,      \* Stop has closed cmdCh
  loop,        \* the loop goroutine: between turns, in one, draining, exited
  messages,    \* the history
  totalUsage,
  turnNo,      \* the turn running or run last
  cancelled,   \* 0, or the number the interrupt that cancelled it carries
  query,       \* the query goroutine of the turn
  qmsgs,       \* its own history
  qturn,       \* its turnCount
  events,      \* what it has yet to hand over
  cuts,        \* replies cut at the token limit
  eventCh,     \* the event channel of the turn
  turnOpen,    \* it is not closed
  driver,      \* the REPL loop
  lines,       \* turns it has submitted
  session,     \* the session file
  loaded,      \* the history the process started with
  reader,      \* the goroutine that calls Messages
  ext,         \* calls of other goroutines
  crashes,
  panicked     \* the call that panicked, or "no"

turnVars   == <<turnNo, cancelled>>
queryVars  == <<query, qmsgs, qturn, cuts>>
driverVars == <<driver, lines, session>>
hostVars   == <<loaded, crashes>>
vars == <<cmdCh, closed, loop, messages, totalUsage, turnVars, queryVars, events, eventCh,
          turnOpen, driverVars, hostVars, reader, ext, panicked>>

CmdKinds    == {"turn", "notify", "usage", "interrupt", "reset", "messages", "total"}
Commands    == [kind : CmdKinds, turn : 0 .. MaxLines]
QueryEvent(kind, msgs) == [kind |-> kind, msgs |-> msgs]

Init ==
  /\ cmdCh = <<>> /\ closed = FALSE /\ loop = "idle" /\ messages = <<>> /\ totalUsage = 0
  /\ turnNo = 0 /\ cancelled = 0
  /\ query = "none" /\ qmsgs = <<>> /\ qturn = 1 /\ events = <<>>
  /\ eventCh = <<>> /\ turnOpen = FALSE /\ driver = "read"
  /\ loaded = <<>> /\ reader = "idle" /\ panicked = "no"
  /\ cuts = 0 /\ lines = 0 /\ ext = 0 /\ crashes = 0
  /\ session = [ok |-> TRUE, msgs |-> <<>>, usage |-> 0]

-----------------------------------------------------------------------------
(* Commands.                                                               *)

Command(kind, n) == [kind |-> kind, turn |-> n]
Room == ~closed /\ Len(cmdCh) < CmdCap

(* A panic ends the process; only a new one goes on.                       *)
Alive == panicked = "no"

(* A send on the closed channel panics, also in a select with a default.   *)
Panic(kind) ==
  /\ closed
  /\ panicked' = kind
  /\ UNCHANGED <<cmdCh, closed, loop, messages, totalUsage, turnVars, queryVars, events, eventCh,
                 turnOpen, driverVars, hostVars, reader>>

(* Notify (main.go's forwarder of notices), AddUsage (the coordinator's    *)
(* usage sink) and Interrupt (the signal handler): dropped when the        *)
(* channel is full.                                                        *)
Offer(kind) ==
  /\ Alive /\ ext < MaxExt /\ ext' = ext + 1
  /\ \/ Panic(kind)
     \/ /\ ~closed
        /\ cmdCh' = IF Room THEN Append(cmdCh, Command(kind, lines)) ELSE cmdCh
        /\ UNCHANGED <<closed, loop, messages, totalUsage, turnVars, queryVars, events, eventCh,
                       turnOpen, driverVars, hostVars, reader, panicked>>

(* Messages, called by the runner of a sub-agent: blocks for the answer.   *)
CallMessages ==
  /\ Alive /\ reader = "idle" /\ ext < MaxExt /\ ext' = ext + 1
  /\ \/ Panic("messages")
     \/ /\ Room
        /\ cmdCh' = Append(cmdCh, Command("messages", lines))
        /\ reader' = "wait"
        /\ UNCHANGED <<closed, loop, messages, totalUsage, turnVars, queryVars, events, eventCh,
                       turnOpen, driverVars, hostVars, panicked>>

Stop ==
  /\ Alive /\ ~closed /\ (driver = "done" \/ HostStops)
  /\ closed' = TRUE
  /\ UNCHANGED <<cmdCh, loop, messages, totalUsage, turnVars, queryVars, events, eventCh, turnOpen,
                 driverVars, hostVars, reader, ext, panicked>>

-----------------------------------------------------------------------------
(* The loop between turns.                                                 *)

Last0(s) == IF s = <<>> THEN "none" ELSE s[Len(s)]

Take(state, kind) ==
  /\ Alive /\ loop = state /\ cmdCh # <<>> /\ Head(cmdCh).kind = kind
  /\ cmdCh' = Tail(cmdCh)

(* Mutant: tool calls of an interrupted turn are not answered.             *)
repairNothing(s) == s

(* Only the last message is looked at.  (The code's search for an earlier  *)
(* repair of the same tool calls finds nothing while their ids differ.)    *)
repairOrphanToolUses(s) == IF Last0(s) = "tools" THEN Append(s, "results") ELSE s

(* The prompt joins a last message of role user.                           *)
AddPrompt(s) == IF Last0(s) \in FromUser THEN s ELSE Append(s, "user")

(* Memories go before the last message, into the query's copy only.        *)
injectRelevantMemories(s) == SubSeq(s, 1, Len(s) - 1) \o <<"memory">> \o <<Last0(s)>>

(* Mutant: the context of the turn before is used again.                   *)
StartTurnStale ==
  /\ Take("idle", "turn")
  /\ loop' = "turn"
  /\ turnNo' = Head(cmdCh).turn
  /\ messages' = AddPrompt(repairOrphanToolUses(messages))
  /\ qmsgs' \in {messages', injectRelevantMemories(messages')}
  /\ query' = "top" /\ qturn' = 1
  /\ UNCHANGED <<closed, totalUsage, cancelled, events, cuts, eventCh, turnOpen, driverVars,
                 hostVars, reader, ext, panicked>>

StartTurn ==
  /\ Take("idle", "turn")
  /\ loop' = "turn"
  /\ turnNo' = Head(cmdCh).turn /\ cancelled' = 0
  /\ messages' = AddPrompt(repairOrphanToolUses(messages))
  /\ qmsgs' \in {messages', injectRelevantMemories(messages')}
  /\ query' = "top" /\ qturn' = 1
  /\ UNCHANGED <<closed, totalUsage, events, cuts, eventCh, turnOpen, driverVars, hostVars,
                 reader, ext, panicked>>

IdleNotify ==
  /\ Take("idle", "notify")
  /\ messages' = Append(messages, "note")
  /\ UNCHANGED <<closed, loop, totalUsage, turnVars, queryVars, events, eventCh, turnOpen,
                 driverVars, hostVars, reader, ext, panicked>>

IdleUsage ==
  /\ Take("idle", "usage")
  /\ totalUsage' = totalUsage + 1
  /\ UNCHANGED <<closed, loop, messages, turnVars, queryVars, events, eventCh, turnOpen,
                 driverVars, hostVars, reader, ext, panicked>>

(* There is nothing to cancel.                                             *)
IdleInterrupt ==
  /\ Take("idle", "interrupt")
  /\ UNCHANGED <<closed, loop, messages, totalUsage, turnVars, queryVars, events, eventCh,
                 turnOpen, driverVars, hostVars, reader, ext, panicked>>

NoSession == [ok |-> TRUE, msgs |-> <<>>, usage |-> 0]

(* Mutant: the session file survives a reset.                              *)
resetKeepsFile ==
  /\ Take("idle", "reset")
  /\ messages' = <<>> /\ totalUsage' = 0
  /\ UNCHANGED <<closed, loop, turnVars, queryVars, events, eventCh, turnOpen, driverVars,
                 hostVars, reader, ext, panicked>>

reset ==
  /\ Take("idle", "reset")
  /\ messages' = <<>> /\ totalUsage' = 0 /\ session' = NoSession
  /\ UNCHANGED <<closed, loop, turnVars, queryVars, events, eventCh, turnOpen, driver, lines,
                 hostVars, reader, ext, panicked>>

AnswerMessages ==
  /\ Take("idle", "messages")
  /\ reader' = "got"
  /\ UNCHANGED <<closed, loop, messages, totalUsage, turnVars, queryVars, events, eventCh,
                 turnOpen, driverVars, hostVars, ext, panicked>>

AnswerTotal ==
  /\ Take("idle", "total")
  /\ driver' = "turn"
  /\ UNCHANGED <<closed, loop, messages, totalUsage, turnVars, queryVars, events, eventCh,
                 turnOpen, lines, session, hostVars, reader, ext, panicked>>

(* The range over cmdCh ends when it is closed and empty.                  *)
Exit ==
  /\ Alive /\ loop = "idle" /\ closed /\ cmdCh = <<>>
  /\ loop' = "exited"
  /\ UNCHANGED <<cmdCh, closed, messages, totalUsage, turnVars, queryVars, events, eventCh,
                 turnOpen, driverVars, hostVars, reader, ext, panicked>>

-----------------------------------------------------------------------------
(* The loop in a turn (runTurn).                                           *)

Out(kind) == Len(eventCh) < OutCap /\ eventCh' = Append(eventCh, kind)

TurnInterrupt ==
  /\ Take("turn", "interrupt")
  /\ cancelled' = Head(cmdCh).turn
  /\ UNCHANGED <<closed, loop, messages, totalUsage, turnNo, queryVars, events, eventCh, turnOpen,
                 driverVars, hostVars, reader, ext, panicked>>

TurnNotify ==
  /\ Take("turn", "notify")
  /\ messages' = Append(messages, "note")
  /\ Out("info")
  /\ UNCHANGED <<closed, loop, totalUsage, turnVars, queryVars, events, turnOpen, driverVars,
                 hostVars, reader, ext, panicked>>

TurnUsage ==
  /\ Take("turn", "usage")
  /\ totalUsage' = totalUsage + 1
  /\ UNCHANGED <<closed, loop, messages, turnVars, queryVars, events, eventCh, turnOpen,
                 driverVars, hostVars, reader, ext, panicked>>

(* Every other command is dropped; whoever waits for an answer goes on     *)
(* waiting.                                                                *)
TurnDrop ==
  /\ \E kind \in {"turn", "reset", "messages", "total"} : Take("turn", kind)
  /\ UNCHANGED <<closed, loop, messages, totalUsage, turnVars, queryVars, events, eventCh,
                 turnOpen, driverVars, hostVars, reader, ext, panicked>>

(* cmdCh is closed and empty: the query is cancelled, and its events are   *)
(* thrown away.                                                            *)
TurnStopped ==
  /\ Alive /\ loop = "turn" /\ closed /\ cmdCh = <<>>
  /\ loop' = "drain" /\ cancelled' = turnNo
  /\ UNCHANGED <<cmdCh, closed, messages, totalUsage, turnNo, queryVars, events, eventCh, turnOpen,
                 driverVars, hostVars, reader, ext, panicked>>

(* Mutant: nobody receives from the query any more.                        *)
DrainNothing == FALSE /\ UNCHANGED vars

Drain ==
  /\ Alive /\ loop = "drain" /\ events # <<>>
  /\ events' = Tail(events)
  /\ UNCHANGED <<cmdCh, closed, loop, messages, totalUsage, turnVars, queryVars, eventCh, turnOpen,
                 driverVars, hostVars, reader, ext, panicked>>

(* Mutant: the engine keeps its own history when the query compacts.       *)
ExtendedOnly(s, e) == IF e.kind = "compacted" THEN s ELSE s \o e.msgs

(* The history after an event of the query.                                *)
Extended(s, e) == IF e.kind = "compacted" THEN e.msgs ELSE s \o e.msgs

handleQueryEvent ==
  /\ Alive /\ loop = "turn" /\ events # <<>>
  /\ events' = Tail(events)
  /\ messages' = Extended(messages, Head(events))
  /\ totalUsage' = IF Head(events).kind = "usage" THEN totalUsage + 1 ELSE totalUsage
  /\ Out(IF Head(events).kind = "result" THEN "result" ELSE "info")
  /\ UNCHANGED <<cmdCh, closed, loop, turnVars, queryVars, turnOpen, driverVars, hostVars, reader,
                 ext, panicked>>

(* Mutant: the turn's done channel is closed on the error path only.       *)
EndTurnSilently ==
  /\ Alive /\ loop \in {"turn", "drain"} /\ query = "done" /\ events = <<>>
  /\ loop' = "idle" /\ query' = "none"
  /\ UNCHANGED <<cmdCh, closed, messages, totalUsage, turnVars, qmsgs, qturn, cuts, events,
                 eventCh, turnOpen, driverVars, hostVars, reader, ext, panicked>>

(* The query's channel is closed: the turn is over.                        *)
EndTurn ==
  /\ Alive /\ loop \in {"turn", "drain"} /\ query = "done" /\ events = <<>>
  /\ loop' = "idle" /\ query' = "none" /\ turnOpen' = FALSE
  /\ UNCHANGED <<cmdCh, closed, messages, totalUsage, turnVars, qmsgs, qturn, cuts, events,
                 eventCh, driverVars, hostVars, reader, ext, panicked>>

LoopStep ==
  \/ StartTurn \/ IdleNotify \/ IdleUsage \/ IdleInterrupt \/ reset \/ AnswerMessages
  \/ AnswerTotal \/ Exit \/ TurnInterrupt \/ TurnNotify \/ TurnUsage \/ TurnDrop \/ TurnStopped
  \/ Drain \/ handleQueryEvent \/ EndTurn

-----------------------------------------------------------------------------
(* The query goroutine.  Its channel is unbuffered: it goes on when all it *)
(* has to hand over is taken.                                              *)

(* From state `from' to state `to', handing over es.                       *)
QueryGoes(from, to, es) ==
  /\ Alive /\ query = from /\ events = <<>>
  /\ query' = to /\ events' = es
  /\ UNCHANGED <<cmdCh, closed, loop, messages, totalUsage, turnVars, eventCh, turnOpen,
                 driverVars, hostVars, reader, ext, panicked>>

Ends(kind) == <<QueryEvent(kind, <<>>)>>

OverLimit == qturn > MaxTurns

(* The context is looked at before each request and at each event of the   *)
(* stream.                                                                 *)
QueryAborted ==
  /\ cancelled # 0
  /\ QueryGoes("top", "done", Ends("error")) \/ QueryGoes("llm", "done", Ends("error"))
  /\ UNCHANGED <<qmsgs, qturn, cuts>>

QueryLimit ==
  /\ OverLimit
  /\ QueryGoes("top", "done", Ends("error"))
  /\ UNCHANGED <<qmsgs, qturn, cuts>>

(* No compaction, or the context is too large, or compaction failed.       *)
NoCompaction ==
  /\ ~OverLimit
  /\ QueryGoes("top", "llm", <<>>) \/ QueryGoes("top", "done", Ends("error"))
  /\ UNCHANGED <<qmsgs, qturn, cuts>>

(* A tail kept by compaction reaches back to the tool calls its results    *)
(* answer.                                                                 *)
Tails(s) ==
  {k \in 1 .. (Len(s) + 1) : \A i \in k .. Len(s) :
     s[i] = "results" => \E j \in k .. (i - 1) : s[j] = "tools"}

(* A sequence without the kinds to drop.                                   *)
Without(s, drop) ==
  LET kept[i \in 0 .. Len(s)] ==
        IF i = 0 THEN <<>>
        ELSE IF s[i] \in drop THEN kept[i - 1] ELSE Append(kept[i - 1], s[i])
  IN  kept[Len(s)]

(* A boundary and a summary, and with session memory a tail of the history *)
(* without the earlier boundary.                                           *)
Compacted(s, k) == <<"boundary", "user">> \o Without(SubSeq(s, k, Len(s)), {"boundary"})

Compaction ==
  /\ ~OverLimit
  /\ \E k \in Tails(qmsgs) : qmsgs' = Compacted(qmsgs, k)
  /\ QueryGoes("top", "llm", <<QueryEvent("compacted", qmsgs')>>)
  /\ UNCHANGED <<qturn, cuts>>

(* The API fails, or finds the prompt too long (reactive compaction is a   *)
(* stub that always fails).                                                *)
RequestFails ==
  /\ QueryGoes("llm", "done", Ends("error"))
  /\ UNCHANGED <<qmsgs, qturn, cuts>>

(* A reply without tool calls: the result of the turn.                     *)
ReplyText ==
  /\ qmsgs' = Append(qmsgs, "text")
  /\ QueryGoes("llm", "done", <<QueryEvent("usage", <<"text">>), QueryEvent("result", <<>>)>>)
  /\ UNCHANGED <<qturn, cuts>>

(* A reply cut at the token limit: the model is asked to go on, and no     *)
(* turn is counted.                                                        *)
ReplyCut ==
  /\ cuts < MaxCuts
  /\ cuts' = cuts + 1
  /\ qmsgs' = qmsgs \o <<"text", "user">>
  /\ QueryGoes("llm", "top", <<QueryEvent("usage", <<"text">>), QueryEvent("message", <<"user">>)>>)
  /\ UNCHANGED qturn

ReplyTools ==
  /\ qmsgs' = Append(qmsgs, "tools")
  /\ QueryGoes("llm", "tools", <<QueryEvent("usage", <<"tools">>)>>)
  /\ UNCHANGED <<qturn, cuts>>

(* The context is done before the tools start: placeholders answer them.   *)
ToolsAborted ==
  /\ cancelled # 0
  /\ qmsgs' = Append(qmsgs, "results")
  /\ QueryGoes("tools", "done", <<QueryEvent("message", <<"results">>), QueryEvent("error", <<>>)>>)
  /\ UNCHANGED <<qturn, cuts>>

executeTools ==
  /\ qmsgs' = Append(qmsgs, "results")
  /\ qturn' = qturn + 1
  /\ QueryGoes("tools", "top", <<QueryEvent("message", <<"results">>)>>)
  /\ UNCHANGED cuts

QueryStep ==
  \/ QueryAborted \/ QueryLimit \/ NoCompaction \/ Compaction \/ RequestFails
  \/ ReplyText \/ ReplyCut \/ ReplyTools \/ ToolsAborted
  \/ executeTools

-----------------------------------------------------------------------------
(* The REPL loop.                                                          *)

DriverGoes(from, to) ==
  /\ Alive /\ driver = from /\ driver' = to
  /\ UNCHANGED <<closed, loop, messages, totalUsage, turnVars, queryVars, events, hostVars, reader,
                 panicked>>

(* Turn: the command is sent, then the events are ranged over.             *)
SubmitTurn ==
  /\ lines < MaxLines
  /\ \/ /\ Room
        /\ lines' = lines + 1
        /\ cmdCh' = Append(cmdCh, Command("turn", lines + 1))
        /\ eventCh' = <<>> /\ turnOpen' = TRUE
        /\ DriverGoes("read", "turn")
        /\ UNCHANGED <<session, ext>>
     \/ Alive /\ driver = "read" /\ Panic("turn") /\ UNCHANGED ext

(* /reset: dropped when cmdCh is full.                                     *)
SubmitReset ==
  /\ driver = "read" /\ Offer("reset")

EndOfInput ==
  /\ DriverGoes("read", "done") \/ DriverGoes("read", "quit")
  /\ UNCHANGED <<cmdCh, eventCh, turnOpen, lines, session, ext>>

TakeOutput ==
  /\ eventCh # <<>> /\ eventCh' = Tail(eventCh)
  /\ DriverGoes("turn", IF AsksUsage /\ Head(eventCh) = "result" THEN "ask" ELSE "turn")
  /\ UNCHANGED <<cmdCh, turnOpen, lines, session, ext>>

(* TotalUsage, called when the result is out: the engine is between        *)
(* handing it out and the end of the turn, or past it.                     *)
AskUsage ==
  \/ /\ Room
     /\ cmdCh' = Append(cmdCh, Command("total", lines))
     /\ DriverGoes("ask", "usage")
     /\ UNCHANGED <<eventCh, turnOpen, lines, session, ext>>
  \/ Alive /\ driver = "ask" /\ Panic("total") /\ UNCHANGED ext

TurnOver ==
  /\ eventCh = <<>> /\ ~turnOpen
  /\ DriverGoes("turn", "save")
  /\ UNCHANGED <<cmdCh, eventCh, turnOpen, lines, session, ext>>

(* SaveSession copies the history, not through the loop goroutine, and     *)
(* truncates the file; ...                                                 *)
SaveSession ==
  /\ DriverGoes("save", "write") \/ DriverGoes("quit", "last")
  /\ session' = [ok |-> FALSE, msgs |-> messages, usage |-> totalUsage]
  /\ UNCHANGED <<cmdCh, eventCh, turnOpen, lines, ext>>

(* ... then it is written.                                                 *)
WriteFile ==
  /\ DriverGoes("write", "read") \/ DriverGoes("last", "done")
  /\ session' = [session EXCEPT !.ok = TRUE]
  /\ UNCHANGED <<cmdCh, eventCh, turnOpen, lines, ext>>

DriverStep ==
  \/ SubmitTurn \/ SubmitReset \/ EndOfInput \/ TakeOutput \/ AskUsage \/ TurnOver
  \/ SaveSession \/ WriteFile

(* A crash, and a new process that loads the session; the user may discard *)
(* it, which is a Reset sent before anything else.                         *)
Restart ==
  /\ crashes < MaxCrashes /\ crashes' = crashes + 1
  /\ messages' = IF session.ok THEN session.msgs ELSE <<>>
  /\ totalUsage' = IF session.ok THEN session.usage ELSE 0
  /\ loaded' = messages'
  /\ \/ cmdCh' = <<>>
     \/ messages' # <<>> /\ cmdCh' = <<Command("reset", 0)>>
  /\ closed' = FALSE /\ loop' = "idle" /\ turnNo' = 0 /\ cancelled' = 0
  /\ query' = "none" /\ qmsgs' = <<>> /\ qturn' = 1 /\ events' = <<>>
  /\ eventCh' = <<>> /\ turnOpen' = FALSE /\ driver' = "read"
  /\ reader' = "idle" /\ panicked' = "no"
  /\ UNCHANGED <<cuts, lines, session, ext>>

Next ==
  \/ LoopStep \/ QueryStep \/ DriverStep \/ CallMessages \/ Stop \/ Restart
  \/ \E kind \in {"notify", "usage", "interrupt"} : Offer(kind)

Spec == Init /\ [][Next]_vars

(* Goroutines run, and an LLM request and the tools return.  Nothing       *)
(* obliges the user, the host or another goroutine to call.                *)
Fairness ==
  /\ WF_vars(LoopStep) /\ WF_vars(QueryStep)
  /\ WF_vars(TakeOutput \/ AskUsage \/ TurnOver \/ SaveSession \/ WriteFile)

FairSpec == Spec /\ Fairness

-----------------------------------------------------------------------------
(* Properties.                                                             *)

(* For the API, which does not see the kinds `skipped', tool calls are     *)
(* answered by the next message, and results answer the message before.    *)
Adjacent(s, i, j, skipped) == i < j /\ \A k \in (i + 1) .. (j - 1) : s[k] \in skipped
Unanswered(s, skipped) ==
  {i \in DOMAIN s : s[i] = "tools" /\
     ~ \E j \in DOMAIN s : Adjacent(s, i, j, skipped) /\ s[j] = "results"}
Unasked(s, skipped) ==
  {j \in DOMAIN s : s[j] = "results" /\
     ~ \E i \in DOMAIN s : Adjacent(s, i, j, skipped) /\ s[i] = "tools"}

(* Every request has each result asked for and each tool call answered,    *)
(* through interrupts, compaction, notices, stops and restarts, but for    *)
(* injected memories in between.  The one exception: tool calls that the   *)
(* session has without results, hidden from repairOrphanToolUses by a      *)
(* notice behind them.                                                     *)
Skipped == Silent \cup {"memory"}
RequestPaired ==
  query = "llm" =>
    /\ Unasked(qmsgs, Skipped) = {}
    /\ \A i \in Unanswered(qmsgs, Skipped) :
         Unanswered(loaded, Skipped) # {} /\ i < Len(qmsgs) /\ qmsgs[i + 1] = "note"

(* Engine and query keep a history each; in a turn they agree, but for     *)
(* notices and injected memories, once all events are taken.               *)
Spoken(s) == Without(s, {"note", "memory"})
CaughtUp(s, es) ==
  LET after[i \in 0 .. Len(es)] == IF i = 0 THEN s ELSE Extended(after[i - 1], es[i])
  IN  after[Len(es)]
HistoryAgrees == loop = "turn" => Spoken(CaughtUp(messages, events)) = Spoken(qmsgs)

(* An interrupt never cancels a turn submitted after it.                   *)
InterruptFresh == loop = "turn" => cancelled = 0 \/ cancelled >= turnNo

(* While the REPL waits for input, a session file that is whole holds the  *)
(* history and the usage, but for what came since: a crash brings back     *)
(* nothing that a reset has cleared.                                       *)
SessionCurrent ==
  driver = "read" /\ session.ok =>
    IsPrefix(session.msgs, messages) /\ session.usage <= totalUsage

(* A turn ends, and the REPL with it, unless it waits for its usage.       *)
TurnEnds == driver = "turn" ~> driver # "turn" \/ panicked # "no"

(* Stop returns unless the REPL waits for the usage of a turn.             *)
StopReturns == closed ~> loop = "exited" \/ ~closed \/ driver = "usage" \/ panicked # "no"

=============================================================================
