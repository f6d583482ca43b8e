--------------------------- MODULE CoordinatorREPL ---------------------------
(***************************************************************************)
(* The program in coordinator mode (main.go, runCoordinatorREPL): the main *)
(* goroutine at the prompt, the EngineDriver that runs the engine's REPL   *)
(* beside it, the goroutines that print its output, forward notices and    *)
(* handle signals, and the order in which everything is stopped.           *)
(*                                                                         *)
(* The engine and the coordinator are here as the others see them: which   *)
(* commands the engine takes, drops or answers, and which approvals are    *)
(* pending. Engine and Coordinator model the two in detail.                *)
(***************************************************************************)
EXTENDS Naturals, SequencesExt

CONSTANTS
  Agents,      \* background agents, spawned by the agent tool
  Stoppers,    \* goroutines besides main that call EngineDriver.Stop
  Lines,       \* kinds of lines the user may type
  CmdCap,      \* capacity of the engine's cmdCh (64)
  TurnCap,     \* capacity of a turn's event channel (64)
  OutCap,      \* capacity of outputCh (256)
  EventCap,    \* capacity of the driver's event channel (16)
  NoticeCap    \* capacity of the coordinator's notices (256)

(* Words of approval and refusal, commands, and prompts for the model.     *)
Words    == {"yes", "no"}
AllLines == Words \cup {"", "prompt", "/quit", "/stop", "/reset", "/stop-agent"}

ASSUME REPLAssumption ==
  /\ Lines \subseteq AllLines
  /\ "main" \notin Stoppers /\ "nobody" \notin Stoppers
  /\ CmdCap \in Nat \ {0} /\ TurnCap \in Nat \ {0} /\ OutCap \in Nat \ {0}
  /\ EventCap \in Nat \ {0} /\ NoticeCap \in Nat

VARIABLES
  main,        \* the main goroutine
  line,        \* the line it holds
  target,      \* the agent it is about to answer
  rlClosed,    \* readline is closed
  inputClosed, \* inputCh is closed
  driverEvents, \* EngineDriver.events: who calls what
  driverLoop,  \* EngineDriver.loop: at its select, in Engine.Stop, returned
  serving,     \* whose Stop it is serving
  running,     \* EngineDriver.engineRunning
  done,        \* doneCh and outputCh are closed (closeOnce)
  repl,        \* runEngineLoop
  text,        \* the event it is about to put out
  output,      \* outputCh: how many texts are in it
  stopper,     \* per stopper: how far its call of Stop is
  eng,         \* the engine's loop: between turns, in one (cancelled, at its
               \* end), gone
  cmdCh,       \* the engine's commands
  closed,      \* cmdCh is closed
  turnEvents,  \* the event channel of the turn
  turnOpen,    \* it is not closed
  agent,       \* per agent: how far its run is
  requested,   \* agents whose request is on its way to the coordinator
  pending,     \* pendingConfirmOrder; its agents are the keys of pendingConfirms
  cancelled,   \* agents whose context is cancelled
  thisTurn,    \* agents spawned in the turn that is running
  notices,     \* the coordinator's notices: how many are in the channel
  panicked     \* the goroutine that sent on a closed channel, or "none"

mainVars   == <<main, line, target, inputClosed>>
driverVars == <<driverEvents, driverLoop, serving, running, stopper>>
replVars   == <<repl, text>>
engVars    == <<eng, cmdCh, closed, turnEvents, turnOpen>>
agentVars  == <<agent, requested, pending, cancelled, thisTurn>>
vars == <<mainVars, rlClosed, driverVars, done, replVars, output, engVars, agentVars,
          notices, panicked>>

Commands == {"turn", "notify", "interrupt", "reset", "usage", "total"}
Events   == {"text", "result"}
Requests == [op : {"start"}, who : {"main"}] \cup [op : {"stop"}, who : Stoppers]

Flags ==
  /\ rlClosed \in BOOLEAN /\ inputClosed \in BOOLEAN /\ running \in BOOLEAN
  /\ done \in BOOLEAN /\ closed \in BOOLEAN /\ turnOpen \in BOOLEAN

Types ==
  /\ main \in {"start", "starting", "read", "confirm", "send", "await", "stopping",
               "stopped", "exited"}
  /\ line \in AllLines \ Words /\ target \in Agents \cup {"nobody"}
  /\ driverEvents \in Seq(Requests)
  /\ driverLoop \in {"select", "stopping", "gone"}
  /\ serving \in Stoppers \cup {"nobody"}
  /\ repl \in {"none", "read", "submit", "interrupt", "reset", "say", "turn", "emit", "ask",
               "usage", "closing", "gone"}
  /\ text \in Events /\ output \in 0 .. OutCap
  /\ stopper \in [Stoppers -> {"idle", "sending", "waiting", "done"}]
  /\ eng \in {"idle", "turn", "cancelled", "ending", "gone"}
  /\ cmdCh \in Seq(Commands) /\ turnEvents \in Seq(Events)
  /\ agent \in [Agents -> {"unborn", "running", "asking", "over", "gone"}]
  /\ requested \subseteq Agents /\ pending \in Seq(Agents)
  /\ cancelled \subseteq Agents /\ thisTurn \subseteq Agents
  /\ notices \in 0 .. NoticeCap
  /\ panicked \in {"none", "repl", "forwarder", "signal", "coordinator"}

TypeOK == Flags /\ Types

Init ==
  /\ main = "start" /\ line = "" /\ target = "nobody"
  /\ rlClosed = FALSE /\ inputClosed = FALSE
  /\ driverEvents = <<>> /\ driverLoop = "select" /\ serving = "nobody"
  /\ running = FALSE /\ done = FALSE
  /\ repl = "none" /\ text = "text" /\ output = 0
  /\ stopper = [s \in Stoppers |-> "idle"]
  /\ eng = "idle" /\ cmdCh = <<>> /\ closed = FALSE /\ turnEvents = <<>> /\ turnOpen = FALSE
  /\ agent = [a \in Agents |-> "unborn"]
  /\ requested = {} /\ pending = <<>> /\ cancelled = {} /\ thisTurn = {}
  /\ notices = 0 /\ panicked = "none"

(* The process is over when main returns, or a goroutine panics.           *)
Alive == panicked = "none" /\ main # "exited"

-----------------------------------------------------------------------------
(* What all goroutines may do to the channels of the others.               *)

(* Interrupt, Notify, AddUsage and Reset: dropped when cmdCh is full, and  *)
(* a panic when it is closed.                                              *)
Offer(who, cmd) ==
  /\ panicked' = IF closed THEN who ELSE "none"
  /\ cmdCh' = IF ~closed /\ Len(cmdCh) < CmdCap THEN Append(cmdCh, cmd) ELSE cmdCh
  /\ UNCHANGED <<eng, closed, turnEvents, turnOpen>>

(* Turn and TotalUsage wait for room.                                      *)
Room == closed \/ Len(cmdCh) < CmdCap

(* Coordinator.notify: dropped when nobody takes them.                     *)
notify == notices' = IF notices < NoticeCap THEN notices + 1 ELSE notices

-----------------------------------------------------------------------------
(* The main goroutine.                                                     *)

MainGoes(from, to) == Alive /\ main = from /\ main' = to
Prompt(from) == MainGoes(from, "read") /\ line' = "" /\ target' = "nobody"

Start ==
  /\ MainGoes("start", "starting") /\ Len(driverEvents) < EventCap
  /\ driverEvents' = Append(driverEvents, [op |-> "start", who |-> "main"])
  /\ UNCHANGED <<line, target, inputClosed, rlClosed, driverLoop, serving, running,
                 stopper, done, replVars, output, engVars, agentVars, notices,
                 panicked>>

(* What no step of the main goroutine changes by itself.                   *)
Others == <<rlClosed, driverVars, done, output, notices, panicked>>

(* The user types a line, and main looks at it. "/stop-agent" is for an    *)
(* agent that the coordinator has, or has not.                             *)
StopAgent ==
  /\ Alive /\ main = "read" /\ ~rlClosed /\ "/stop-agent" \in Lines
  /\ \E a \in Agents :
       cancelled' = IF agent[a] \in {"unborn", "gone"} THEN cancelled ELSE cancelled \cup {a}
  /\ UNCHANGED <<mainVars, Others, replVars, engVars, agent, requested, pending, thisTurn>>

(* A word of approval or refusal is for the agent that asked first, and    *)
(* like any other line for the engine when none has.                       *)
HasPendingConfirm(l) == pending # <<>> /\ l \in Words

ReadWord ==
  /\ MainGoes("read", "confirm") /\ ~rlClosed
  /\ \E l \in Lines : HasPendingConfirm(l) /\ target' = Head(pending)
  /\ UNCHANGED <<line, inputClosed, Others, replVars, engVars, agentVars>>

ReadLine ==
  /\ MainGoes("read", "send") /\ ~rlClosed
  /\ \E l \in Lines \ {"/stop-agent"} :
       ~HasPendingConfirm(l) /\ line' = IF l \in Words THEN "prompt" ELSE l
  /\ UNCHANGED <<target, inputClosed, Others, replVars, engVars, agentVars>>

Readline == StopAgent \/ ReadWord \/ ReadLine

(* Confirm: the answer goes to the tool call that waits, if one does.      *)
FirstAt(s, i, e) == s[i] = e /\ \A j \in 1 .. (i - 1) : s[j] # e
Without(s, e) ==
  IF \E i \in DOMAIN s : FirstAt(s, i, e)
  THEN RemoveAt(s, CHOOSE i \in DOMAIN s : FirstAt(s, i, e)) ELSE s

(* Mutant: an answered request stays in the queue.                         *)
ConfirmKeeps ==
  /\ Prompt("confirm")
  /\ agent' = IF Contains(pending, target) /\ agent[target] = "asking"
              THEN [agent EXCEPT ![target] = "running"] ELSE agent
  /\ UNCHANGED <<inputClosed, Others, replVars, engVars, requested, pending, cancelled,
                 thisTurn>>

Confirm ==
  /\ Prompt("confirm")
  /\ pending' = Without(pending, target)
  /\ agent' = IF Contains(pending, target) /\ agent[target] = "asking"
              THEN [agent EXCEPT ![target] = "running"] ELSE agent
  /\ UNCHANGED <<inputClosed, Others, replVars, engVars, requested, cancelled,
                 thisTurn>>

(* "/quit" stands for "/exit" too.                                         *)
Received ==
  CASE line = "/quit"  -> "closing"
    [] line = "/stop"  -> "interrupt"
    [] line = "/reset" -> "reset"
    [] line = ""       -> "read"
    [] OTHER           -> "submit"

(* The unbuffered inputCh: main and runEngineLoop meet.                    *)
Send ==
  /\ Prompt("send") /\ repl = "read"
  /\ repl' = Received
  /\ UNCHANGED <<inputClosed, Others, text, engVars, agentVars>>

(* The end of the user's input, or readline was closed: close(inputCh).    *)
EndOfInput ==
  /\ MainGoes("read", "await")
  /\ inputClosed' = TRUE
  /\ UNCHANGED <<line, target, Others, replVars, engVars, agentVars>>

(* Mutant: main goes on without waiting for the driver.                    *)
StopEngineAtOnce ==
  /\ MainGoes("await", "stopping")
  /\ closed' = TRUE
  /\ UNCHANGED <<line, target, inputClosed, Others, replVars, eng, cmdCh, turnEvents,
                 turnOpen, agentVars>>

(* The deferred calls: Engine.Stop, which waits for the engine's loop, ... *)
StopEngine ==
  /\ MainGoes("await", "stopping") /\ done
  /\ closed' = TRUE
  /\ UNCHANGED <<line, target, inputClosed, Others, replVars, eng, cmdCh, turnEvents,
                 turnOpen, agentVars>>

(* ... EngineDriver.Stop, which finds the driver done, ...                 *)
EngineStopped ==
  /\ MainGoes("stopping", "stopped") /\ eng = "gone" /\ done
  /\ UNCHANGED <<line, target, inputClosed, Others, replVars, engVars, agentVars>>

(* ... and Coordinator.Stop: agents are cancelled, and the process ends.   *)
StopCoordinator ==
  /\ MainGoes("stopped", "exited")
  /\ cancelled' = {a \in Agents : agent[a] \notin {"unborn", "gone"}}
  /\ UNCHANGED <<line, target, inputClosed, Others, replVars, engVars, agent,
                 requested, pending, thisTurn>>

(* The user need not type; all else main does by itself.                   *)
MainStep ==
  \/ Start \/ Confirm \/ Send \/ StopEngine \/ EngineStopped \/ StopCoordinator
  \/ rlClosed /\ EndOfInput

-----------------------------------------------------------------------------
(* EngineDriver: its loop, and Stop called by other goroutines.            *)

NotDriver == <<mainVars, rlClosed, text, output, agentVars, notices, panicked>>

(* The head of the driver's events.                                        *)
Serve(op) ==
  /\ Alive /\ driverLoop = "select" /\ driverEvents # <<>> /\ Head(driverEvents).op = op
  /\ driverEvents' = Tail(driverEvents)

(* A Start while the engine runs changes nothing.                          *)
StartEngine ==
  /\ Serve("start")
  /\ main' = "read"
  /\ running' = TRUE
  /\ repl' = IF running THEN repl ELSE "read"
  /\ UNCHANGED <<line, target, inputClosed, rlClosed, driverLoop, serving, stopper, done,
                 text, output, engVars, agentVars, notices, panicked>>

(* The caller of Stop looks whether the driver is done, ...                *)
CallStop(s) ==
  /\ Alive /\ stopper[s] = "idle"
  /\ stopper' = [stopper EXCEPT ![s] = IF done THEN "done" ELSE "sending"]
  /\ UNCHANGED <<NotDriver, repl, driverEvents, driverLoop, serving, running, done, engVars>>

(* ... and sends its request, unless it is done by now. When both are      *)
(* possible, select takes either.                                          *)
SendStop(s) ==
  /\ Alive /\ stopper[s] = "sending"
  /\ \/ /\ Len(driverEvents) < EventCap
        /\ driverEvents' = Append(driverEvents, [op |-> "stop", who |-> s])
        /\ stopper' = [stopper EXCEPT ![s] = "waiting"]
     \/ /\ done
        /\ stopper' = [stopper EXCEPT ![s] = "done"]
        /\ UNCHANGED driverEvents
  /\ UNCHANGED <<NotDriver, repl, driverLoop, serving, running, done, engVars>>

(* The loop stops the engine it started, if any, ...                       *)
ServeStop ==
  /\ Serve("stop")
  /\ serving' = Head(driverEvents).who
  /\ driverLoop' = "stopping"
  /\ closed' = (closed \/ repl # "none")
  /\ UNCHANGED <<NotDriver, repl, running, stopper, done, eng, cmdCh, turnEvents, turnOpen>>

(* ... waits for it, closes the channels, answers and returns.             *)
StopServed ==
  /\ Alive /\ driverLoop = "stopping" /\ (repl = "none" \/ eng = "gone")
  /\ driverLoop' = "gone" /\ serving' = "nobody"
  /\ running' = FALSE /\ done' = TRUE
  /\ stopper' = [stopper EXCEPT ![serving] = "done"]
  /\ UNCHANGED <<NotDriver, repl, driverEvents, engVars>>

DriverStep == StartEngine \/ ServeStop \/ StopServed \/ \E s \in Stoppers : SendStop(s)

-----------------------------------------------------------------------------
(* runEngineLoop.                                                          *)

NotRepl == <<mainVars, rlClosed, driverVars, agentVars, notices>>

ReplGoes(from, to) == Alive /\ repl = from /\ repl' = to

(* The closed inputCh reads as the end of input.                           *)
ReadEOF ==
  /\ inputClosed /\ ReplGoes("read", "closing")
  /\ UNCHANGED <<NotRepl, text, output, engVars, done, panicked>>

(* Engine.Turn makes the event channel and sends the command.              *)
Turn ==
  /\ ReplGoes("submit", "turn") /\ Room
  /\ panicked' = IF closed THEN "repl" ELSE "none"
  /\ cmdCh' = IF closed THEN cmdCh ELSE Append(cmdCh, "turn")
  /\ turnEvents' = <<>> /\ turnOpen' = TRUE
  /\ UNCHANGED <<NotRepl, text, output, eng, closed, done>>

ReplCommand ==
  /\ \E kind \in {"interrupt", "reset"} :
       ReplGoes(kind, "say") /\ Offer("repl", kind)
  /\ text' = "text"
  /\ UNCHANGED <<NotRepl, output, done>>

TakeTurnEvent ==
  /\ turnEvents # <<>> /\ ReplGoes("turn", "emit")
  /\ text' = Head(turnEvents) /\ turnEvents' = Tail(turnEvents)
  /\ UNCHANGED <<NotRepl, output, eng, cmdCh, closed, turnOpen, done, panicked>>

(* onOutput: dropped when outputCh is full, a panic when it is closed. A   *)
(* result is followed by the usage.                                        *)
onOutput ==
  /\ \/ ReplGoes("say", "read")
     \/ ReplGoes("emit", IF text = "result" THEN "ask" ELSE "turn")
  /\ panicked' = IF done THEN "repl" ELSE "none"
  /\ output' = IF ~done /\ output < OutCap THEN output + 1 ELSE output
  /\ text' = "text"
  /\ UNCHANGED <<NotRepl, engVars, done>>

TotalUsage ==
  /\ ReplGoes("ask", "usage") /\ Room
  /\ Offer("repl", "total")
  /\ UNCHANGED <<NotRepl, text, output, done>>

(* The events are over; SaveSession leaves nothing behind here.            *)
TurnOver ==
  /\ turnEvents = <<>> /\ ~turnOpen /\ ReplGoes("turn", "read")
  /\ UNCHANGED <<NotRepl, text, output, engVars, done, panicked>>

(* Mutant: the loop ends and leaves the channels open.                     *)
ReplEndsQuietly ==
  /\ ReplGoes("closing", "gone")
  /\ running' = FALSE
  /\ UNCHANGED <<mainVars, rlClosed, driverEvents, driverLoop, serving, stopper, done, agentVars,
                 notices, text, output, engVars, panicked>>

(* "/quit" and the end of the input: the loop closes doneCh and outputCh.  *)
ReplEnds ==
  /\ ReplGoes("closing", "gone")
  /\ running' = FALSE /\ done' = TRUE
  /\ UNCHANGED <<mainVars, rlClosed, driverEvents, driverLoop, serving, stopper, agentVars,
                 notices, text, output, engVars, panicked>>

ReplStep ==
  \/ ReadEOF \/ Turn \/ ReplCommand \/ TakeTurnEvent \/ onOutput \/ TotalUsage \/ TurnOver
  \/ ReplEnds

-----------------------------------------------------------------------------
(* The engine's loop.                                                      *)

NotEngine == <<mainVars, rlClosed, driverVars, done, text, output, agent, requested,
               pending, notices, panicked>>

InTurn == eng \in {"turn", "cancelled", "ending"}
Take(kind) ==
  /\ Alive /\ cmdCh # <<>> /\ Head(cmdCh) = kind
  /\ cmdCh' = Tail(cmdCh)

StartTurn ==
  /\ eng = "idle" /\ Take("turn")
  /\ eng' = "turn"
  /\ UNCHANGED <<NotEngine, repl, closed, turnEvents, turnOpen, cancelled, thisTurn>>

(* The context of the turn is that of the agents its tool calls spawn.     *)
Interrupt ==
  /\ Take("interrupt")
  /\ IF InTurn
       THEN /\ eng' = IF eng = "turn" THEN "cancelled" ELSE eng
            /\ cancelled' = cancelled \cup {a \in thisTurn : agent[a] # "gone"}
       ELSE UNCHANGED <<eng, cancelled>>
  /\ UNCHANGED <<NotEngine, repl, closed, turnEvents, turnOpen, thisTurn>>

(* In a turn a notice is also an event for the REPL; between turns it is   *)
(* only kept for the model.                                                *)
Notified ==
  /\ Take("notify")
  /\ IF InTurn
       THEN /\ Len(turnEvents) < TurnCap
            /\ turnEvents' = Append(turnEvents, "text")
       ELSE UNCHANGED turnEvents
  /\ UNCHANGED <<NotEngine, repl, eng, closed, turnOpen, cancelled, thisTurn>>

(* A turn drops the request for the usage, and whoever asked waits on.     *)
AnswerUsage ==
  /\ Take("total")
  /\ repl' = IF InTurn THEN repl ELSE "emit"
  /\ text' = IF InTurn THEN text ELSE "text"
  /\ UNCHANGED <<mainVars, rlClosed, driverVars, done, output, agentVars, notices,
                 panicked, eng, closed, turnEvents, turnOpen>>

(* AddUsage and Reset touch nothing that is seen here.                     *)
OtherCommand ==
  /\ \E kind \in {"usage", "reset"} : Take(kind)
  /\ UNCHANGED <<NotEngine, repl, eng, closed, turnEvents, turnOpen, cancelled, thisTurn>>

(* The query's last event, a result or an error; the ones before it leave  *)
(* nothing behind.                                                         *)
QueryEnds ==
  /\ Alive /\ eng \in {"turn", "cancelled"} /\ Len(turnEvents) < TurnCap
  /\ \E evt \in {"result", "text"} : turnEvents' = Append(turnEvents, evt)
  /\ eng' = "ending"
  /\ UNCHANGED <<NotEngine, repl, cmdCh, closed, turnOpen, cancelled, thisTurn>>

(* Mutant: the turn's events are not closed.                               *)
EndTurnSilently ==
  /\ Alive /\ eng = "ending"
  /\ eng' = "idle" /\ thisTurn' = {}
  /\ UNCHANGED <<NotEngine, repl, cmdCh, closed, turnEvents, turnOpen, cancelled>>

EndTurn ==
  /\ Alive /\ eng = "ending"
  /\ eng' = "idle" /\ turnOpen' = FALSE /\ thisTurn' = {}
  /\ UNCHANGED <<NotEngine, repl, cmdCh, closed, turnEvents, cancelled>>

(* cmdCh is closed and empty: a turn is cancelled, and the loop ends.      *)
TurnStopped ==
  /\ Alive /\ closed /\ cmdCh = <<>> /\ InTurn
  /\ eng' = "idle" /\ turnOpen' = FALSE /\ thisTurn' = {}
  /\ cancelled' = cancelled \cup {a \in thisTurn : agent[a] # "gone"}
  /\ UNCHANGED <<NotEngine, repl, cmdCh, closed, turnEvents>>

LoopEnds ==
  /\ Alive /\ closed /\ cmdCh = <<>> /\ eng = "idle"
  /\ eng' = "gone"
  /\ UNCHANGED <<NotEngine, repl, cmdCh, closed, turnEvents, turnOpen, cancelled, thisTurn>>

EngineStep ==
  \/ StartTurn \/ Interrupt \/ Notified \/ AnswerUsage \/ OtherCommand
  \/ QueryEnds \/ EndTurn \/ TurnStopped \/ LoopEnds

-----------------------------------------------------------------------------
(* Agents, and the coordinator's loop.                                     *)

NotAgents == <<mainVars, rlClosed, driverVars, done, replVars, output>>

(* The agent tool, in a turn; the agent's context is that of the turn.     *)
Spawn(a) ==
  /\ Alive /\ agent[a] = "unborn" /\ eng \in {"turn", "cancelled"}
  /\ agent' = [agent EXCEPT ![a] = "running"]
  /\ thisTurn' = thisTurn \cup {a}
  /\ cancelled' = IF eng = "cancelled" THEN cancelled \cup {a} ELSE cancelled
  /\ notify
  /\ UNCHANGED <<NotAgents, engVars, requested, pending, panicked>>

Ask(a) ==
  /\ Alive /\ agent[a] = "running"
  /\ agent' = [agent EXCEPT ![a] = "asking"]
  /\ requested' = requested \cup {a}
  /\ UNCHANGED <<NotAgents, engVars, pending, cancelled, thisTurn, notices, panicked>>

(* A run ends; one that waits for an answer only when it is cancelled.     *)
AgentEnds(a) ==
  /\ Alive /\ \/ agent[a] = "running"
              \/ agent[a] = "asking" /\ a \in cancelled
  /\ agent' = [agent EXCEPT ![a] = "over"]
  /\ UNCHANGED <<NotAgents, engVars, requested, pending, cancelled, thisTurn, notices,
                 panicked>>

(* A request and the end of its agent come through two goroutines, in      *)
(* either order.                                                           *)
handleAgentConfirm(a) ==
  /\ Alive /\ a \in requested
  /\ requested' = requested \ {a}
  /\ pending' = Append(pending, a)
  /\ notify
  /\ UNCHANGED <<NotAgents, engVars, agent, cancelled, thisTurn, panicked>>

(* The usage sink is Engine.AddUsage, called in the coordinator's loop.    *)
handleAgentDone(a) ==
  /\ Alive /\ agent[a] = "over"
  /\ agent' = [agent EXCEPT ![a] = "gone"]
  /\ pending' = Without(pending, a) /\ cancelled' = cancelled \ {a}
  /\ notify
  /\ Offer("coordinator", "usage") \/ UNCHANGED <<engVars, panicked>>
  /\ UNCHANGED <<NotAgents, requested, thisTurn>>

AgentStep(a) == Spawn(a) \/ Ask(a) \/ AgentEnds(a)
CoordinatorStep(a) == handleAgentConfirm(a) \/ handleAgentDone(a)

-----------------------------------------------------------------------------
(* The small goroutines of main.go.                                        *)

NotHelpers == <<mainVars, driverVars, done, replVars, agentVars>>

(* Output is printed; when it is closed and empty, readline is closed.     *)
Drain ==
  /\ Alive /\ output > 0
  /\ output' = output - 1
  /\ UNCHANGED <<NotHelpers, rlClosed, engVars, notices, panicked>>
CloseReadline ==
  /\ Alive /\ done /\ output = 0 /\ ~rlClosed
  /\ rlClosed' = TRUE
  /\ UNCHANGED <<NotHelpers, output, engVars, notices, panicked>>

Notify ==
  /\ Alive /\ notices > 0
  /\ notices' = notices - 1
  /\ Offer("forwarder", "notify")
  /\ UNCHANGED <<NotHelpers, rlClosed, output>>

Signal ==
  /\ Alive /\ main \notin {"start", "starting"}
  /\ Offer("signal", "interrupt")
  /\ UNCHANGED <<NotHelpers, rlClosed, output, notices>>

HelperStep == Drain \/ CloseReadline \/ Notify

Next ==
  \/ MainStep \/ Readline \/ EndOfInput
  \/ DriverStep \/ \E s \in Stoppers : CallStop(s)
  \/ ReplStep \/ EngineStep \/ HelperStep \/ Signal
  \/ \E a \in Agents : AgentStep(a) \/ CoordinatorStep(a)

Spec == Init /\ [][Next]_vars

(* Goroutines run, and a query ends. A send that waits for room is served  *)
(* in its turn, and the select of a turn does not pass over the query for  *)
(* ever. The user need not type, nobody need call Stop or send a signal,   *)
(* and agents may take for ever.                                           *)
Fairness ==
  /\ WF_vars(MainStep) /\ WF_vars(DriverStep) /\ WF_vars(ReplStep) /\ WF_vars(EngineStep)
  /\ WF_vars(Drain) /\ WF_vars(CloseReadline) /\ WF_vars(Notify)
  /\ SF_vars(Turn \/ TotalUsage) /\ SF_vars(QueryEnds \/ EndTurn)

FairSpec == Spec /\ Fairness

-----------------------------------------------------------------------------
(* Properties.                                                             *)

Stopping == \E s \in Stoppers : stopper[s] # "idle"

(* A send on a closed channel panics, and four goroutines send to channels *)
(* that others close. The REPL's goroutine never does in main.go's order   *)
(* of stopping, where main waits for it first; the others only after main  *)
(* has begun to stop the engine; anyone only after a foreign Stop.         *)
PanicOnlyWhenStopped ==
  panicked # "none" =>
    \/ Stopping
    \/ panicked # "repl" /\ main \in {"stopping", "stopped"}

(* A word of approval or refusal that main takes from the prompt answers   *)
(* the tool call that asked first, unless its agent has ended meanwhile or *)
(* was only heard of after its end.                                        *)
WordReachesAsker ==
  [][main = "confirm" /\ main' = "read" =>
       \/ agent[target] = "asking" /\ agent'[target] = "running"
       \/ agent[target] \in {"over", "gone"}]_vars

(* The ways the code has to hang: the usage that a turn never answers, a   *)
(* line typed after "/quit", which nobody reads, and a Stop from elsewhere *)
(* before the driver has started the engine.                               *)
Hangs ==
  \/ repl = "usage"
  \/ main = "send" /\ repl \in {"closing", "gone"}
  \/ main \in {"start", "starting"} /\ Stopping

(* Whatever the user typed, the prompt comes back or the program ends: the *)
(* main goroutine is not left waiting for the driver, the engine or the    *)
(* coordinator, but for the three hangs that are known.                    *)
MainReturns == main # "read" ~> main \in {"read", "exited"} \/ panicked # "none" \/ Hangs

(* After "/quit" the program ends: the REPL closes the output, whose end   *)
(* closes readline, whose end makes main stop everything.                  *)
QuitExits == repl = "closing" ~> main = "exited" \/ panicked # "none" \/ Hangs

=============================================================================
