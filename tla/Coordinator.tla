----------------------------- MODULE Coordinator -----------------------------
(***************************************************************************)
(* The sub-agent coordinator of internal/agent.                            *)
(*                                                                         *)
(* One event-loop goroutine owns the registry of sub-agents and takes its  *)
(* requests from the buffered channel `events'.  Callers (the REPL, the    *)
(* agent tool, playbook executors) put a request there and block on a      *)
(* response channel.  Each spawned agent brings three goroutines of its    *)
(* own: its runner, which drives an LLM query loop and the goroutines of   *)
(* the tool calls of the current turn; a forwarder, which moves            *)
(* confirmation requests from the runner to `events'; and a consumer,      *)
(* which reports the runner's end there.  Forwarder and consumer are not   *)
(* ordered with each other.                                                *)
(*                                                                         *)
(* Names: a handler keeps the name it has in coordinator.go; the record    *)
(* kinds of `events' abbreviate the request types.                         *)
(***************************************************************************)
EXTENDS Naturals, FiniteSets, SequencesExt

CONSTANTS
  Callers,     \* goroutines that call the public methods
  Ops,         \* the methods they call (all of AllOps in the program)
  ToolCalls,   \* the risky tool calls one assistant message may hold
  NoTool,      \* no tool call
  EventCap,    \* capacity of `events' (16 in NewCoordinator)
  ConfirmCap,  \* capacity of confirmReqCh (4 in NewRunner), plus one in
               \* the forwarder's hand
  NoticeCap,   \* capacity of `notices' (256 in NewCoordinator)
  MaxTurns,    \* Definition.EffectiveMaxTurns
  MaxSpawns    \* bound: agents spawned in a behaviour

AllOps == {"spawn", "agent", "kill", "wait", "get", "yes", "no", "pending", "stop"}

ASSUME CoordinatorAssumption ==
  /\ Ops \subseteq AllOps
  /\ NoTool \notin ToolCalls
  /\ EventCap \in Nat \ {0} /\ ConfirmCap \in Nat \ {0} /\ NoticeCap \in Nat
  /\ MaxTurns \in Nat \ {0} /\ MaxSpawns \in Nat \ {0}

Agents == 0 .. (MaxSpawns - 1)   \* the ids nextID hands out
Ids    == 0 .. MaxSpawns         \* what a caller may name: MaxSpawns is no agent

Outcomes == {"completed", "error", "killed"}

VARIABLES
  events,       \* the channel of requests and reports
  loop,         \* "up" or "stopped": the event-loop goroutine
  nextID,
  agents,       \* ids in the registry c.agents (all have status running)
  completed,    \* completedAgents: the outcome kept for an id, or "none"
  pendingConfirms,      \* the tool call whose response channel is stored
  pendingConfirmOrder,
  waiters,      \* callers whose response channel is registered for an id
  totalUsage,
  sinkUsage,    \* what usageSink was given, in total
  notices,      \* sent without waiting; CoordinatorREPL has their reader
  cancelled,    \* the agent's context is done
  runner,       \* the runner of an agent: see RunnerStates
  turns,        \* LLM replies the agent's query loop has received
  tool,         \* per agent and tool call: see ToolStates
  confirmReqCh, \* requests the forwarder has not yet sent on
  outcome,      \* what the consumer folded from the runner's events
  reported,     \* the consumer has sent its agentDoneEvent
  caller        \* what each caller is doing, or the answer it got

loopVars  == <<nextID, agents, completed, pendingConfirms, pendingConfirmOrder,
               waiters, totalUsage, sinkUsage>>
agentVars == <<runner, turns, confirmReqCh, outcome, reported>>
vars == <<events, loop, loopVars, notices, cancelled, agentVars, tool, caller>>

(* A runner asks the parent engine for its transcript, waits for an answer *)
(* the engine will not send, awaits an LLM reply or its tool calls, has    *)
(* got the successful or failed result of its query loop, or has returned. *)
RunnerStates == {"none", "transcript", "stuck", "llm", "tools", "result", "failed", "closed"}

(* A tool call of the current turn is idle, about to ask for confirmation, *)
(* waiting on its response channel, answered, or gone with its context.    *)
ToolStates == {"idle", "ask", "wait", "granted", "refused", "gone"}
Settled(a) == \A t \in ToolCalls : tool[a][t] \notin {"ask", "wait"}
NoTools    == [t \in ToolCalls |-> "idle"]

(* The requests of callers, named as their methods, agentDoneEvent and     *)
(* agentConfirmEvent.  by is the caller or the tool call to be answered,   *)
(* arg the outcome a "done" carries.                                       *)
Event(kind, id, by, arg) == [kind |-> kind, id |-> id, by |-> by, arg |-> arg]
Requests == [kind : AllOps, id : Ids, by : Callers, arg : {"none"}]
Dones    == [kind : {"done"}, id : Agents, by : {NoTool}, arg : Outcomes]
Confirms == [kind : {"confirm"}, id : Agents, by : ToolCalls, arg : {"none"}]
Kinds    == Requests \cup Dones \cup Confirms

Notice  == [kind : Outcomes \cup {"spawned", "confirm"}, id : Agents]
Answers == Outcomes \cup {"none", "nil", "ok", "true", "false", "running"}
Calls   == [st : {"idle", "wait", "done"}, op : AllOps, id : Ids, val : Answers]

TypeOK ==
  /\ events \in Seq(Kinds)
  /\ loop \in {"up", "stopped"}
  /\ nextID \in 0 .. MaxSpawns
  /\ agents \subseteq Agents
  /\ completed \in [Ids -> Outcomes \cup {"none"}]
  /\ pendingConfirms \in [Ids -> ToolCalls \cup {NoTool}]
  /\ pendingConfirmOrder \in Seq(Agents)
  /\ waiters \in [Ids -> SUBSET Callers]
  /\ totalUsage \in Nat /\ sinkUsage \in Nat
  /\ notices \in Seq(Notice)
  /\ cancelled \in [Agents -> BOOLEAN]
  /\ runner \in [Agents -> RunnerStates]
  /\ turns \in [Agents -> 0 .. MaxTurns]
  /\ tool \in [Agents -> [ToolCalls -> ToolStates]]
  /\ confirmReqCh \in [Agents -> Seq(ToolCalls)]
  /\ outcome \in [Agents -> Outcomes \cup {"none"}]
  /\ reported \in [Agents -> BOOLEAN]
  /\ caller \in [Callers -> Calls]

Init ==
  /\ events = <<>> /\ loop = "up" /\ nextID = 0 /\ agents = {}
  /\ completed = [a \in Ids |-> "none"]
  /\ pendingConfirms = [a \in Ids |-> NoTool] /\ pendingConfirmOrder = <<>>
  /\ waiters = [a \in Ids |-> {}]
  /\ totalUsage = 0 /\ sinkUsage = 0 /\ notices = <<>>
  /\ cancelled = [a \in Agents |-> FALSE]
  /\ runner = [a \in Agents |-> "none"] /\ turns = [a \in Agents |-> 0]
  /\ tool = [a \in Agents |-> NoTools]
  /\ confirmReqCh = [a \in Agents |-> <<>>]
  /\ outcome = [a \in Agents |-> "none"] /\ reported = [a \in Agents |-> FALSE]
  /\ caller = [c \in Callers |-> [st |-> "idle", op |-> "get", id |-> 0, val |-> "none"]]

-----------------------------------------------------------------------------
(* Callers.                                                                *)

Send(e) == Len(events) < EventCap /\ events' = Append(events, e)

Waiting(c, op) == caller[c].st = "wait" /\ caller[c].op = op

(* Bound: no more than MaxSpawns agents are asked for.                     *)
SpawnsLeft ==
  nextID + Cardinality({c \in Callers : Waiting(c, "spawn") \/ Waiting(c, "agent")}) < MaxSpawns

(* A public method: put the request in the channel, block on the answer.   *)
(* Only Wait, Kill, Get and Confirm name an agent.                         *)
Call(c, op, id) ==
  /\ caller[c].st # "wait"
  /\ op \in {"spawn", "agent", "pending", "stop"} => id = MaxSpawns
  /\ op \in {"spawn", "agent"} => SpawnsLeft
  /\ Send(Event(op, id, c, "none"))
  /\ caller' = [caller EXCEPT ![c] = [st |-> "wait", op |-> op, id |-> id, val |-> "none"]]
  /\ UNCHANGED <<loop, loopVars, notices, cancelled, agentVars, tool>>

-----------------------------------------------------------------------------
(* The event loop.                                                         *)

Take(kind) ==
  /\ loop = "up" /\ events # <<>> /\ Head(events).kind = kind
  /\ events' = Tail(events)

Reply(c, id, val) ==
  [caller EXCEPT ![c] = [st |-> "done", op |-> caller[c].op, id |-> id, val |-> val]]

(* Non-blocking: a notice is dropped when the channel is full.             *)
Notify(kind, id) ==
  notices' = IF Len(notices) < NoticeCap
             THEN Append(notices, [kind |-> kind, id |-> id]) ELSE notices

(* "spawn" is a Spawn of the playbook's spawner, "agent" one of the agent  *)
(* tool, which hands the runner the parent engine's transcript function.   *)
FirstState(op) == IF op = "agent" THEN "transcript" ELSE "llm"

handleSpawn(op) ==
  /\ Take(op)
  /\ nextID < MaxSpawns
  /\ nextID' = nextID + 1
  /\ agents' = agents \cup {nextID}
  /\ Notify("spawned", nextID)
  /\ caller' = Reply(Head(events).by, nextID, "ok")
  /\ runner' = [runner EXCEPT ![nextID] = FirstState(op)]
  /\ UNCHANGED <<loop, completed, pendingConfirms, pendingConfirmOrder, waiters, totalUsage,
                 sinkUsage, cancelled, turns, confirmReqCh, outcome, reported, tool>>

(* Mutant: Kill takes the agent out of the registry itself.                *)
handleKillRemoves ==
  /\ Take("kill")
  /\ LET e == Head(events) IN
     /\ agents' = agents \ {e.id}
     /\ cancelled' = [a \in Agents |-> cancelled[a] \/ (a = e.id /\ a \in agents)]
     /\ caller' = Reply(e.by, e.id, IF e.id \in agents THEN "true" ELSE "false")
  /\ UNCHANGED <<loop, nextID, completed, pendingConfirms, pendingConfirmOrder, waiters,
                 totalUsage, sinkUsage, notices, agentVars, tool>>

(* The agent stays registered until its consumer reports.                  *)
handleKill ==
  /\ Take("kill")
  /\ LET e == Head(events) IN
     IF e.id \in agents
     THEN /\ cancelled' = [cancelled EXCEPT ![e.id] = TRUE]
          /\ caller' = Reply(e.by, e.id, "true")
     ELSE /\ caller' = Reply(e.by, e.id, "false")
          /\ UNCHANGED cancelled
  /\ UNCHANGED <<loop, loopVars, notices, agentVars, tool>>

(* The first occurrence of an id leaves the queue of approvals.            *)
FirstAt(s, i, e) == s[i] = e /\ \A j \in 1 .. (i - 1) : s[j] # e
Without(s, e) ==
  IF \E i \in DOMAIN s : FirstAt(s, i, e)
  THEN RemoveAt(s, CHOOSE i \in DOMAIN s : FirstAt(s, i, e)) ELSE s
(* Mutant: an answered request stays in the queue of approvals.            *)
keepPendingConfirmOrder(id) == UNCHANGED pendingConfirmOrder
removePendingConfirmOrder(id) == pendingConfirmOrder' = Without(pendingConfirmOrder, id)

(* The response channel has room for one answer and is used once; the      *)
(* answer is lost when the tool call has left with its context.            *)
Answer(id, t, verdict) ==
  tool' = [tool EXCEPT ![id][t] = IF @ = "wait" THEN verdict ELSE @]

(* Mutant: no answer to a Confirm when nothing is pending.                 *)
handleConfirmSilent(verdict) ==
  /\ Take(IF verdict = "granted" THEN "yes" ELSE "no")
  /\ LET e == Head(events) IN
     /\ pendingConfirms' = [pendingConfirms EXCEPT ![e.id] = NoTool]
     /\ removePendingConfirmOrder(e.id)
     /\ IF pendingConfirms[e.id] = NoTool
        THEN UNCHANGED <<caller, tool>>
        ELSE /\ caller' = Reply(e.by, e.id, "true")
             /\ Answer(e.id, pendingConfirms[e.id], verdict)
  /\ UNCHANGED <<loop, nextID, agents, completed, waiters, totalUsage, sinkUsage, notices,
                 cancelled, agentVars>>

handleConfirm(verdict) ==
  /\ Take(IF verdict = "granted" THEN "yes" ELSE "no")
  /\ LET e == Head(events) IN
     /\ pendingConfirms' = [pendingConfirms EXCEPT ![e.id] = NoTool]
     /\ removePendingConfirmOrder(e.id)
     /\ IF pendingConfirms[e.id] = NoTool
        THEN caller' = Reply(e.by, e.id, "false") /\ UNCHANGED tool
        ELSE /\ caller' = Reply(e.by, e.id, "true")
             /\ Answer(e.id, pendingConfirms[e.id], verdict)
  /\ UNCHANGED <<loop, nextID, agents, completed, waiters, totalUsage, sinkUsage, notices,
                 cancelled, agentVars>>

(* Get, and likewise List and TotalUsage: a snapshot of the registry.      *)
handleGet ==
  /\ Take("get")
  /\ LET e == Head(events) IN
     caller' = Reply(e.by, e.id, IF e.id \in agents THEN "running" ELSE "nil")
  /\ UNCHANGED <<loop, loopVars, notices, cancelled, agentVars, tool>>

(* The answer is the id in front of the queue, or MaxSpawns for "".        *)
handleHasPendingConfirm ==
  /\ Take("pending")
  /\ caller' = IF pendingConfirmOrder = <<>>
               THEN Reply(Head(events).by, MaxSpawns, "nil")
               ELSE Reply(Head(events).by, Head(pendingConfirmOrder), "ok")
  /\ UNCHANGED <<loop, loopVars, notices, cancelled, agentVars, tool>>

(* Mutant: a Wait is registered without a look at the registry.            *)
handleWaitAlways ==
  /\ Take("wait")
  /\ LET e == Head(events) IN waiters' = [waiters EXCEPT ![e.id] = @ \cup {e.by}]
  /\ UNCHANGED <<loop, nextID, agents, completed, pendingConfirms, pendingConfirmOrder,
                 totalUsage, sinkUsage, notices, cancelled, agentVars, tool, caller>>

(* Mutant: a late Wait leaves the copy of the result where it is.          *)
handleWaitKeeps ==
  /\ Take("wait")
  /\ LET e == Head(events) IN
     IF e.id \in agents
     THEN waiters' = [waiters EXCEPT ![e.id] = @ \cup {e.by}] /\ UNCHANGED caller
     ELSE /\ caller' = Reply(e.by, e.id,
                             IF completed[e.id] = "none" THEN "nil" ELSE completed[e.id])
          /\ UNCHANGED waiters
  /\ UNCHANGED <<loop, nextID, agents, completed, pendingConfirms, pendingConfirmOrder,
                 totalUsage, sinkUsage, notices, cancelled, agentVars, tool>>

handleWait ==
  /\ Take("wait")
  /\ LET e == Head(events) IN
     \/ /\ e.id \in agents
        /\ waiters' = [waiters EXCEPT ![e.id] = @ \cup {e.by}]
        /\ UNCHANGED <<completed, caller>>
     \/ /\ e.id \notin agents /\ completed[e.id] # "none"
        /\ caller' = Reply(e.by, e.id, completed[e.id])
        /\ completed' = [completed EXCEPT ![e.id] = "none"]
        /\ UNCHANGED waiters
     \/ /\ e.id \notin agents /\ completed[e.id] = "none"
        /\ caller' = Reply(e.by, e.id, "nil")
        /\ UNCHANGED <<waiters, completed>>
  /\ UNCHANGED <<loop, nextID, agents, pendingConfirms, pendingConfirmOrder, totalUsage,
                 sinkUsage, notices, cancelled, agentVars, tool>>

(* Mutant: whatever the outcome, usage is reported.                        *)
AnyUsage(o) == 1

(* Only a completed run carries usage, that of its last LLM reply.         *)
ReportedUsage(o) == IF o = "completed" THEN 1 ELSE 0

handleAgentDone ==
  /\ Take("done")
  /\ LET e == Head(events) IN
     IF e.id \in agents
     THEN /\ totalUsage' = totalUsage + ReportedUsage(e.arg)
          /\ sinkUsage' = sinkUsage + ReportedUsage(e.arg)
          /\ caller' = [c \in Callers |->
                          IF c \in waiters[e.id]
                          THEN [caller[c] EXCEPT !.st = "done", !.val = e.arg] ELSE caller[c]]
          /\ waiters' = [waiters EXCEPT ![e.id] = {}]
          /\ Notify(e.arg, e.id)
          /\ completed' = [completed EXCEPT ![e.id] = e.arg]
          /\ agents' = agents \ {e.id}
          /\ pendingConfirms' = [pendingConfirms EXCEPT ![e.id] = NoTool]
          /\ removePendingConfirmOrder(e.id)
     ELSE UNCHANGED <<agents, completed, pendingConfirms, pendingConfirmOrder, waiters,
                      totalUsage, sinkUsage, notices, caller>>
  /\ UNCHANGED <<loop, nextID, cancelled, agentVars, tool>>

(* Overwrites the response channel of an earlier request of the agent, and *)
(* does not ask whether the agent is still registered.                     *)
handleAgentConfirm ==
  /\ Take("confirm")
  /\ LET e == Head(events) IN
     /\ pendingConfirms' = [pendingConfirms EXCEPT ![e.id] = e.by]
     /\ pendingConfirmOrder' = Append(pendingConfirmOrder, e.id)
     /\ Notify("confirm", e.id)
  /\ UNCHANGED <<loop, nextID, agents, completed, waiters, totalUsage, sinkUsage, cancelled,
                 agentVars, tool, caller>>

(* The loop returns; nobody receives from `events' any more.               *)
handleStop ==
  /\ Take("stop")
  /\ cancelled' = [a \in Agents |-> cancelled[a] \/ a \in agents]
  /\ loop' = "stopped"
  /\ caller' = Reply(Head(events).by, MaxSpawns, "ok")
  /\ UNCHANGED <<loopVars, notices, agentVars, tool>>

LoopStep ==
  \/ handleSpawn("spawn") \/ handleSpawn("agent") \/ handleKill \/ handleGet \/ handleHasPendingConfirm \/ handleWait
  \/ handleConfirm("granted") \/ handleConfirm("refused")
  \/ handleAgentDone \/ handleAgentConfirm \/ handleStop

-----------------------------------------------------------------------------
(* The goroutines of an agent.                                             *)

(* The context an agent was spawned with is a child of its spawner's: an   *)
(* interrupt of the turn that spawned it cancels it.                       *)
ParentCancel(a) ==
  /\ runner[a] # "none" /\ ~cancelled[a]
  /\ cancelled' = [cancelled EXCEPT ![a] = TRUE]
  /\ UNCHANGED <<events, loop, loopVars, notices, agentVars, tool, caller>>

(* The runner returns: confirmReqCh and the output channel are closed, and *)
(* the consumer has folded the last event.                                 *)
RunnerEnd(a, o) ==
  /\ runner' = [runner EXCEPT ![a] = "closed"]
  /\ outcome' = [outcome EXCEPT ![a] = o]
  /\ tool' = [tool EXCEPT ![a] = NoTools]
  /\ UNCHANGED <<events, loop, loopVars, notices, cancelled, turns, confirmReqCh, reported, caller>>

(* The runner calls Engine.Messages.  Between turns the engine answers; in *)
(* a turn it drops the request, and the runner, which does not look at its *)
(* context here, waits for ever.                                           *)
Transcript(a, next) ==
  /\ runner[a] = "transcript"
  /\ runner' = [runner EXCEPT ![a] = next]
  /\ UNCHANGED <<events, loop, loopVars, notices, cancelled, turns, confirmReqCh, outcome, reported,
                 tool, caller>>

(* An LLM reply whose tool calls start; those in S need approval.  (A      *)
(* reply cut at the token limit counts no turn and changes nothing here.)  *)
ReplyTools(a, S) ==
  /\ runner[a] = "llm" /\ ~cancelled[a] /\ turns[a] < MaxTurns
  /\ turns' = [turns EXCEPT ![a] = @ + 1]
  /\ runner' = [runner EXCEPT ![a] = "tools"]
  /\ tool' = [tool EXCEPT ![a] = [t \in ToolCalls |-> IF t \in S THEN "ask" ELSE "idle"]]
  /\ UNCHANGED <<events, loop, loopVars, notices, cancelled, confirmReqCh, outcome, reported, caller>>

(* Mutant: the last reply is not held to the turn limit.                   *)
ReplyFinalUnlimited(a) ==
  /\ runner[a] = "llm" /\ ~cancelled[a]
  /\ turns' = [turns EXCEPT ![a] = @ + 1]
  /\ runner' = [runner EXCEPT ![a] = "result"]
  /\ UNCHANGED <<events, loop, loopVars, notices, cancelled, confirmReqCh, outcome, reported,
                 tool, caller>>

(* An LLM reply without tool use: the query loop's successful result.      *)
ReplyFinal(a) ==
  /\ runner[a] = "llm" /\ ~cancelled[a] /\ turns[a] < MaxTurns
  /\ turns' = [turns EXCEPT ![a] = @ + 1]
  /\ runner' = [runner EXCEPT ![a] = "result"]
  /\ UNCHANGED <<events, loop, loopVars, notices, cancelled, confirmReqCh, outcome, reported,
                 tool, caller>>

(* The turn limit, or a prompt too long: a failed result.                  *)
QueryFailed(a) ==
  /\ runner[a] = "llm" /\ ~cancelled[a]
  /\ runner' = [runner EXCEPT ![a] = "failed"]
  /\ UNCHANGED <<events, loop, loopVars, notices, cancelled, turns, confirmReqCh, outcome, reported,
                 tool, caller>>

(* An API failure, or "query aborted" when the context is done: an error   *)
(* event, which the runner passes on at once.                              *)
QueryError(a) == runner[a] = "llm" /\ RunnerEnd(a, "error")

(* After the result the runner looks at its context once more.             *)
RunnerResult(a) ==
  /\ runner[a] \in {"result", "failed"}
  /\ RunnerEnd(a, IF cancelled[a] THEN "killed"
                  ELSE IF runner[a] = "result" THEN "completed" ELSE "error")

(* ConfirmTool: the request goes into the buffered channel ...             *)
ToolAsk(a, t) ==
  /\ tool[a][t] = "ask" /\ Len(confirmReqCh[a]) < ConfirmCap
  /\ tool' = [tool EXCEPT ![a][t] = "wait"]
  /\ confirmReqCh' = [confirmReqCh EXCEPT ![a] = Append(@, t)]
  /\ UNCHANGED <<events, loop, loopVars, notices, cancelled, runner, turns, outcome, reported, caller>>

(* Mutant: only the first select listens to the context.                   *)
ToolGiveUpAsking(a, t) ==
  /\ cancelled[a] /\ tool[a][t] = "ask"
  /\ tool' = [tool EXCEPT ![a][t] = "gone"]
  /\ UNCHANGED <<events, loop, loopVars, notices, cancelled, agentVars, caller>>

(* ... and both of its selects also listen to the context.                 *)
ToolGiveUp(a, t) ==
  /\ cancelled[a] /\ tool[a][t] \in {"ask", "wait", "granted", "refused"}
  /\ tool' = [tool EXCEPT ![a][t] = "gone"]
  /\ UNCHANGED <<events, loop, loopVars, notices, cancelled, agentVars, caller>>

(* All tool calls returned: the next turn of the query loop ...            *)
ToolsDone(a) ==
  /\ runner[a] = "tools" /\ Settled(a)
  /\ runner' = [runner EXCEPT ![a] = "llm"]
  /\ tool' = [tool EXCEPT ![a] = NoTools]
  /\ UNCHANGED <<events, loop, loopVars, notices, cancelled, turns, confirmReqCh, outcome, reported, caller>>

(* ... unless a refused one was the confirm tool.                          *)
ToolsRefused(a) ==
  /\ runner[a] = "tools" /\ Settled(a)
  /\ \E t \in ToolCalls : tool[a][t] = "refused"
  /\ RunnerEnd(a, "error")

(* Mutant: the forwarder drops a request it cannot send at once.           *)
ForwardOrDrop(a) ==
  /\ confirmReqCh[a] # <<>>
  /\ IF Len(events) < EventCap
     THEN Send(Event("confirm", a, Head(confirmReqCh[a]), "none")) ELSE UNCHANGED events
  /\ confirmReqCh' = [confirmReqCh EXCEPT ![a] = Tail(@)]
  /\ UNCHANGED <<loop, loopVars, notices, cancelled, runner, turns, outcome, reported, tool, caller>>

(* The forwarder drains confirmReqCh, also after it was closed.            *)
Forward(a) ==
  /\ confirmReqCh[a] # <<>>
  /\ Send(Event("confirm", a, Head(confirmReqCh[a]), "none"))
  /\ confirmReqCh' = [confirmReqCh EXCEPT ![a] = Tail(@)]
  /\ UNCHANGED <<loop, loopVars, notices, cancelled, runner, turns, outcome, reported, tool, caller>>

(* Mutant: the report looks at the context instead of the runner's events. *)
ReportContext(a) ==
  /\ runner[a] = "closed" /\ ~reported[a]
  /\ Send(Event("done", a, NoTool, IF cancelled[a] THEN "killed" ELSE outcome[a]))
  /\ reported' = [reported EXCEPT ![a] = TRUE]
  /\ UNCHANGED <<loop, loopVars, notices, cancelled, runner, turns, confirmReqCh, outcome, tool, caller>>

(* The consumer reports once the runner's output channel is closed.        *)
Report(a) ==
  /\ runner[a] = "closed" /\ ~reported[a]
  /\ Send(Event("done", a, NoTool, outcome[a]))
  /\ reported' = [reported EXCEPT ![a] = TRUE]
  /\ UNCHANGED <<loop, loopVars, notices, cancelled, runner, turns, confirmReqCh, outcome, tool, caller>>

RunnerStep(a) ==
  \/ Transcript(a, "llm") \/ Transcript(a, "stuck")
  \/ \E S \in SUBSET ToolCalls : ReplyTools(a, S)
  \/ ReplyFinal(a) \/ QueryFailed(a) \/ QueryError(a) \/ RunnerResult(a)
  \/ ToolsDone(a) \/ ToolsRefused(a)

ToolStep(a, t) == ToolAsk(a, t) \/ ToolGiveUp(a, t)

AgentStep(a) ==
  \/ ParentCancel(a) \/ RunnerStep(a) \/ Forward(a) \/ Report(a)
  \/ \E t \in ToolCalls : ToolStep(a, t)

CallerStep == \E c \in Callers, op \in Ops, id \in Ids : Call(c, op, id)

Next == CallerStep \/ LoopStep \/ \E a \in Agents : AgentStep(a)

Spec == Init /\ [][Next]_vars

(* Goroutines run, and an LLM request returns or fails.  The senders that  *)
(* block on a full channel are served in the order they came (Go queues    *)
(* them), so none is overtaken for ever: strong fairness.  Nothing obliges *)
(* a caller to call, a user to answer, or a context to be cancelled.       *)
Fairness ==
  /\ WF_vars(LoopStep)
  /\ \A a \in Agents :
       /\ WF_vars(RunnerStep(a)) /\ SF_vars(Forward(a)) /\ SF_vars(Report(a))
       /\ \A t \in ToolCalls : WF_vars(ToolAsk(a, t)) /\ WF_vars(ToolGiveUp(a, t))

FairSpec == Spec /\ Fairness

-----------------------------------------------------------------------------
(* Properties.                                                             *)

Queued(kind, id) == \E i \in DOMAIN events : events[i].kind = kind /\ events[i].id = id
Asked(c, op)     == \E i \in DOMAIN events : events[i].kind = op /\ events[i].by = c

Spawned(a) == a < nextID

(* Nobody blocked in Wait is forgotten (handleWait, handleAgentDone): its  *)
(* request is still in the channel, or it is registered for an agent whose *)
(* end is yet to be handled; and the registered callers are all blocked.   *)
NoForgottenWaiter ==
  /\ \A c \in Callers :
       Waiting(c, "wait") =>
         \/ Asked(c, "wait")
         \/ c \in waiters[caller[c].id] /\ caller[c].id \in agents
  /\ \A a \in Ids : \A c \in waiters[a] : Waiting(c, "wait") /\ caller[c].id = a

(* An agent is in the registry exactly while its end is on the way: its    *)
(* runner runs, its consumer has yet to report, or the report is in the    *)
(* channel.  So nothing stays registered for ever without a cause, and     *)
(* nothing is dropped early (handleKill must leave the agent registered).  *)
EndOnTheWay ==
  \A a \in Agents :
    a \in agents <=> Spawned(a) /\ (runner[a] # "closed" \/ ~reported[a] \/ Queued("done", a))

(* Every Wait that is answered with a result, and the copy kept for a late *)
(* Wait, agree with the one outcome of the run.                            *)
OneOutcome ==
  /\ \A a \in Ids : completed[a] # "none" => a \in Agents /\ completed[a] = outcome[a]
  /\ \A c \in Callers :
       caller[c].st = "done" /\ caller[c].op = "wait" /\ caller[c].val # "nil"
         => /\ caller[c].id \in Agents /\ caller[c].val # "none"
            /\ caller[c].val = outcome[caller[c].id]

(* What the channel holds is never stale: a report repeats the outcome of  *)
(* a run that is over and comes once; a request belongs to a caller still  *)
(* blocked on it, registered nowhere, and is its only one.                 *)
ChannelSound ==
  /\ \A i \in DOMAIN events :
       events[i].kind = "done"
         => reported[events[i].id] /\ events[i].arg = outcome[events[i].id]
  /\ \A i \in DOMAIN events :
       events[i].kind \in AllOps
         => /\ Waiting(events[i].by, events[i].kind)
            /\ caller[events[i].by].id = events[i].id
            /\ \A a \in Ids : events[i].by \notin waiters[a]
  /\ \A i, j \in DOMAIN events :
       i # j => /\ ~ (events[i].kind = "done" /\ events[j].kind = "done"
                        /\ events[i].id = events[j].id)
                /\ ~ (events[i].kind \in AllOps /\ events[j].kind \in AllOps
                        /\ events[i].by = events[j].by)

(* A runner exists from the spawn of its agent on, has an outcome exactly  *)
(* once it returned, and is reported only then.                            *)
RunnerLife ==
  \A a \in Agents :
    /\ runner[a] = "none" <=> ~Spawned(a)
    /\ runner[a] = "closed" <=> outcome[a] # "none"
    /\ reported[a] => runner[a] = "closed"

(* The invariant the safety theorems are proved by: inductive together     *)
(* with the types.                                                         *)
SafetyInv == RunnerLife /\ ChannelSound /\ EndOnTheWay /\ NoForgottenWaiter /\ OneOutcome

(* The usage of each completed run is counted once, and what the parent    *)
(* engine was told (usageSink) is what the coordinator counted.            *)
Accounted == {a \in Agents : Spawned(a) /\ a \notin agents /\ outcome[a] = "completed"}
UsageConserved == totalUsage = Cardinality(Accounted) /\ sinkUsage = totalUsage

(* While an agent asks for one approval at a time, the queue the REPL      *)
(* shows and the map it answers from agree: each id in the queue once, and *)
(* exactly the ids with a stored response channel.                         *)
ConfirmQueueCoherent ==
  /\ \A i, j \in DOMAIN pendingConfirmOrder :
       pendingConfirmOrder[i] = pendingConfirmOrder[j] => i = j
  /\ \A a \in Ids : pendingConfirms[a] # NoTool <=> a \in ToSet(pendingConfirmOrder)

(* A tool call that waits for approval can still be answered: its request  *)
(* is on its way to the coordinator or its response channel is the one     *)
(* stored.  True while an agent asks for one approval at a time; with      *)
(* parallel risky tool calls handleAgentConfirm overwrites the channel.    *)
RequestHeld ==
  \A a \in Agents, t \in ToolCalls :
    tool[a][t] = "wait" =>
      \/ t \in ToSet(confirmReqCh[a])
      \/ \E i \in DOMAIN events : events[i] = Event("confirm", a, t, "none")
      \/ pendingConfirms[a] = t

(* The invariant these two are proved by, for an agent that asks for one   *)
(* approval at a time.  Its request is in one place, once: the runner's    *)
(* channel, the event channel, or the queue of approvals with its response *)
(* channel stored.  It is there exactly while its tool call waits, except  *)
(* that a tool call of a cancelled agent may have left it behind.          *)
AtRunner(a) == confirmReqCh[a] # <<>>
OnTheWay(a) == Queued("confirm", a)
InOrder(a)  == \E i \in DOMAIN pendingConfirmOrder : pendingConfirmOrder[i] = a
Held(a)     == AtRunner(a) \/ OnTheWay(a) \/ InOrder(a)

ToolsIdle == \A a \in Agents : runner[a] # "tools" => \A t \in ToolCalls : tool[a][t] = "idle"
OnePlace ==
  /\ \A a \in Agents :
       /\ Len(confirmReqCh[a]) <= 1
       /\ ~ (AtRunner(a) /\ OnTheWay(a)) /\ ~ (AtRunner(a) /\ InOrder(a))
       /\ ~ (OnTheWay(a) /\ InOrder(a))
  /\ \A i, j \in DOMAIN events :
       events[i].kind = "confirm" /\ events[j].kind = "confirm" /\ events[i].id = events[j].id
         => i = j
QueueExact ==
  /\ \A i, j \in DOMAIN pendingConfirmOrder :
       pendingConfirmOrder[i] = pendingConfirmOrder[j] => i = j
  /\ \A a \in Ids : pendingConfirms[a] # NoTool <=> InOrder(a)
HeldWhileAsked ==
  \A a \in Agents, t \in ToolCalls :
    /\ Held(a) => tool[a][t] = "wait" \/ (cancelled[a] /\ tool[a][t] # "ask")
    /\ tool[a][t] = "wait" => Held(a)
ApprovalInv == ToolsIdle /\ OnePlace /\ QueueExact /\ HeldWhileAsked

(* While the loop runs, a cancelled agent leaves the registry, whatever    *)
(* its tool calls wait for, unless its runner waits for the transcript.    *)
KillEffective ==
  \A a \in Agents : cancelled[a] ~> (a \notin agents \/ loop = "stopped" \/ runner[a] = "stuck")

(* While the loop runs, a Wait for a cancelled agent returns, with the     *)
(* same exception.                                                         *)
WaitReturns ==
  \A c \in Callers, a \in Agents :
    (Waiting(c, "wait") /\ caller[c].id = a /\ cancelled[a])
      ~> (~Waiting(c, "wait") \/ loop = "stopped" \/ runner[a] = "stuck")

(* While the loop runs, every other method returns.                        *)
CallsAnswered ==
  \A c \in Callers, op \in AllOps \ {"wait"} :
    Waiting(c, op) ~> (~Waiting(c, op) \/ loop = "stopped")

(* The coordinator implements the abstract service its callers rely on.    *)
Service == INSTANCE AgentService WITH
  phase  <- [a \in Agents |-> IF a \in agents THEN "running"
                              ELSE IF Spawned(a) THEN "done" ELSE "unborn"],
  result <- [a \in Agents |-> IF Spawned(a) /\ a \notin agents THEN outcome[a] ELSE "none"],
  kept   <- {a \in Agents : completed[a] # "none"},
  wait   <- [c \in Callers |-> IF caller[c].op = "wait"
                               THEN [st |-> caller[c].st, id |-> caller[c].id, val |-> caller[c].val]
                               ELSE [st |-> "idle", id |-> 0, val |-> "none"]]
ServiceSpec == Service!Spec

=============================================================================
