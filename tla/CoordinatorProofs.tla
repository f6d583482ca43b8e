-------------------------- MODULE CoordinatorProofs --------------------------
(***************************************************************************)
(* Theorems about Coordinator, for every value of its constants: the types *)
(* are kept, who waits is not forgotten, an agent is registered exactly    *)
(* until its end is handled, every result delivered is the outcome of the  *)
(* run, approvals are neither lost nor doubled, the usage accounts are     *)
(* exact, and the coordinator implements AgentService, which is what a     *)
(* playbook executor is modelled against.                                  *)
(***************************************************************************)
EXTENDS Coordinator, FiniteSetTheorems, TLAPS

(* The queue of approvals stays a sequence of agents when an id is taken   *)
(* out of it (removePendingConfirmOrder).                                  *)
LEMMA WithoutType ==
  ASSUME NEW S, NEW s \in Seq(S), NEW e
  PROVE  Without(s, e) \in Seq(S)
<1> DEFINE n == CHOOSE i \in DOMAIN s : FirstAt(s, i, e)
<1>1. CASE ~ \E i \in DOMAIN s : FirstAt(s, i, e)
  BY <1>1 DEF Without
<1>2. CASE \E i \in DOMAIN s : FirstAt(s, i, e)
  <2>1. n \in 1 .. Len(s)
    BY <1>2
  <2>2. RemoveAt(s, n) \in Seq(S)
    <3> HIDE DEF n
    <3>1. SubSeq(s, 1, n - 1) \in Seq(S) /\ SubSeq(s, n + 1, Len(s)) \in Seq(S)
      BY <2>1
    <3>2. QED
      BY <3>1 DEF RemoveAt
  <2>3. QED
    BY <1>2, <2>2 DEF Without
<1>3. QED
  BY <1>1, <1>2

-----------------------------------------------------------------------------
(* Type correctness.  A report carries the outcome the consumer folded, so *)
(* the type of the channel needs that a runner which returned has one.     *)

TypeInv == TypeOK /\ RunnerLife

LEMMA TypeInit == Init => TypeInv
  BY CoordinatorAssumption DEF Init, TypeInv, TypeOK, RunnerLife, Spawned, Agents, Ids,
     Outcomes, Answers, Calls, AllOps, ToolStates, NoTools, RunnerStates

(* Putting an event in the channel, and taking one out of it.              *)
LEMMA SendType ==
  ASSUME TypeInv, NEW e \in Kinds, Send(e)
  PROVE  events' \in Seq(Kinds)
BY DEF TypeInv, TypeOK, Send

LEMMA TakeType ==
  ASSUME TypeInv, NEW kind, Take(kind)
  PROVE  /\ events' \in Seq(Kinds)
         /\ Head(events) \in Kinds
         /\ kind \in AllOps => Head(events) \in Requests
         /\ kind = "done" => Head(events) \in Dones
         /\ kind = "confirm" => Head(events) \in Confirms
<1>1. events \in Seq(Kinds) /\ events # <<>> /\ Head(events).kind = kind /\ events' = Tail(events)
  BY DEF TypeInv, TypeOK, Take
<1>2. events' \in Seq(Kinds) /\ Head(events) \in Kinds
  BY <1>1
<1>3. Head(events) \in Requests => kind \in AllOps
  BY <1>1 DEF Requests
<1>4. Head(events) \in Dones => kind = "done"
  BY <1>1 DEF Dones, AllOps
<1>5. Head(events) \in Confirms => kind = "confirm"
  BY <1>1 DEF Confirms, AllOps
<1>6. QED
  BY <1>1, <1>2, <1>3, <1>4, <1>5 DEF Kinds, AllOps

LEMMA RequestType ==
  ASSUME TypeInv, NEW kind \in AllOps, Take(kind)
  PROVE  events' \in Seq(Kinds) /\ Head(events).id \in Ids /\ Head(events).by \in Callers
BY TakeType DEF Requests

LEMMA DoneType ==
  ASSUME TypeInv, Take("done")
  PROVE  events' \in Seq(Kinds) /\ Head(events).id \in Agents /\ Head(events).arg \in Outcomes
BY TakeType DEF Dones

LEMMA ConfirmType ==
  ASSUME TypeInv, Take("confirm")
  PROVE  events' \in Seq(Kinds) /\ Head(events).id \in Agents /\ Head(events).by \in ToolCalls
BY TakeType DEF Confirms

LEMMA AgentsAreIds == Agents \subseteq Ids /\ MaxSpawns \in Ids
  BY CoordinatorAssumption DEF Agents, Ids

LEMMA ReplyType ==
  ASSUME TypeInv, NEW c \in Callers, NEW id \in Ids, NEW val \in Answers
  PROVE  Reply(c, id, val) \in [Callers -> Calls]
<1>1. caller \in [Callers -> Calls]
  BY DEF TypeInv, TypeOK
<1>2. caller[c].op \in AllOps
  BY <1>1 DEF Calls
<1>3. [st |-> "done", op |-> caller[c].op, id |-> id, val |-> val] \in Calls
  BY <1>2 DEF Calls
<1>4. QED
  BY <1>1, <1>3 DEF Reply

LEMMA NotifyType ==
  ASSUME TypeInv, NEW kind \in Outcomes \cup {"spawned", "confirm"}, NEW id \in Agents,
         Notify(kind, id)
  PROVE  notices' \in Seq(Notice)
<1>1. notices \in Seq(Notice)
  BY DEF TypeInv, TypeOK
<1>2. [kind |-> kind, id |-> id] \in Notice
  BY DEF Notice
<1>3. QED
  BY <1>1, <1>2 DEF Notify


LEMMA TypeNext == TypeInv /\ [Next]_vars => TypeInv'
<1> SUFFICES ASSUME TypeInv, [Next]_vars
             PROVE  TypeInv'
  OBVIOUS
<1> USE DEF TypeInv, TypeOK, RunnerLife, Spawned
<1>1. ASSUME NEW c \in Callers, NEW op \in Ops, NEW id \in Ids, Call(c, op, id)
      PROVE  TypeInv'
  <2>1. Event(op, id, c, "none") \in Kinds
    BY CoordinatorAssumption DEF Event, Requests, Kinds
  <2>2. events' \in Seq(Kinds)
    BY <1>1, <2>1, SendType DEF Call
  <2>3. [st |-> "wait", op |-> op, id |-> id, val |-> "none"] \in Calls
    BY CoordinatorAssumption DEF Calls, Answers
  <2>4. caller' \in [Callers -> Calls]
    BY <1>1, <2>3 DEF Call
  <2>5. QED
    BY <1>1, <2>2, <2>4 DEF Call, loopVars, agentVars
<1>2. ASSUME NEW op \in {"spawn", "agent"}, handleSpawn(op)
      PROVE  TypeInv'
  <2>1. events' \in Seq(Kinds) /\ Head(events).by \in Callers
    BY <1>2, RequestType DEF handleSpawn, AllOps
  <2>2. nextID \in Agents /\ nextID' \in 0 .. MaxSpawns /\ nextID' = nextID + 1
    BY <1>2, CoordinatorAssumption DEF handleSpawn, Agents
  <2>3. caller' \in [Callers -> Calls]
    BY <1>2, <2>1, <2>2, ReplyType, AgentsAreIds DEF handleSpawn, Answers
  <2>4. notices' \in Seq(Notice)
    BY <1>2, <2>2, NotifyType DEF handleSpawn
  <2>5. agents' \subseteq Agents /\ runner' = [runner EXCEPT ![nextID] = FirstState(op)]
        /\ runner' \in [Agents -> RunnerStates]
    BY <1>2, <2>2 DEF handleSpawn, RunnerStates, FirstState
  <2>6. RunnerLife'
    BY <1>2, <2>2, <2>5 DEF handleSpawn, Agents, FirstState
  <2>7. QED
    BY <1>2, <2>1, <2>2, <2>3, <2>4, <2>5, <2>6 DEF handleSpawn
<1>3. CASE handleKill
  <2>1. events' \in Seq(Kinds) /\ Head(events).by \in Callers /\ Head(events).id \in Ids
    BY <1>3, RequestType DEF handleKill, AllOps
  <2>2. caller' \in [Callers -> Calls]
    BY <1>3, <2>1, ReplyType DEF handleKill, Answers
  <2>3. cancelled' \in [Agents -> BOOLEAN]
    BY <1>3, <2>1 DEF handleKill
  <2>4. QED
    BY <1>3, <2>1, <2>2, <2>3 DEF handleKill, loopVars, agentVars
<1>4. ASSUME NEW v \in {"granted", "refused"}, handleConfirm(v)
      PROVE  TypeInv'
  <2>1. events' \in Seq(Kinds) /\ Head(events).by \in Callers /\ Head(events).id \in Ids
    BY <1>4, RequestType DEF handleConfirm, AllOps
  <2>2. caller' \in [Callers -> Calls]
    BY <1>4, <2>1, ReplyType DEF handleConfirm, Answers
  <2>3. pendingConfirms' \in [Ids -> ToolCalls \cup {NoTool}]
    BY <1>4, <2>1 DEF handleConfirm
  <2>4. pendingConfirmOrder' \in Seq(Agents)
    BY <1>4, <2>1, WithoutType DEF handleConfirm, removePendingConfirmOrder
  <2>5. tool' \in [Agents -> [ToolCalls -> ToolStates]]
    <3>1. v \in ToolStates
      BY DEF ToolStates
    <3>2. ASSUME NEW id, NEW t, Answer(id, t, v)
          PROVE  tool' \in [Agents -> [ToolCalls -> ToolStates]]
      BY <3>1, <3>2 DEF Answer
    <3>3. QED
      BY <1>4, <3>2 DEF handleConfirm
  <2>6. QED
    BY <1>4, <2>1, <2>2, <2>3, <2>4, <2>5 DEF handleConfirm, agentVars
<1>5. CASE handleGet
  <2>1. events' \in Seq(Kinds) /\ Head(events).by \in Callers /\ Head(events).id \in Ids
    BY <1>5, RequestType DEF handleGet, AllOps
  <2>2. caller' \in [Callers -> Calls]
    BY <1>5, <2>1, ReplyType DEF handleGet, Answers
  <2>3. QED
    BY <1>5, <2>1, <2>2 DEF handleGet, loopVars, agentVars
<1>6. CASE handleHasPendingConfirm
  <2>1. events' \in Seq(Kinds) /\ Head(events).by \in Callers
    BY <1>6, RequestType DEF handleHasPendingConfirm, AllOps
  <2>2. pendingConfirmOrder # <<>> => Head(pendingConfirmOrder) \in Ids
    BY AgentsAreIds
  <2>3. caller' \in [Callers -> Calls]
    BY <1>6, <2>1, <2>2, ReplyType, AgentsAreIds DEF handleHasPendingConfirm, Answers
  <2>4. QED
    BY <1>6, <2>1, <2>3 DEF handleHasPendingConfirm, loopVars, agentVars
<1>7. CASE handleWait
  <2>1. events' \in Seq(Kinds) /\ Head(events).by \in Callers /\ Head(events).id \in Ids
    BY <1>7, RequestType DEF handleWait, AllOps
  <2>2. completed[Head(events).id] \in Answers /\ "nil" \in Answers
    BY <2>1 DEF Answers
  <2>3. caller' \in [Callers -> Calls]
    BY <1>7, <2>1, <2>2, ReplyType DEF handleWait
  <2>4. waiters' \in [Ids -> SUBSET Callers]
    <3>1. \/ waiters' = waiters
          \/ waiters' = [waiters EXCEPT ![Head(events).id] = @ \cup {Head(events).by}]
      BY <1>7 DEF handleWait
    <3>2. waiters \in [Ids -> SUBSET Callers]
      OBVIOUS
    <3>3. waiters[Head(events).id] \cup {Head(events).by} \in SUBSET Callers
      BY <2>1, <3>2
    <3> HIDE DEF TypeInv, TypeOK
    <3>4. QED
      BY <2>1, <3>1, <3>2, <3>3
  <2>5. completed' \in [Ids -> Outcomes \cup {"none"}]
    BY <1>7, <2>1 DEF handleWait
  <2>6. QED
    BY <1>7, <2>1, <2>3, <2>4, <2>5 DEF handleWait, agentVars
<1>8. CASE handleAgentDone
  <2> DEFINE e == Head(events)
  <2>1. events' \in Seq(Kinds) /\ e.id \in Agents /\ e.id \in Ids /\ e.arg \in Outcomes
    BY <1>8, DoneType, AgentsAreIds DEF handleAgentDone
  <2>2. CASE e.id \in agents
    <3> HIDE DEF e
    <3>1. /\ totalUsage' = totalUsage + ReportedUsage(e.arg)
          /\ sinkUsage' = sinkUsage + ReportedUsage(e.arg)
          /\ caller' = [c \in Callers |->
                          IF c \in waiters[e.id]
                          THEN [caller[c] EXCEPT !.st = "done", !.val = e.arg] ELSE caller[c]]
          /\ waiters' = [waiters EXCEPT ![e.id] = {}]
          /\ Notify(e.arg, e.id)
          /\ completed' = [completed EXCEPT ![e.id] = e.arg]
          /\ agents' = agents \ {e.id}
          /\ pendingConfirms' = [pendingConfirms EXCEPT ![e.id] = NoTool]
          /\ pendingConfirmOrder' = Without(pendingConfirmOrder, e.id)
          /\ UNCHANGED <<loop, nextID, cancelled, agentVars, tool>>
      BY <1>8, <2>2 DEF handleAgentDone, removePendingConfirmOrder, e
    <3>2. notices' \in Seq(Notice)
      BY <2>1, <3>1, NotifyType
    <3>3. ASSUME NEW c \in Callers
          PROVE  [caller[c] EXCEPT !.st = "done", !.val = e.arg] \in Calls
      <4>1. caller[c] \in Calls /\ e.arg \in Answers
        BY <2>1 DEF Answers
      <4>2. QED
        BY <4>1 DEF Calls
    <3>4. caller' \in [Callers -> Calls]
      BY <3>1, <3>3
    <3>5. pendingConfirmOrder' \in Seq(Agents)
      BY <3>1, WithoutType
    <3>6. totalUsage' \in Nat /\ sinkUsage' \in Nat
      <4>1. ReportedUsage(e.arg) \in Nat
        BY DEF ReportedUsage
      <4>2. totalUsage' = totalUsage + ReportedUsage(e.arg)
        BY <3>1
      <4>3. sinkUsage' = sinkUsage + ReportedUsage(e.arg)
        BY <3>1
      <4>4. QED
        BY <4>1, <4>2, <4>3
    <3>7. waiters' \in [Ids -> SUBSET Callers] /\ agents' \subseteq Agents
      BY <2>1, <3>1
    <3>8. /\ completed' \in [Ids -> Outcomes \cup {"none"}]
          /\ pendingConfirms' \in [Ids -> ToolCalls \cup {NoTool}]
      BY <2>1, <3>1
    <3>9. QED
      BY <2>1, <3>1, <3>2, <3>4, <3>5, <3>6, <3>7, <3>8 DEF agentVars
  <2>3. CASE e.id \notin agents
    BY <1>8, <2>1, <2>3 DEF handleAgentDone, agentVars
  <2>4. QED
    BY <2>2, <2>3
<1>9. CASE handleAgentConfirm
  <2>1. /\ events' \in Seq(Kinds) /\ Head(events).id \in Agents /\ Head(events).id \in Ids
        /\ Head(events).by \in ToolCalls
    BY <1>9, ConfirmType, AgentsAreIds DEF handleAgentConfirm
  <2>2. notices' \in Seq(Notice)
    BY <1>9, <2>1, NotifyType DEF handleAgentConfirm
  <2>3. pendingConfirms' \in [Ids -> ToolCalls \cup {NoTool}]
    BY <1>9, <2>1 DEF handleAgentConfirm
  <2>4. pendingConfirmOrder' \in Seq(Agents)
    BY <1>9, <2>1 DEF handleAgentConfirm
  <2>5. QED
    BY <1>9, <2>1, <2>2, <2>3, <2>4 DEF handleAgentConfirm, agentVars
<1>10. CASE handleStop
  <2>1. events' \in Seq(Kinds) /\ Head(events).by \in Callers
    BY <1>10, RequestType DEF handleStop, AllOps
  <2>2. caller' \in [Callers -> Calls]
    BY <1>10, <2>1, ReplyType, AgentsAreIds DEF handleStop, Answers
  <2>3. cancelled' \in [Agents -> BOOLEAN]
    BY <1>10 DEF handleStop
  <2>4. QED
    BY <1>10, <2>1, <2>2, <2>3 DEF handleStop, loopVars, agentVars
<1>11. ASSUME NEW a \in Agents, AgentStep(a)
       PROVE  TypeInv'
  <2>1. CASE ParentCancel(a)
    <3>1. cancelled' \in [Agents -> BOOLEAN]
      BY <2>1 DEF ParentCancel
    <3>2. QED
      BY <2>1, <3>1 DEF ParentCancel, loopVars, agentVars
  <2>2. ASSUME NEW S \in SUBSET ToolCalls, ReplyTools(a, S)
        PROVE  TypeInv'
    <3>1. turns' \in [Agents -> 0 .. MaxTurns]
      BY <2>2, CoordinatorAssumption DEF ReplyTools
    <3>2. [t \in ToolCalls |-> IF t \in S THEN "ask" ELSE "idle"] \in [ToolCalls -> ToolStates]
      BY DEF ToolStates
    <3>3. tool' \in [Agents -> [ToolCalls -> ToolStates]]
      BY <2>2, <3>2 DEF ReplyTools
    <3>4. runner' \in [Agents -> RunnerStates] /\ RunnerLife'
      BY <2>2 DEF ReplyTools, loopVars, RunnerStates
    <3>5. QED
      BY <2>2, <3>1, <3>3, <3>4 DEF ReplyTools, loopVars, RunnerStates
  <2>3. CASE ReplyFinal(a)
    <3>1. turns' \in [Agents -> 0 .. MaxTurns]
      BY <2>3, CoordinatorAssumption DEF ReplyFinal
    <3>2. runner' \in [Agents -> RunnerStates] /\ RunnerLife'
      BY <2>3 DEF ReplyFinal, loopVars, RunnerStates
    <3>3. QED
      BY <2>3, <3>1, <3>2 DEF ReplyFinal, loopVars, RunnerStates
  <2>4. ASSUME NEW o \in Outcomes, runner[a] # "none", RunnerEnd(a, o)
        PROVE  TypeInv'
    <3>1. outcome' \in [Agents -> Outcomes \cup {"none"}]
      BY <2>4 DEF RunnerEnd
    <3>2. NoTools \in [ToolCalls -> ToolStates]
      BY DEF NoTools, ToolStates
    <3>3. tool' \in [Agents -> [ToolCalls -> ToolStates]]
      BY <2>4, <3>2 DEF RunnerEnd
    <3>4. runner' \in [Agents -> RunnerStates]
      BY <2>4 DEF RunnerEnd, RunnerStates
    <3>5. RunnerLife'
      BY <2>4 DEF RunnerEnd, loopVars, Outcomes
    <3>6. QED
      BY <2>4, <3>1, <3>3, <3>4, <3>5 DEF RunnerEnd, loopVars, RunnerStates
  <2>5. CASE QueryError(a) \/ RunnerResult(a) \/ ToolsRefused(a)
    BY <2>4, <2>5 DEF QueryError, RunnerResult, ToolsRefused, Outcomes
  <2>6. CASE ToolsDone(a)
    <3>1. tool' \in [Agents -> [ToolCalls -> ToolStates]]
      BY <2>6 DEF ToolsDone, NoTools, ToolStates
    <3>2. runner' \in [Agents -> RunnerStates] /\ RunnerLife'
      BY <2>6 DEF ToolsDone, loopVars, RunnerStates
    <3>3. QED
      BY <2>6, <3>1, <3>2 DEF ToolsDone, loopVars, RunnerStates
  <2>7. CASE Forward(a)
    <3>1. confirmReqCh[a] \in Seq(ToolCalls) /\ confirmReqCh[a] # <<>>
      BY <2>7 DEF Forward
    <3>2. Event("confirm", a, Head(confirmReqCh[a]), "none") \in Kinds
      BY <3>1 DEF Event, Confirms, Kinds
    <3>3. events' \in Seq(Kinds)
      BY <2>7, <3>2, SendType DEF Forward
    <3>4. confirmReqCh' \in [Agents -> Seq(ToolCalls)]
      BY <2>7, <3>1 DEF Forward
    <3>5. QED
      BY <2>7, <3>3, <3>4 DEF Forward, loopVars
  <2>8. CASE Report(a)
    <3>1. Event("done", a, NoTool, outcome[a]) \in Kinds
      BY <2>8 DEF Report, Event, Dones, Kinds
    <3>2. events' \in Seq(Kinds)
      BY <2>8, <3>1, SendType DEF Report
    <3>3. QED
      BY <2>8, <3>2 DEF Report, loopVars
  <2>9. ASSUME NEW t \in ToolCalls, ToolAsk(a, t)
        PROVE  TypeInv'
    <3>1. tool' \in [Agents -> [ToolCalls -> ToolStates]]
      BY <2>9 DEF ToolAsk, ToolStates
    <3>2. Append(confirmReqCh[a], t) \in Seq(ToolCalls)
      OBVIOUS
    <3>3. confirmReqCh' \in [Agents -> Seq(ToolCalls)]
      BY <2>9, <3>2 DEF ToolAsk
    <3>4. QED
      BY <2>9, <3>1, <3>3 DEF ToolAsk, loopVars
  <2>10. ASSUME NEW t \in ToolCalls, ToolGiveUp(a, t)
         PROVE  TypeInv'
    <3>1. tool' \in [Agents -> [ToolCalls -> ToolStates]]
      BY <2>10 DEF ToolGiveUp, ToolStates
    <3>2. QED
      BY <2>10, <3>1 DEF ToolGiveUp, loopVars, agentVars
  <2>11. CASE QueryFailed(a)
    <3>1. runner' \in [Agents -> RunnerStates] /\ RunnerLife'
      BY <2>11 DEF QueryFailed, loopVars, RunnerStates
    <3>2. QED
      BY <2>11, <3>1 DEF QueryFailed, loopVars
  <2>12. ASSUME NEW next \in {"llm", "stuck"}, Transcript(a, next)
         PROVE  TypeInv'
    <3>1. runner' \in [Agents -> RunnerStates] /\ RunnerLife'
      BY <2>12 DEF Transcript, loopVars, RunnerStates
    <3>2. QED
      BY <2>12, <3>1 DEF Transcript, loopVars
  <2>13. QED
    BY <1>11, <2>1, <2>2, <2>3, <2>5, <2>6, <2>7, <2>8, <2>9, <2>10, <2>11, <2>12
    DEF AgentStep, RunnerStep, ToolStep
<1>12. CASE UNCHANGED vars
  BY <1>12 DEF vars, loopVars, agentVars
<1>13. QED
  BY <1>1, <1>2, <1>3, <1>4, <1>5, <1>6, <1>7, <1>8, <1>9, <1>10, <1>11, <1>12
  DEF Next, CallerStep, LoopStep

(* Every variable keeps its type: in particular the ids a handler stores   *)
(* or takes out of its queues are ids of agents, and a report never        *)
(* carries an empty outcome.                                               *)
THEOREM TypeCorrect == Spec => []TypeOK
<1>1. TypeInv => TypeOK
  BY DEF TypeInv
<1>2. QED
  BY <1>1, TypeInit, TypeNext, PTL DEF Spec

-----------------------------------------------------------------------------
(* Safety.  It rests on ChannelSound: what a handler finds in the channel  *)
(* is as true as when it was put there.                                    *)

LEMMA SafetyInit == Init => SafetyInv
  BY DEF Init, SafetyInv, RunnerLife, ChannelSound, EndOnTheWay, NoForgottenWaiter, OneOutcome,
         Spawned, Queued, Asked, Waiting, Agents, Ids

-----------------------------------------------------------------------------
(* Positions of the channel before and after a receive and a send.         *)

LEMMA TakeFacts ==
  ASSUME TypeInv, NEW kind, Take(kind)
  PROVE  /\ 1 \in DOMAIN events /\ Head(events) = events[1] /\ events[1].kind = kind
         /\ \A i \in DOMAIN events' : i + 1 \in DOMAIN events /\ i + 1 # 1
                                      /\ events'[i] = events[i + 1]
         /\ \A i \in DOMAIN events : i # 1 => \E j \in DOMAIN events' : events'[j] = events[i]
         /\ \A i, j \in DOMAIN events' : i # j => i + 1 # j + 1
<1>1. events \in Seq(Kinds) /\ events # <<>> /\ Head(events).kind = kind /\ events' = Tail(events)
  BY DEF TypeInv, TypeOK, Take
<1>2. ASSUME NEW i \in DOMAIN events, i # 1
      PROVE  i - 1 \in DOMAIN events' /\ events'[i - 1] = events[i]
  BY <1>1, <1>2
<1>3. DOMAIN events = 1 .. Len(events) /\ DOMAIN events' = 1 .. (Len(events) - 1)
      /\ Len(events) \in Nat \ {0}
  BY <1>1
<1>4. ASSUME NEW i \in DOMAIN events'
      PROVE  i \in Nat \ {0} /\ i + 1 \in DOMAIN events /\ events'[i] = events[i + 1]
  BY <1>1, <1>3, <1>4
<1>5. 1 \in DOMAIN events /\ Head(events) = events[1] /\ events[1].kind = kind
  BY <1>1, <1>3
<1>6. QED
  BY <1>2, <1>4, <1>5

LEMMA SendFacts ==
  ASSUME TypeInv, NEW e \in Kinds, Send(e)
  PROVE  \E n : /\ n \notin DOMAIN events /\ DOMAIN events' = DOMAIN events \cup {n}
                /\ events'[n] = e
                /\ \A i \in DOMAIN events : events'[i] = events[i]
<1>1. events \in Seq(Kinds) /\ events' = Append(events, e)
  BY DEF TypeInv, TypeOK, Send
<1>2. /\ Len(events) + 1 \notin DOMAIN events
      /\ DOMAIN events' = DOMAIN events \cup {Len(events) + 1}
      /\ events'[Len(events) + 1] = e
      /\ \A i \in DOMAIN events : events'[i] = events[i]
  BY <1>1
<1>3. QED
  BY <1>2

LEMMA EventTypes ==
  ASSUME TypeInv, NEW i \in DOMAIN events
  PROVE  /\ events[i].kind \in AllOps => events[i].by \in Callers /\ events[i].id \in Ids
         /\ events[i].kind = "done" => events[i].id \in Agents
<1>1. events[i] \in Kinds
  BY DEF TypeInv, TypeOK
<1>2. QED
  BY <1>1 DEF Kinds, Requests, Dones, Confirms, AllOps

(* What is still in the channel after a receive.                           *)
LEMMA AfterTake ==
  ASSUME TypeInv, ChannelSound, NEW kind, Take(kind)
  PROVE  /\ \A a : Queued("done", a)'
                     <=> Queued("done", a) /\ ~ (kind = "done" /\ Head(events).id = a)
         /\ \A c : Asked(c, "wait")'
                     <=> Asked(c, "wait") /\ ~ (kind = "wait" /\ Head(events).by = c)
         /\ kind = "done" => Queued("done", Head(events).id)
         /\ \A c : kind \in AllOps /\ kind # "wait" /\ Head(events).by = c => ~ Asked(c, "wait")
<1> USE TakeFacts
<1>1. ASSUME NEW a, Queued("done", a)'
      PROVE  Queued("done", a) /\ ~ (kind = "done" /\ Head(events).id = a)
  BY <1>1 DEF Queued, ChannelSound
<1>2. ASSUME NEW a, Queued("done", a), ~ (kind = "done" /\ Head(events).id = a)
      PROVE  Queued("done", a)'
  BY <1>2 DEF Queued
<1>3. ASSUME NEW c, Asked(c, "wait")'
      PROVE  Asked(c, "wait") /\ ~ (kind = "wait" /\ Head(events).by = c)
  BY <1>3 DEF Asked, ChannelSound, AllOps
<1>4. ASSUME NEW c, Asked(c, "wait"), ~ (kind = "wait" /\ Head(events).by = c)
      PROVE  Asked(c, "wait")'
  BY <1>4 DEF Asked
<1>5. kind = "done" => Queued("done", Head(events).id)
  BY DEF Queued
<1>6. ASSUME NEW c, kind \in AllOps, kind # "wait", Head(events).by = c, Asked(c, "wait")
      PROVE  FALSE
  BY <1>6 DEF Asked, ChannelSound, AllOps
<1>7. QED
  BY <1>1, <1>2, <1>3, <1>4, <1>5, <1>6

LEMMA AfterSend ==
  ASSUME TypeInv, NEW e \in Kinds, Send(e)
  PROVE  /\ \A a : Queued("done", a)' <=> Queued("done", a) \/ (e.kind = "done" /\ e.id = a)
         /\ \A c : Asked(c, "wait")' <=> Asked(c, "wait") \/ (e.kind = "wait" /\ e.by = c)
<1>1. PICK n : /\ n \notin DOMAIN events /\ DOMAIN events' = DOMAIN events \cup {n}
               /\ events'[n] = e
               /\ \A i \in DOMAIN events : events'[i] = events[i]
  BY SendFacts
<1>2. QED
  BY <1>1 DEF Queued, Asked

(* A receive keeps the channel sound when the callers it changes are the   *)
(* one it answers and those registered with an agent.                      *)
LEMMA SoundTake ==
  ASSUME TypeInv, ChannelSound, NEW kind, Take(kind), UNCHANGED <<reported, outcome>>,
         \A c \in Callers :
           \/ caller'[c] = caller[c] /\ \A a \in Ids : c \in waiters'[a] => c \in waiters[a]
           \/ kind \in AllOps /\ c = Head(events).by
           \/ \E a \in Ids : c \in waiters[a]
  PROVE  ChannelSound'
<1> USE TakeFacts
<1>1. ASSUME NEW i \in DOMAIN events', events'[i].kind = "done"
      PROVE  reported'[events'[i].id] /\ events'[i].arg = outcome'[events'[i].id]
  BY <1>1 DEF ChannelSound
<1>2. ASSUME NEW i \in DOMAIN events', events'[i].kind \in AllOps
      PROVE  /\ caller'[events'[i].by].st = "wait" /\ caller'[events'[i].by].op = events'[i].kind
             /\ caller'[events'[i].by].id = events'[i].id
             /\ \A a \in Ids : events'[i].by \notin waiters'[a]
  <2>1. /\ i + 1 \in DOMAIN events /\ i + 1 # 1 /\ events'[i] = events[i + 1]
        /\ events[i + 1].by \in Callers
    BY <1>2, EventTypes
  <2>2. /\ Waiting(events'[i].by, events'[i].kind)
        /\ caller[events'[i].by].id = events'[i].id
        /\ \A a \in Ids : events'[i].by \notin waiters[a]
    BY <1>2, <2>1 DEF ChannelSound
  <2>3. ~ (kind \in AllOps /\ events'[i].by = Head(events).by)
    BY <1>2, <2>1 DEF ChannelSound
  <2>4. /\ caller'[events'[i].by] = caller[events'[i].by]
        /\ \A a \in Ids : events'[i].by \notin waiters'[a]
    BY <2>1, <2>2, <2>3
  <2>5. QED
    BY <2>2, <2>4 DEF Waiting
<1>3. ASSUME NEW i \in DOMAIN events', NEW j \in DOMAIN events', i # j
      PROVE  /\ ~ (events'[i].kind = "done" /\ events'[j].kind = "done"
                     /\ events'[i].id = events'[j].id)
             /\ ~ (events'[i].kind \in AllOps /\ events'[j].kind \in AllOps
                     /\ events'[i].by = events'[j].by)
  <2>1. /\ i + 1 \in DOMAIN events /\ j + 1 \in DOMAIN events /\ i + 1 # j + 1
        /\ events'[i] = events[i + 1] /\ events'[j] = events[j + 1]
    BY <1>3
  <2>2. QED
    BY <2>1 DEF ChannelSound
<1>4. QED
  BY <1>1, <1>2, <1>3 DEF ChannelSound, Waiting

(* A send keeps it sound when it brings the first report of a run that is  *)
(* over, or the request of a caller that was not blocked.                  *)
LEMMA SoundSend ==
  ASSUME TypeInv, ChannelSound, NEW e \in Kinds, Send(e), UNCHANGED <<outcome, waiters>>,
         \A a \in Agents : reported[a] => reported'[a],
         \A c \in Callers : caller'[c] = caller[c] \/ (e.kind \in AllOps /\ c = e.by),
         e.kind = "done" => reported'[e.id] /\ ~ reported[e.id] /\ e.arg = outcome[e.id],
         e.kind \in AllOps =>
           /\ caller[e.by].st # "wait" /\ caller'[e.by].st = "wait"
           /\ caller'[e.by].op = e.kind /\ caller'[e.by].id = e.id
           /\ \A a \in Ids : e.by \notin waiters[a]
  PROVE  ChannelSound'
<1>1. PICK n : /\ n \notin DOMAIN events /\ DOMAIN events' = DOMAIN events \cup {n}
               /\ events'[n] = e
               /\ \A i \in DOMAIN events : events'[i] = events[i]
  BY SendFacts
<1>2. ASSUME NEW i \in DOMAIN events', events'[i].kind = "done"
      PROVE  reported'[events'[i].id] /\ events'[i].arg = outcome'[events'[i].id]
  BY <1>1, <1>2, EventTypes DEF ChannelSound
<1>3. ASSUME NEW i \in DOMAIN events, events[i].kind \in AllOps
      PROVE  ~ (e.kind \in AllOps /\ events[i].by = e.by)
  BY <1>3 DEF ChannelSound, Waiting
<1>4. ASSUME NEW i \in DOMAIN events', events'[i].kind \in AllOps
      PROVE  /\ caller'[events'[i].by].st = "wait" /\ caller'[events'[i].by].op = events'[i].kind
             /\ caller'[events'[i].by].id = events'[i].id
             /\ \A a \in Ids : events'[i].by \notin waiters'[a]
  <2>1. CASE i = n
    BY <1>1, <1>4, <2>1
  <2>2. CASE i \in DOMAIN events
    <3>1. /\ events'[i] = events[i] /\ events[i].by \in Callers
          /\ Waiting(events[i].by, events[i].kind) /\ caller[events[i].by].id = events[i].id
          /\ \A a \in Ids : events[i].by \notin waiters[a]
      BY <1>1, <1>4, <2>2, EventTypes DEF ChannelSound
    <3>2. caller'[events[i].by] = caller[events[i].by]
      BY <1>1, <1>3, <1>4, <2>2, <3>1
    <3>3. QED
      BY <3>1, <3>2 DEF Waiting
  <2>3. QED
    BY <1>1, <1>4, <2>1, <2>2
<1>5. ASSUME NEW i \in DOMAIN events, events[i].kind = "done"
      PROVE  ~ (e.kind = "done" /\ events[i].id = e.id)
  BY <1>5 DEF ChannelSound
<1>6. ASSUME NEW i \in DOMAIN events', NEW j \in DOMAIN events', i # j
      PROVE  /\ ~ (events'[i].kind = "done" /\ events'[j].kind = "done"
                     /\ events'[i].id = events'[j].id)
             /\ ~ (events'[i].kind \in AllOps /\ events'[j].kind \in AllOps
                     /\ events'[i].by = events'[j].by)
  <2>1. CASE i \in DOMAIN events /\ j \in DOMAIN events
    BY <1>1, <1>6, <2>1 DEF ChannelSound
  <2>2. CASE i = n /\ j \in DOMAIN events
    BY <1>1, <1>3, <1>5, <2>2
  <2>3. CASE i \in DOMAIN events /\ j = n
    BY <1>1, <1>3, <1>5, <2>3
  <2>4. QED
    BY <1>1, <1>6, <2>1, <2>2, <2>3
<1>7. QED
  BY <1>2, <1>4, <1>6 DEF ChannelSound, Waiting

-----------------------------------------------------------------------------
(* The steps.  Most of them leave alone all that the invariant speaks of,  *)
(* except perhaps one request in front of the channel and its caller.      *)

Inv == TypeInv /\ SafetyInv
Safe == ChannelSound /\ EndOnTheWay /\ NoForgottenWaiter /\ OneOutcome

LEMMA SafeFrame ==
  ASSUME Inv, UNCHANGED <<events, nextID, agents, completed, waiters, reported, outcome, caller>>,
         \A a \in Agents : runner'[a] = "closed" <=> runner[a] = "closed"
  PROVE  Safe'
<1> USE DEF Inv, SafetyInv, Safe
<1>1. ChannelSound'
  BY DEF ChannelSound, Waiting
<1>2. EndOnTheWay'
  BY DEF EndOnTheWay, Spawned, Queued
<1>3. NoForgottenWaiter'
  BY DEF NoForgottenWaiter, Waiting, Asked
<1>4. OneOutcome'
  BY DEF OneOutcome
<1>5. QED
  BY <1>1, <1>2, <1>3, <1>4

(* The answer to a request other than Wait.                                *)
LEMMA SafeReply ==
  ASSUME Inv, NEW kind \in AllOps \ {"wait"}, Take(kind), NEW id, NEW val,
         caller' = [caller EXCEPT ![Head(events).by] =
                      [st |-> "done", op |-> caller[Head(events).by].op, id |-> id, val |-> val]],
         UNCHANGED <<completed, waiters, reported, outcome>>, agents \subseteq agents'
  PROVE  ChannelSound' /\ NoForgottenWaiter' /\ OneOutcome'
<1> DEFINE c == Head(events).by
<1> USE DEF Inv, SafetyInv
<1>1. /\ c \in Callers /\ Waiting(c, kind) /\ \A a \in Ids : c \notin waiters[a]
  <2>1. 1 \in DOMAIN events /\ Head(events) = events[1] /\ events[1].kind = kind
    BY TakeFacts
  <2>2. QED
    BY <2>1, EventTypes DEF ChannelSound
<1>2. caller \in [Callers -> Calls] /\ caller[c].op = kind
  BY <1>1 DEF TypeInv, TypeOK, Waiting
<1>3. /\ caller'[c] = [st |-> "done", op |-> kind, id |-> id, val |-> val]
      /\ \A d \in Callers \ {c} : caller'[d] = caller[d]
  BY <1>1, <1>2
<1> HIDE DEF c
<1>4. ChannelSound'
  BY <1>3, SoundTake DEF c
<1>5. \A d \in Callers : d # c => (Asked(d, "wait")' <=> Asked(d, "wait"))
  BY AfterTake DEF c
<1>6. NoForgottenWaiter'
  BY <1>1, <1>3, <1>5 DEF NoForgottenWaiter, Waiting
<1>7. OneOutcome'
  BY <1>3 DEF OneOutcome
<1>8. QED
  BY <1>4, <1>6, <1>7

LEMMA SafeEnd ==
  ASSUME Inv, NEW kind, Take(kind), kind # "done", UNCHANGED <<nextID, agents, reported, runner>>
  PROVE  EndOnTheWay'
<1>1. \A a : Queued("done", a)' <=> Queued("done", a)
  BY AfterTake DEF Inv, SafetyInv
<1>2. QED
  BY <1>1 DEF Inv, SafetyInv, EndOnTheWay, Spawned

(* A report is of an agent that is still registered, and repeats the        *)
(* outcome of its run: the guard of handleAgentDone never fails.           *)
LEMMA DoneFacts ==
  ASSUME Inv, handleAgentDone, NEW b, b = Head(events).id
  PROVE  /\ Take("done") /\ b \in agents /\ b \in Agents /\ b \in Ids /\ outcome[b] \in Outcomes
         /\ Queued("done", b) /\ reported[b] /\ Head(events).arg = outcome[b]
         /\ UNCHANGED <<nextID, reported, outcome, runner>>
         /\ caller' = [c \in Callers |->
                         IF c \in waiters[b]
                         THEN [caller[c] EXCEPT !.st = "done", !.val = outcome[b]] ELSE caller[c]]
         /\ waiters' = [waiters EXCEPT ![b] = {}]
         /\ completed' = [completed EXCEPT ![b] = outcome[b]]
         /\ agents' = agents \ {b}
         /\ totalUsage' = totalUsage + ReportedUsage(outcome[b])
         /\ sinkUsage' = sinkUsage + ReportedUsage(outcome[b])
<1>1. /\ Take("done") /\ b \in Agents /\ b \in Ids /\ outcome[b] \in Outcomes
      /\ Queued("done", b) /\ reported[b] /\ Head(events).arg = outcome[b]
      /\ UNCHANGED <<nextID, reported, outcome, runner>>
  <2>1. Take("done") /\ UNCHANGED <<nextID, reported, outcome, runner>>
    BY DEF handleAgentDone, agentVars
  <2>2. b \in Agents /\ b \in Ids /\ Head(events).arg \in Outcomes
    BY <2>1, DoneType, AgentsAreIds DEF Inv
  <2>3. 1 \in DOMAIN events /\ Head(events) = events[1] /\ events[1].kind = "done"
    BY <2>1, TakeFacts DEF Inv
  <2>4. reported[b] /\ Head(events).arg = outcome[b] /\ Queued("done", b)
    BY <2>3 DEF Inv, SafetyInv, ChannelSound, Queued
  <2>5. QED
    BY <2>1, <2>2, <2>4
<1>2. b \in agents
  BY <1>1, TakeFacts DEF Inv, SafetyInv, EndOnTheWay, RunnerLife
<1>3. QED
  BY <1>1, <1>2 DEF handleAgentDone

(* Whoever is registered with an agent is blocked in a Wait for it.        *)
LEMMA RegisteredWait ==
  ASSUME Inv, NEW b \in Ids, NEW c \in waiters[b]
  PROVE  c \in Callers /\ caller[c].st = "wait" /\ caller[c].op = "wait" /\ caller[c].id = b
BY DEF Inv, TypeInv, TypeOK, SafetyInv, NoForgottenWaiter, Waiting

(* The report of an agent's end: whoever is registered gets the outcome.   *)
LEMMA SafeDone ==
  ASSUME Inv, handleAgentDone
  PROVE  Safe'
<1> DEFINE b == Head(events).id
<1> HIDE DEF b
<1>1. /\ Take("done") /\ b \in agents /\ b \in Agents /\ b \in Ids /\ outcome[b] \in Outcomes
      /\ Queued("done", b) /\ reported[b] /\ Head(events).arg = outcome[b] /\ Head(events).id = b
      /\ UNCHANGED <<nextID, reported, outcome, runner>>
  BY DoneFacts DEF b
<1>2. b \in agents
  BY <1>1
<1>3. /\ caller' = [c \in Callers |->
                      IF c \in waiters[b]
                      THEN [caller[c] EXCEPT !.st = "done", !.val = outcome[b]] ELSE caller[c]]
      /\ waiters' = [waiters EXCEPT ![b] = {}]
      /\ completed' = [completed EXCEPT ![b] = outcome[b]]
      /\ agents' = agents \ {b}
  BY DoneFacts DEF b
<1>4. /\ \A a : Queued("done", a)' <=> Queued("done", a) /\ a # b
      /\ \A c : Asked(c, "wait")' <=> Asked(c, "wait")
  BY <1>1, AfterTake DEF Inv, SafetyInv
<1>5. /\ waiters \in [Ids -> SUBSET Callers] /\ completed \in [Ids -> Outcomes \cup {"none"}]
      /\ caller \in [Callers -> Calls] /\ agents \subseteq Agents /\ outcome[b] \in Outcomes
  BY <1>1 DEF Inv, TypeInv, TypeOK
<1>6. /\ \A a \in Ids \ {b} : waiters'[a] = waiters[a] /\ completed'[a] = completed[a]
      /\ waiters'[b] = {} /\ completed'[b] = outcome[b]
      /\ \A c \in Callers : c \notin waiters[b] => caller'[c] = caller[c]
  BY <1>1, <1>3, <1>5
<1>7. ASSUME NEW c \in Callers, c \in waiters[b]
      PROVE  /\ caller[c].st = "wait" /\ caller[c].op = "wait" /\ caller[c].id = b
             /\ caller'[c].st = "done" /\ caller'[c].op = "wait" /\ caller'[c].id = b
             /\ caller'[c].val = outcome[b]
  <2>1. caller[c].st = "wait" /\ caller[c].op = "wait" /\ caller[c].id = b
    BY <1>1, <1>7, RegisteredWait
  <2>2. caller'[c] = [caller[c] EXCEPT !.st = "done", !.val = outcome[b]]
    BY <1>3, <1>7
  <2>3. caller[c] \in Calls
    BY <1>5
  <2>4. QED
    BY <2>1, <2>2, <2>3 DEF Calls
<1>8. ChannelSound'
  BY <1>1, <1>6, SoundTake DEF Inv, SafetyInv
<1>9. EndOnTheWay'
  BY <1>1, <1>3, <1>4 DEF Inv, SafetyInv, EndOnTheWay, RunnerLife, Spawned
<1>10. NoForgottenWaiter'
  <2>1. ASSUME NEW c \in Callers, Waiting(c, "wait")'
        PROVE  Asked(c, "wait")' \/ (c \in waiters'[caller'[c].id] /\ caller'[c].id \in agents')
    <3>1. c \notin waiters[b] /\ caller'[c] = caller[c] /\ Waiting(c, "wait")
      BY <1>6, <1>7, <2>1 DEF Waiting
    <3>2. Asked(c, "wait") \/ (c \in waiters[caller[c].id] /\ caller[c].id \in agents)
      BY <3>1 DEF Inv, SafetyInv, NoForgottenWaiter
    <3>3. agents \subseteq Ids
      BY <1>5, AgentsAreIds
    <3>4. QED
      BY <1>3, <1>4, <1>6, <3>1, <3>2, <3>3
  <2>2. ASSUME NEW a \in Ids, NEW c \in waiters'[a]
        PROVE  Waiting(c, "wait")' /\ caller'[c].id = a
    <3>1. a # b /\ c \in waiters[a] /\ c \in Callers
      BY <1>5, <1>6, <2>2
    <3>2. Waiting(c, "wait") /\ caller[c].id = a
      BY <3>1 DEF Inv, SafetyInv, NoForgottenWaiter
    <3>3. caller'[c] = caller[c]
      BY <1>6, <1>7, <3>1, <3>2
    <3>4. QED
      BY <3>2, <3>3 DEF Waiting
  <2>3. QED
    BY <2>1, <2>2 DEF NoForgottenWaiter, Waiting
<1>11. OneOutcome'
  <2>1. ASSUME NEW c \in Callers, caller'[c].st = "done", caller'[c].op = "wait",
               caller'[c].val # "nil"
        PROVE  /\ caller'[c].id \in Agents /\ caller'[c].val # "none"
               /\ caller'[c].val = outcome[caller'[c].id]
    <3>1. CASE c \in waiters[b]
      BY <1>1, <1>5, <1>7, <3>1 DEF Outcomes
    <3>2. CASE c \notin waiters[b]
      BY <1>6, <2>1, <3>2 DEF Inv, SafetyInv, OneOutcome
    <3>3. QED
      BY <3>1, <3>2
  <2>2. ASSUME NEW a \in Ids, completed'[a] # "none"
        PROVE  a \in Agents /\ completed'[a] = outcome[a]
    BY <1>1, <1>6, <2>2 DEF Inv, SafetyInv, OneOutcome
  <2>3. QED
    BY <1>1, <2>1, <2>2 DEF OneOutcome
<1>12. QED
  BY <1>8, <1>9, <1>10, <1>11 DEF Safe

(* The request a Wait is taken from is that of a caller blocked in it and  *)
(* registered nowhere.                                                     *)
LEMMA WaitFacts ==
  ASSUME Inv, handleWait, NEW c, c = Head(events).by, NEW b, b = Head(events).id
  PROVE  /\ Take("wait") /\ c \in Callers /\ b \in Ids
         /\ UNCHANGED <<nextID, agents, reported, outcome, runner>>
         /\ caller[c].st = "wait" /\ caller[c].op = "wait" /\ caller[c].id = b
         /\ \A a \in Ids : c \notin waiters[a]
<1>1. /\ Take("wait") /\ c \in Callers /\ b \in Ids
      /\ UNCHANGED <<nextID, agents, reported, outcome, runner>>
  BY RequestType DEF handleWait, agentVars, AllOps, Inv
<1>2. 1 \in DOMAIN events /\ Head(events) = events[1] /\ events[1].kind = "wait"
  BY <1>1, TakeFacts DEF Inv
<1>3. QED
  BY <1>1, <1>2, EventTypes DEF Inv, SafetyInv, ChannelSound, Waiting, AllOps

(* A Wait is registered, or answered for an agent that has ended.          *)
LEMMA SafeWait ==
  ASSUME Inv, handleWait
  PROVE  Safe'
<1> DEFINE c == Head(events).by
           b == Head(events).id
<1>1. /\ Take("wait") /\ c \in Callers /\ b \in Ids
      /\ UNCHANGED <<nextID, agents, reported, outcome, runner>>
  BY WaitFacts
<1>2. /\ caller[c].st = "wait" /\ caller[c].op = "wait" /\ caller[c].id = b
      /\ \A a \in Ids : c \notin waiters[a]
  BY WaitFacts
<1>3. /\ waiters \in [Ids -> SUBSET Callers] /\ completed \in [Ids -> Outcomes \cup {"none"}]
      /\ caller \in [Callers -> Calls]
  BY DEF Inv, TypeInv, TypeOK
<1>4. \A d : d # c => (Asked(d, "wait")' <=> Asked(d, "wait"))
  BY <1>1, AfterTake DEF Inv, SafetyInv
<1>5. EndOnTheWay'
  BY <1>1, SafeEnd
<1>6. CASE /\ b \in agents
           /\ waiters' = [waiters EXCEPT ![b] = @ \cup {c}]
           /\ UNCHANGED <<completed, caller>>
  <2> HIDE DEF b, c
  <2>1. /\ waiters'[b] = waiters[b] \cup {c} /\ \A a \in Ids \ {b} : waiters'[a] = waiters[a]
    BY <1>1, <1>3, <1>6
  <2>2. ChannelSound'
    BY <1>1, <1>6, <2>1, SoundTake DEF Inv, SafetyInv, AllOps, c
  <2>3. ASSUME NEW d \in Callers, Waiting(d, "wait")
        PROVE  Asked(d, "wait")' \/ (d \in waiters'[caller[d].id] /\ caller[d].id \in agents)
    <3>1. CASE d = c
      BY <1>2, <1>6, <2>1, <3>1
    <3>2. CASE d # c
      <4>1. Asked(d, "wait")' \/ (d \in waiters[caller[d].id] /\ caller[d].id \in agents)
        BY <1>4, <2>3, <3>2 DEF Inv, SafetyInv, NoForgottenWaiter
      <4>2. caller[d].id \in Ids
        BY <1>3 DEF Calls
      <4>3. QED
        BY <2>1, <4>1, <4>2
    <3>3. QED
      BY <3>1, <3>2
  <2>4. ASSUME NEW a \in Ids, NEW d \in waiters'[a]
        PROVE  Waiting(d, "wait") /\ caller[d].id = a
    BY <1>2, <2>1, <2>4 DEF Inv, SafetyInv, NoForgottenWaiter, Waiting
  <2>5. NoForgottenWaiter'
    BY <1>1, <1>6, <2>3, <2>4 DEF NoForgottenWaiter, Waiting
  <2>6. OneOutcome'
    BY <1>1, <1>6 DEF Inv, SafetyInv, OneOutcome
  <2>7. QED
    BY <1>5, <2>2, <2>5, <2>6 DEF Safe
<1>7. ASSUME NEW val, b \notin agents, waiters' = waiters,
             caller' = Reply(c, b, val),
             val = "nil" \/ (val = completed[b] /\ val # "none"),
             completed' = completed \/ completed' = [completed EXCEPT ![b] = "none"]
      PROVE  Safe'
  <2> HIDE DEF b, c
  <2>1. /\ caller'[c] = [st |-> "done", op |-> "wait", id |-> b, val |-> val]
        /\ \A d \in Callers \ {c} : caller'[d] = caller[d]
    BY <1>1, <1>2, <1>3, <1>7 DEF Reply
  <2>2. ChannelSound'
    BY <1>1, <1>7, <2>1, SoundTake DEF Inv, SafetyInv, AllOps, c
  <2>3. NoForgottenWaiter'
    <3>1. ASSUME NEW d \in Callers, Waiting(d, "wait")'
          PROVE  Asked(d, "wait")' \/ (d \in waiters'[caller'[d].id] /\ caller'[d].id \in agents')
      <4>1. d # c /\ caller'[d] = caller[d] /\ Waiting(d, "wait")
        BY <2>1, <3>1 DEF Waiting
      <4>2. QED
        BY <1>1, <1>4, <1>7, <4>1 DEF Inv, SafetyInv, NoForgottenWaiter
    <3>2. ASSUME NEW a \in Ids, NEW d \in waiters'[a]
          PROVE  Waiting(d, "wait")' /\ caller'[d].id = a
      <4>1. d \in Callers /\ d # c
        BY <1>2, <1>3, <1>7, <3>2
      <4>2. QED
        BY <1>7, <2>1, <3>2, <4>1 DEF Inv, SafetyInv, NoForgottenWaiter, Waiting
    <3>3. QED
      BY <3>1, <3>2 DEF NoForgottenWaiter, Waiting
  <2>4. \A a \in Ids : completed'[a] # "none" => completed'[a] = completed[a]
    BY <1>1, <1>3, <1>7
  <2>5. val # "nil" => b \in Agents /\ val # "none" /\ val = outcome[b]
    BY <1>1, <1>7 DEF Inv, SafetyInv, OneOutcome
  <2>6. OneOutcome'
    BY <1>1, <2>1, <2>4, <2>5 DEF Inv, SafetyInv, OneOutcome
  <2>7. QED
    BY <1>5, <2>2, <2>3, <2>6 DEF Safe
<1>8. QED
  BY <1>6, <1>7 DEF handleWait

LEMMA SafeAgentStep ==
  ASSUME Inv, NEW a \in Agents, AgentStep(a)
  PROVE  Safe'
<1> USE DEF loopVars, agentVars
<1>0. /\ runner \in [Agents -> RunnerStates]
      /\ outcome \in [Agents -> Outcomes \cup {"none"}] /\ reported \in [Agents -> BOOLEAN]
      /\ confirmReqCh \in [Agents -> Seq(ToolCalls)] /\ agents \subseteq Agents
  BY DEF Inv, TypeInv, TypeOK
<1>1. CASE ParentCancel(a)
  BY <1>1, SafeFrame DEF ParentCancel
<1>2. ASSUME NEW S, ReplyTools(a, S)
      PROVE  Safe'
  <2>1. \A b \in Agents : runner'[b] = "closed" <=> runner[b] = "closed"
    BY <1>0, <1>2 DEF ReplyTools
  <2>2. QED
    BY <1>2, <2>1, SafeFrame DEF ReplyTools
<1>3. CASE ReplyFinal(a)
  <2>1. \A b \in Agents : runner'[b] = "closed" <=> runner[b] = "closed"
    BY <1>0, <1>3 DEF ReplyFinal
  <2>2. QED
    BY <1>3, <2>1, SafeFrame DEF ReplyFinal
<1>4. ASSUME NEW o, runner[a] # "closed", runner[a] # "none", RunnerEnd(a, o)
      PROVE  Safe'
  <2>1. ~ reported[a] /\ outcome[a] = "none" /\ Spawned(a)
    BY <1>0, <1>4 DEF Inv, TypeInv, RunnerLife
  <2>2. /\ \A b \in Agents \ {a} : runner'[b] = runner[b] /\ outcome'[b] = outcome[b]
        /\ UNCHANGED <<events, nextID, agents, completed, waiters, reported, caller>>
    BY <1>0, <1>4 DEF RunnerEnd
  <2>3. ChannelSound'
    <3>1. ASSUME NEW i \in DOMAIN events, events[i].kind = "done"
          PROVE  reported[events[i].id] /\ events[i].arg = outcome'[events[i].id]
      <4>1. reported[events[i].id] /\ events[i].arg = outcome[events[i].id]
        BY <3>1 DEF Inv, SafetyInv, ChannelSound
      <4>2. events[i].id \in Agents \ {a}
        BY <2>1, <3>1, <4>1, EventTypes DEF Inv
      <4>3. QED
        BY <2>2, <4>1, <4>2
    <3>2. QED
      BY <2>2, <3>1 DEF Inv, SafetyInv, ChannelSound, Waiting
  <2>4. EndOnTheWay'
    BY <2>1, <2>2 DEF Inv, SafetyInv, EndOnTheWay, Spawned, Queued
  <2>5. NoForgottenWaiter'
    BY <2>2 DEF Inv, SafetyInv, NoForgottenWaiter, Waiting, Asked
  <2>6. OneOutcome'
    BY <2>1, <2>2 DEF Inv, SafetyInv, OneOutcome
  <2>7. QED
    BY <2>3, <2>4, <2>5, <2>6 DEF Safe
<1>5. CASE QueryError(a) \/ RunnerResult(a) \/ ToolsRefused(a)
  BY <1>4, <1>5 DEF QueryError, RunnerResult, ToolsRefused
<1>6. CASE ToolsDone(a)
  <2>1. \A b \in Agents : runner'[b] = "closed" <=> runner[b] = "closed"
    BY <1>0, <1>6 DEF ToolsDone
  <2>2. QED
    BY <1>6, <2>1, SafeFrame DEF ToolsDone
<1>7. CASE Forward(a)
  <2> DEFINE e == Event("confirm", a, Head(confirmReqCh[a]), "none")
  <2>1. e \in Kinds /\ Send(e) /\ e.kind = "confirm" /\ e.kind \notin AllOps
    <3>1. confirmReqCh[a] \in Seq(ToolCalls) /\ confirmReqCh[a] # <<>>
      BY <1>0, <1>7 DEF Forward
    <3>2. QED
      BY <1>7, <3>1 DEF Forward, Event, Confirms, Kinds, AllOps
  <2>2. UNCHANGED <<nextID, agents, completed, waiters, reported, outcome, runner, caller>>
    BY <1>7 DEF Forward
  <2> HIDE DEF e
  <2>3. ChannelSound'
    BY <2>1, <2>2, SoundSend DEF Inv, SafetyInv
  <2>4. /\ \A b : Queued("done", b)' <=> Queued("done", b)
        /\ \A c : Asked(c, "wait")' <=> Asked(c, "wait")
    BY <2>1, AfterSend DEF Inv
  <2>5. EndOnTheWay'
    BY <2>2, <2>4 DEF Inv, SafetyInv, EndOnTheWay, Spawned
  <2>6. NoForgottenWaiter'
    BY <2>2, <2>4 DEF Inv, SafetyInv, NoForgottenWaiter, Waiting
  <2>7. OneOutcome'
    BY <2>2 DEF Inv, SafetyInv, OneOutcome
  <2>8. QED
    BY <2>3, <2>5, <2>6, <2>7 DEF Safe
<1>8. CASE Report(a)
  <2> DEFINE e == Event("done", a, NoTool, outcome[a])
  <2>1. runner[a] = "closed" /\ ~ reported[a] /\ outcome[a] \in Outcomes
    BY <1>0, <1>8 DEF Report, Inv, TypeInv, RunnerLife
  <2>2. /\ e \in Kinds /\ Send(e) /\ e.kind = "done" /\ e.id = a /\ e.arg = outcome[a]
        /\ e.kind \notin AllOps
    BY <1>8, <2>1 DEF Report, Event, Dones, Kinds, AllOps
  <2>3. /\ UNCHANGED <<nextID, agents, completed, waiters, outcome, runner, caller>>
        /\ reported'[a] /\ \A b \in Agents \ {a} : reported'[b] = reported[b]
    BY <1>0, <1>8 DEF Report
  <2> HIDE DEF e
  <2>4. ChannelSound'
    BY <2>1, <2>2, <2>3, SoundSend DEF Inv, SafetyInv
  <2>5. /\ \A b : Queued("done", b)' <=> Queued("done", b) \/ b = a
        /\ \A c : Asked(c, "wait")' <=> Asked(c, "wait")
    BY <2>2, AfterSend DEF Inv
  <2>6. EndOnTheWay'
    BY <2>1, <2>3, <2>5 DEF Inv, SafetyInv, EndOnTheWay, Spawned
  <2>7. NoForgottenWaiter'
    BY <2>3, <2>5 DEF Inv, SafetyInv, NoForgottenWaiter, Waiting
  <2>8. OneOutcome'
    BY <2>3 DEF Inv, SafetyInv, OneOutcome
  <2>9. QED
    BY <2>4, <2>6, <2>7, <2>8 DEF Safe
<1>9. ASSUME NEW t, ToolStep(a, t)
      PROVE  Safe'
  BY <1>9, SafeFrame DEF ToolStep, ToolAsk, ToolGiveUp
<1>10. CASE QueryFailed(a)
  <2>1. \A b \in Agents : runner'[b] = "closed" <=> runner[b] = "closed"
    BY <1>0, <1>10 DEF QueryFailed
  <2>2. QED
    BY <1>10, <2>1, SafeFrame DEF QueryFailed
<1>11. ASSUME NEW next \in {"llm", "stuck"}, Transcript(a, next)
       PROVE  Safe'
  <2>1. \A b \in Agents : runner'[b] = "closed" <=> runner[b] = "closed"
    BY <1>0, <1>11 DEF Transcript
  <2>2. QED
    BY <1>11, <2>1, SafeFrame DEF Transcript
<1>12. QED
  BY <1>1, <1>2, <1>3, <1>5, <1>6, <1>7, <1>8, <1>9, <1>10, <1>11 DEF AgentStep, RunnerStep

LEMMA SafeCall ==
  ASSUME Inv, NEW c \in Callers, NEW op \in Ops, NEW id \in Ids, Call(c, op, id)
  PROVE  Safe'
<1> DEFINE e == Event(op, id, c, "none")
<1>1. /\ e \in Kinds /\ Send(e) /\ e.kind = op /\ e.id = id /\ e.by = c
      /\ op \in AllOps /\ op # "done"
  BY CoordinatorAssumption DEF Call, Event, Requests, Kinds, AllOps
<1>2. /\ caller[c].st # "wait"
      /\ UNCHANGED <<nextID, agents, completed, waiters, reported, outcome, runner>>
      /\ caller' = [caller EXCEPT ![c] = [st |-> "wait", op |-> op, id |-> id, val |-> "none"]]
  BY DEF Call, loopVars, agentVars
<1>3. /\ caller'[c] = [st |-> "wait", op |-> op, id |-> id, val |-> "none"]
      /\ \A d \in Callers \ {c} : caller'[d] = caller[d]
  BY <1>2 DEF Inv, TypeInv, TypeOK
<1>4. \A a \in Ids : c \notin waiters[a]
  BY <1>2 DEF Inv, SafetyInv, NoForgottenWaiter, Waiting
<1> HIDE DEF e
<1>5. ChannelSound'
  BY <1>1, <1>2, <1>3, <1>4, SoundSend DEF Inv, SafetyInv
<1>6. /\ \A a : Queued("done", a)' <=> Queued("done", a)
      /\ \A d : Asked(d, "wait")' <=> Asked(d, "wait") \/ (op = "wait" /\ d = c)
  BY <1>1, AfterSend DEF Inv
<1>7. EndOnTheWay'
  BY <1>2, <1>6 DEF Inv, SafetyInv, EndOnTheWay, Spawned
<1>8. NoForgottenWaiter'
  BY <1>2, <1>3, <1>4, <1>6 DEF Inv, SafetyInv, NoForgottenWaiter, Waiting
<1>9. OneOutcome'
  BY <1>2, <1>3 DEF Inv, SafetyInv, OneOutcome
<1>10. QED
  BY <1>5, <1>7, <1>8, <1>9 DEF Safe

LEMMA SafeSpawn ==
  ASSUME Inv, NEW op \in {"spawn", "agent"}, handleSpawn(op)
  PROVE  Safe'
<1>1. /\ Take(op) /\ nextID \in Agents /\ nextID' = nextID + 1
      /\ agents' = agents \cup {nextID} /\ runner' = [runner EXCEPT ![nextID] = FirstState(op)]
      /\ UNCHANGED <<completed, waiters, reported, outcome>>
      /\ caller' = Reply(Head(events).by, nextID, "ok")
  BY CoordinatorAssumption DEF handleSpawn, Agents, Inv, TypeInv, TypeOK
<1>2. ChannelSound' /\ NoForgottenWaiter' /\ OneOutcome'
  BY <1>1, SafeReply DEF Reply, AllOps
<1>3. \A a : Queued("done", a)' <=> Queued("done", a)
  BY <1>1, AfterTake DEF Inv, SafetyInv
<1>4. /\ runner'[nextID] # "closed" /\ \A a \in Agents \ {nextID} : runner'[a] = runner[a]
      /\ \A a \in Agents : a < nextID' <=> a < nextID \/ a = nextID
  BY <1>1 DEF Inv, TypeInv, TypeOK, Agents, FirstState
<1>5. EndOnTheWay'
  BY <1>1, <1>3, <1>4 DEF Inv, SafetyInv, EndOnTheWay, Spawned
<1>6. QED
  BY <1>2, <1>5 DEF Safe

LEMMA SafetyNext == Inv /\ [Next]_vars => Inv'
<1> SUFFICES ASSUME Inv, [Next]_vars
             PROVE  Inv'
  OBVIOUS
<1>1. TypeInv'
  BY TypeNext DEF Inv
<1>2. SUFFICES Safe'
  BY <1>1 DEF Inv, SafetyInv, Safe, TypeInv
<1>3. ASSUME NEW kind \in AllOps \ {"wait"}, Take(kind), NEW id, NEW val,
             caller' = Reply(Head(events).by, id, val),
             UNCHANGED <<nextID, agents, completed, waiters, reported, outcome, runner>>
      PROVE  Safe'
  <2>1. ChannelSound' /\ NoForgottenWaiter' /\ OneOutcome'
    BY <1>3, SafeReply DEF Reply
  <2>2. EndOnTheWay'
    BY <1>3, SafeEnd DEF AllOps
  <2>3. QED
    BY <2>1, <2>2 DEF Safe
<1>4. CASE handleKill \/ handleGet \/ handleStop \/ handleHasPendingConfirm
           \/ handleConfirm("granted") \/ handleConfirm("refused")
  <2> USE DEF loopVars, agentVars, AllOps
  <2>1. CASE handleKill
    BY <1>3, <2>1 DEF handleKill
  <2>2. CASE handleGet
    BY <1>3, <2>2 DEF handleGet
  <2>3. CASE handleStop
    BY <1>3, <2>3 DEF handleStop
  <2>4. CASE handleHasPendingConfirm
    BY <1>3, <2>4 DEF handleHasPendingConfirm
  <2>5. CASE handleConfirm("granted") \/ handleConfirm("refused")
    BY <1>3, <2>5 DEF handleConfirm
  <2>6. QED
    BY <1>4, <2>1, <2>2, <2>3, <2>4, <2>5
<1>5. CASE handleAgentConfirm
  <2>1. /\ Take("confirm")
        /\ UNCHANGED <<nextID, agents, completed, waiters, reported, outcome, runner, caller>>
    BY <1>5 DEF handleAgentConfirm, agentVars
  <2>2. ChannelSound'
    BY <2>1, SoundTake DEF Inv, SafetyInv
  <2>3. EndOnTheWay'
    BY <2>1, SafeEnd
  <2>4. \A c : Asked(c, "wait")' <=> Asked(c, "wait")
    BY <2>1, AfterTake DEF Inv, SafetyInv
  <2>5. NoForgottenWaiter' /\ OneOutcome'
    BY <2>1, <2>4 DEF Inv, SafetyInv, NoForgottenWaiter, Waiting, OneOutcome
  <2>6. QED
    BY <2>2, <2>3, <2>5 DEF Safe
<1>6. CASE UNCHANGED vars
  BY <1>6, SafeFrame DEF vars, loopVars, agentVars
<1>7. QED
  BY <1>4, <1>5, <1>6, SafeCall, SafeSpawn, SafeWait, SafeDone, SafeAgentStep
  DEF Next, CallerStep, LoopStep

-----------------------------------------------------------------------------
(* The invariant the next three theorems are read off: the channel never   *)
(* holds anything stale, and the registry, the waiters and the results     *)
(* delivered agree with the runs.                                          *)
THEOREM SafetyCorrect == Spec => []SafetyInv
<1>1. Init => Inv
  BY TypeInit, SafetyInit DEF Inv
<1>2. Inv => SafetyInv
  BY DEF Inv
<1>3. QED
  BY <1>1, <1>2, SafetyNext, PTL DEF Spec

(* Nobody blocked in Wait is ever forgotten: its request is in the channel *)
(* or it is registered with an agent whose end is to be handled.           *)
THEOREM WaitersKept == Spec => []NoForgottenWaiter
<1>1. SafetyInv => NoForgottenWaiter
  BY DEF SafetyInv
<1>2. QED
  BY <1>1, SafetyCorrect, PTL

(* An agent is in the registry exactly from its spawn until the report of  *)
(* its end is handled, whatever kills and interrupts happen in between.    *)
THEOREM RegistryExact == Spec => []EndOnTheWay
<1>1. SafetyInv => EndOnTheWay
  BY DEF SafetyInv
<1>2. QED
  BY <1>1, SafetyCorrect, PTL

(* All that is told of an agent's result is the one outcome of its run.    *)
THEOREM ResultsAgree == Spec => []OneOutcome
<1>1. SafetyInv => OneOutcome
  BY DEF SafetyInv
<1>2. QED
  BY <1>1, SafetyCorrect, PTL

-----------------------------------------------------------------------------
(* Approvals, while an agent asks for one at a time.                       *)

(* The queue of approvals without an id, when each id is in it once.       *)
LEMMA WithoutFacts ==
  ASSUME NEW S, NEW s \in Seq(S), NEW e,
         \A i, j \in DOMAIN s : s[i] = s[j] => i = j
  PROVE  /\ \A i, j \in DOMAIN Without(s, e) : Without(s, e)[i] = Without(s, e)[j] => i = j
         /\ \A x : (\E i \in DOMAIN Without(s, e) : Without(s, e)[i] = x)
                     <=> (\E i \in DOMAIN s : s[i] = x) /\ x # e
<1>1. CASE ~ \E i \in DOMAIN s : s[i] = e
  BY <1>1 DEF Without, FirstAt
<1>2. ASSUME NEW k \in DOMAIN s, s[k] = e
      PROVE  /\ \A i, j \in DOMAIN Without(s, e) : Without(s, e)[i] = Without(s, e)[j] => i = j
             /\ \A x : (\E i \in DOMAIN Without(s, e) : Without(s, e)[i] = x)
                         <=> (\E i \in DOMAIN s : s[i] = x) /\ x # e
  <2> DEFINE n == CHOOSE i \in DOMAIN s : FirstAt(s, i, e)
             r == Without(s, e)
  <2>1. k \in 1 .. Len(s) /\ Len(s) \in Nat
    BY <1>2
  <2>2. FirstAt(s, k, e)
    BY <1>2, <2>1 DEF FirstAt
  <2>3. n \in DOMAIN s /\ FirstAt(s, n, e)
    BY <1>2, <2>2
  <2>4. n = k
    BY <1>2, <2>3 DEF FirstAt
  <2>5. r = RemoveAt(s, k)
    BY <1>2, <2>2, <2>4 DEF Without
  <2> HIDE DEF r, n
  <2>6. PICK p, q : p = SubSeq(s, 1, k - 1) /\ q = SubSeq(s, k + 1, Len(s))
    OBVIOUS
  <2>7. /\ r = p \o q
        /\ p \in Seq(S) /\ Len(p) = k - 1 /\ q \in Seq(S) /\ Len(q) = Len(s) - k
        /\ \A i \in 1 .. (k - 1) : p[i] = s[i]
        /\ \A i \in 1 .. (Len(s) - k) : q[i] = s[k + i]
    <3>1. p \in Seq(S) /\ Len(p) = k - 1 /\ \A i \in 1 .. (k - 1) : p[i] = s[i]
      BY <2>1, <2>6
    <3>2. /\ q \in Seq(S) /\ Len(q) = Len(s) - k
          /\ \A i \in 1 .. (Len(s) - k) : q[i] = s[k + i]
      BY <2>1, <2>6
    <3>3. QED
      BY <2>5, <2>6, <3>1, <3>2 DEF RemoveAt
  <2>8. /\ r \in Seq(S) /\ Len(r) = Len(s) - 1
        /\ \A i \in 1 .. (k - 1) : r[i] = s[i]
        /\ \A i \in k .. (Len(s) - 1) : r[i] = s[i + 1]
    <3>1. r \in Seq(S) /\ Len(r) = Len(s) - 1 /\ \A i \in 1 .. (k - 1) : r[i] = p[i]
      BY <2>1, <2>7
    <3>2. ASSUME NEW i \in k .. (Len(s) - 1)
          PROVE  r[i] = s[i + 1]
      <4>1. i - (k - 1) \in 1 .. (Len(s) - k) /\ k + (i - (k - 1)) = i + 1
        BY <2>1
      <4>2. r[i] = q[i - (k - 1)]
        BY <2>1, <2>7
      <4>3. QED
        BY <2>7, <4>1, <4>2
    <3>3. QED
      BY <2>7, <3>1, <3>2
  <2>9. \A i \in DOMAIN r : r[i] = IF i < k THEN s[i] ELSE s[i + 1]
    BY <2>1, <2>8
  <2>10. DOMAIN r = 1 .. (Len(s) - 1) /\ DOMAIN s = 1 .. Len(s)
    BY <2>8
  <2>11. \A i, j \in DOMAIN r : r[i] = r[j] => i = j
    BY <2>1, <2>9, <2>10
  <2>12. ASSUME NEW x, NEW i \in DOMAIN r, r[i] = x
         PROVE  (\E j \in DOMAIN s : s[j] = x) /\ x # e
    BY <1>2, <2>1, <2>9, <2>10, <2>12
  <2>13. ASSUME NEW x, NEW i \in DOMAIN s, s[i] = x, x # e
         PROVE  \E j \in DOMAIN r : r[j] = x
    <3>1. CASE i < k
      BY <2>1, <2>9, <2>10, <2>13, <3>1
    <3>2. CASE i > k
      <4>1. i - 1 \in DOMAIN r /\ r[i - 1] = s[i]
        BY <2>1, <2>9, <2>10, <3>2
      <4>2. QED
        BY <2>13, <4>1
    <3>3. QED
      BY <1>2, <2>1, <2>10, <2>13, <3>1, <3>2
  <2>14. QED
    BY <2>11, <2>12, <2>13 DEF r
<1>3. QED
  BY <1>1, <1>2

(* Requests in the event channel before and after a receive and a send.    *)
LEMMA ConfirmTake ==
  ASSUME TypeInv, OnePlace, NEW kind, Take(kind)
  PROVE  /\ \A a : OnTheWay(a)' <=> OnTheWay(a) /\ ~ (kind = "confirm" /\ Head(events).id = a)
         /\ kind = "confirm" => OnTheWay(Head(events).id)
         /\ \A i, j \in DOMAIN events' :
              events'[i].kind = "confirm" /\ events'[j].kind = "confirm"
                /\ events'[i].id = events'[j].id => i = j
<1> USE TakeFacts
<1>1. ASSUME NEW a, OnTheWay(a)'
      PROVE  OnTheWay(a) /\ ~ (kind = "confirm" /\ Head(events).id = a)
  BY <1>1 DEF OnTheWay, Queued, OnePlace
<1>2. ASSUME NEW a, OnTheWay(a), ~ (kind = "confirm" /\ Head(events).id = a)
      PROVE  OnTheWay(a)'
  BY <1>2 DEF OnTheWay, Queued
<1>3. kind = "confirm" => OnTheWay(Head(events).id)
  BY DEF OnTheWay, Queued
<1>4. ASSUME NEW i \in DOMAIN events', NEW j \in DOMAIN events', i # j,
             events'[i].kind = "confirm", events'[j].kind = "confirm",
             events'[i].id = events'[j].id
      PROVE  FALSE
  <2>1. /\ i + 1 \in DOMAIN events /\ j + 1 \in DOMAIN events /\ i + 1 # j + 1
        /\ events'[i] = events[i + 1] /\ events'[j] = events[j + 1]
    BY <1>4
  <2>2. QED
    BY <1>4, <2>1 DEF OnePlace
<1>5. QED
  BY <1>1, <1>2, <1>3, <1>4

LEMMA ConfirmSend ==
  ASSUME TypeInv, OnePlace, NEW e \in Kinds, Send(e), e.kind = "confirm" => ~ OnTheWay(e.id)
  PROVE  /\ \A a : OnTheWay(a)' <=> OnTheWay(a) \/ (e.kind = "confirm" /\ e.id = a)
         /\ \A i, j \in DOMAIN events' :
              events'[i].kind = "confirm" /\ events'[j].kind = "confirm"
                /\ events'[i].id = events'[j].id => i = j
<1>1. PICK n : /\ n \notin DOMAIN events /\ DOMAIN events' = DOMAIN events \cup {n}
               /\ events'[n] = e
               /\ \A i \in DOMAIN events : events'[i] = events[i]
  BY SendFacts
<1>2. QED
  BY <1>1 DEF OnTheWay, Queued, OnePlace

(* A step that moves no request leaves it in its one place.                *)
LEMMA PlacesKept ==
  ASSUME TypeInv, ApprovalInv, UNCHANGED <<confirmReqCh, pendingConfirms, pendingConfirmOrder>>,
         \/ UNCHANGED events
         \/ \E kind : Take(kind) /\ kind # "confirm"
         \/ \E e \in Kinds : Send(e) /\ e.kind # "confirm"
  PROVE  OnePlace' /\ QueueExact' /\ \A a \in Agents : Held(a)' <=> Held(a)
<1>1. /\ \A a : OnTheWay(a)' <=> OnTheWay(a)
      /\ \A i, j \in DOMAIN events' :
           events'[i].kind = "confirm" /\ events'[j].kind = "confirm"
             /\ events'[i].id = events'[j].id => i = j
  <2>1. CASE UNCHANGED events
    BY <2>1 DEF OnTheWay, Queued, ApprovalInv, OnePlace
  <2>2. CASE \E kind : Take(kind) /\ kind # "confirm"
    BY <2>2, ConfirmTake DEF ApprovalInv
  <2>3. CASE \E e \in Kinds : Send(e) /\ e.kind # "confirm"
    BY <2>3, ConfirmSend DEF ApprovalInv
  <2>4. QED
    BY <2>1, <2>2, <2>3
<1>2. \A a : (AtRunner(a)' <=> AtRunner(a)) /\ (InOrder(a)' <=> InOrder(a))
  BY DEF AtRunner, InOrder
<1>3. OnePlace'
  BY <1>1, <1>2 DEF ApprovalInv, OnePlace
<1>4. QueueExact'
  BY <1>2 DEF ApprovalInv, QueueExact
<1>5. QED
  BY <1>1, <1>2, <1>3, <1>4 DEF Held

(* A step that moves no request and no tool call, and does not end a turn. *)
LEMMA AskedKept ==
  ASSUME TypeInv, ApprovalInv, OnePlace', QueueExact',
         \A a \in Agents : Held(a)' <=> Held(a),
         \A a \in Agents : cancelled[a] => cancelled'[a],
         \A a \in Agents : runner'[a] = runner[a] \/ runner[a] # "tools",
         tool' = tool
  PROVE  ApprovalInv'
<1>1. ToolsIdle'
  BY DEF ApprovalInv, ToolsIdle
<1>2. HeldWhileAsked'
  BY DEF ApprovalInv, HeldWhileAsked
<1>3. QED
  BY <1>1, <1>2 DEF ApprovalInv

(* A step that gives the tool calls of one agent other states; no request  *)
(* of the agent is anywhere, or none of its tool calls waits any more.     *)
LEMMA ToolsChanged ==
  ASSUME TypeInv, ApprovalInv, OnePlace', QueueExact', NEW a \in Agents,
         \A b \in Agents : Held(b)' <=> Held(b),
         UNCHANGED cancelled,
         \A b \in Agents \ {a} : runner'[b] = runner[b] /\ tool'[b] = tool[b],
         runner'[a] # "tools" => \A t \in ToolCalls : tool'[a][t] = "idle",
         \A t \in ToolCalls : tool'[a][t] # "wait",
         Held(a) => cancelled[a] /\ \A t \in ToolCalls : tool'[a][t] # "ask"
  PROVE  ApprovalInv'
<1>1. ToolsIdle'
  BY DEF ApprovalInv, ToolsIdle
<1>2. HeldWhileAsked'
  BY DEF ApprovalInv, HeldWhileAsked
<1>3. QED
  BY <1>1, <1>2 DEF ApprovalInv

OneAtATime == \A t, u \in ToolCalls : t = u

(* A tool call sends its request: none of the agent was anywhere.          *)
LEMMA ApprovalAsk ==
  ASSUME OneAtATime, Inv, ApprovalInv, NEW a \in Agents, NEW t \in ToolCalls, ToolAsk(a, t)
  PROVE  ApprovalInv'
<1>1. /\ tool[a][t] = "ask" /\ tool' = [tool EXCEPT ![a][t] = "wait"]
      /\ confirmReqCh' = [confirmReqCh EXCEPT ![a] = Append(@, t)]
      /\ UNCHANGED <<events, pendingConfirms, pendingConfirmOrder, cancelled, runner>>
  BY DEF ToolAsk, loopVars
<1>2. /\ tool \in [Agents -> [ToolCalls -> ToolStates]]
      /\ confirmReqCh \in [Agents -> Seq(ToolCalls)]
  BY DEF Inv, TypeInv, TypeOK
<1>3. ~ Held(a) /\ runner[a] = "tools"
  BY <1>1 DEF ApprovalInv, HeldWhileAsked, ToolsIdle
<1>4. /\ confirmReqCh'[a] # <<>> /\ Len(confirmReqCh'[a]) = 1
      /\ \A b \in Agents \ {a} : confirmReqCh'[b] = confirmReqCh[b]
  <2>1. confirmReqCh[a] = <<>>
    BY <1>3 DEF Held, AtRunner
  <2>2. confirmReqCh'[a] = Append(<<>>, t)
    BY <1>1, <1>2, <2>1
  <2>3. QED
    BY <1>1, <1>2, <2>2
<1>5. /\ \A u \in ToolCalls : tool'[a][u] = "wait"
      /\ \A b \in Agents \ {a} : tool'[b] = tool[b]
  BY <1>1, <1>2 DEF OneAtATime
<1>6. /\ \A b : (OnTheWay(b)' <=> OnTheWay(b)) /\ (InOrder(b)' <=> InOrder(b))
      /\ AtRunner(a)' /\ \A b \in Agents \ {a} : AtRunner(b)' <=> AtRunner(b)
  BY <1>1, <1>4 DEF OnTheWay, Queued, InOrder, AtRunner
<1>7. ToolsIdle'
  BY <1>1, <1>3, <1>5 DEF ApprovalInv, ToolsIdle
<1>8. OnePlace'
  <2>1. Len(confirmReqCh'[a]) <= 1
    BY <1>4
  <2>2. QED
    BY <1>1, <1>3, <1>4, <1>6, <2>1 DEF ApprovalInv, OnePlace, Held
<1>9. QueueExact'
  BY <1>1, <1>6 DEF ApprovalInv, QueueExact
<1>10. HeldWhileAsked'
  BY <1>1, <1>5, <1>6 DEF ApprovalInv, HeldWhileAsked, Held
<1>11. QED
  BY <1>7, <1>8, <1>9, <1>10 DEF ApprovalInv

(* The forwarder moves it on, and the coordinator queues it.               *)
LEMMA ApprovalForward ==
  ASSUME Inv, ApprovalInv, NEW a \in Agents, Forward(a)
  PROVE  ApprovalInv'
<1>1. /\ AtRunner(a) /\ confirmReqCh' = [confirmReqCh EXCEPT ![a] = Tail(@)]
      /\ Send(Event("confirm", a, Head(confirmReqCh[a]), "none"))
      /\ UNCHANGED <<pendingConfirms, pendingConfirmOrder, cancelled, runner, tool>>
  BY DEF Forward, loopVars, AtRunner
<1>2. confirmReqCh \in [Agents -> Seq(ToolCalls)]
  BY DEF Inv, TypeInv, TypeOK
<1>3. /\ confirmReqCh'[a] = <<>> /\ \A b \in Agents \ {a} : confirmReqCh'[b] = confirmReqCh[b]
  BY <1>1, <1>2 DEF ApprovalInv, OnePlace, AtRunner
<1>4. PICK e \in Kinds : Send(e) /\ e.kind = "confirm" /\ e.id = a
  BY <1>1, <1>2 DEF Event, Confirms, Kinds, AtRunner
<1>5. /\ \A b : OnTheWay(b)' <=> OnTheWay(b) \/ b = a
      /\ \A i, j \in DOMAIN events' :
           events'[i].kind = "confirm" /\ events'[j].kind = "confirm"
             /\ events'[i].id = events'[j].id => i = j
  BY <1>1, <1>4, ConfirmSend DEF Inv, ApprovalInv, OnePlace
<1>6. /\ \A b : InOrder(b)' <=> InOrder(b)
      /\ ~ AtRunner(a)' /\ \A b \in Agents \ {a} : AtRunner(b)' <=> AtRunner(b)
  BY <1>1, <1>3 DEF InOrder, AtRunner
<1>7. OnePlace'
  <2>1. Len(confirmReqCh'[a]) <= 1
    BY <1>3
  <2>2. QED
    BY <1>1, <1>3, <1>5, <1>6, <2>1 DEF ApprovalInv, OnePlace
<1>8. QueueExact'
  BY <1>1, <1>6 DEF ApprovalInv, QueueExact
<1>9. \A b \in Agents : Held(b)' <=> Held(b)
  BY <1>1, <1>5, <1>6 DEF Held
<1>10. QED
  BY <1>1, <1>7, <1>8, <1>9, AskedKept DEF Inv

LEMMA ApprovalQueued ==
  ASSUME Inv, ApprovalInv, handleAgentConfirm
  PROVE  ApprovalInv'
<1> PICK b, t : b = Head(events).id /\ t = Head(events).by
  OBVIOUS
<1>1. /\ Take("confirm") /\ b \in Agents /\ b \in Ids /\ t \in ToolCalls
      /\ pendingConfirms' = [pendingConfirms EXCEPT ![b] = t]
      /\ pendingConfirmOrder' = Append(pendingConfirmOrder, b)
      /\ UNCHANGED <<confirmReqCh, cancelled, runner, tool>>
  BY ConfirmType, AgentsAreIds DEF handleAgentConfirm, agentVars, Inv
<1>2. /\ OnTheWay(b) /\ \A a : OnTheWay(a)' <=> OnTheWay(a) /\ a # b
      /\ \A i, j \in DOMAIN events' :
           events'[i].kind = "confirm" /\ events'[j].kind = "confirm"
             /\ events'[i].id = events'[j].id => i = j
  BY <1>1, ConfirmTake DEF Inv, ApprovalInv
<1>3. ~ InOrder(b) /\ ~ AtRunner(b)
  BY <1>1, <1>2 DEF ApprovalInv, OnePlace
<1>4. PICK n : /\ n \notin DOMAIN pendingConfirmOrder
               /\ DOMAIN pendingConfirmOrder' = DOMAIN pendingConfirmOrder \cup {n}
               /\ pendingConfirmOrder'[n] = b
               /\ \A i \in DOMAIN pendingConfirmOrder :
                    pendingConfirmOrder'[i] = pendingConfirmOrder[i]
  <2>1. pendingConfirmOrder \in Seq(Agents)
    BY DEF Inv, TypeInv, TypeOK
  <2>2. /\ Len(pendingConfirmOrder) + 1 \notin DOMAIN pendingConfirmOrder
        /\ DOMAIN pendingConfirmOrder' = DOMAIN pendingConfirmOrder \cup {Len(pendingConfirmOrder) + 1}
        /\ pendingConfirmOrder'[Len(pendingConfirmOrder) + 1] = b
        /\ \A i \in DOMAIN pendingConfirmOrder :
             pendingConfirmOrder'[i] = pendingConfirmOrder[i]
    BY <1>1, <2>1
  <2>3. QED
    BY <2>2
<1>5. /\ \A a : InOrder(a)' <=> InOrder(a) \/ a = b
      /\ \A a : AtRunner(a)' <=> AtRunner(a)
  BY <1>1, <1>4 DEF InOrder, AtRunner
<1>6. OnePlace'
  BY <1>1, <1>2, <1>3, <1>5 DEF ApprovalInv, OnePlace
<1>7. QueueExact'
  <2>1. \A i, j \in DOMAIN pendingConfirmOrder' :
          pendingConfirmOrder'[i] = pendingConfirmOrder'[j] => i = j
    BY <1>3, <1>4 DEF ApprovalInv, QueueExact, InOrder
  <2>2. pendingConfirms'[b] # NoTool /\ \A a \in Ids \ {b} : pendingConfirms'[a] = pendingConfirms[a]
    BY <1>1, CoordinatorAssumption DEF Inv, TypeInv, TypeOK
  <2>3. \A a \in Ids : pendingConfirms'[a] # NoTool <=> InOrder(a)'
    BY <1>5, <2>2 DEF ApprovalInv, QueueExact
  <2>4. QED
    BY <2>1, <2>3 DEF QueueExact
<1>8. \A a \in Agents : Held(a)' <=> Held(a)
  BY <1>2, <1>3, <1>5 DEF Held
<1>9. QED
  BY <1>1, <1>6, <1>7, <1>8, AskedKept DEF Inv

(* What takes an id out of the queue of approvals forgets its response     *)
(* channel too.                                                            *)
LEMMA LeaveQueue ==
  ASSUME Inv, ApprovalInv, NEW kind, Take(kind), kind # "confirm", NEW b \in Ids,
         pendingConfirms' = [pendingConfirms EXCEPT ![b] = NoTool],
         removePendingConfirmOrder(b), UNCHANGED confirmReqCh
  PROVE  /\ OnePlace' /\ QueueExact'
         /\ \A a \in Agents \ {b} : Held(a)' <=> Held(a)
         /\ b \in Agents => (Held(b)' <=> AtRunner(b) \/ OnTheWay(b))
         /\ pendingConfirms[b] # NoTool <=> InOrder(b)
<1>1. /\ \A a : OnTheWay(a)' <=> OnTheWay(a)
      /\ \A i, j \in DOMAIN events' :
           events'[i].kind = "confirm" /\ events'[j].kind = "confirm"
             /\ events'[i].id = events'[j].id => i = j
  BY ConfirmTake DEF Inv, ApprovalInv
<1>2. pendingConfirmOrder \in Seq(Agents) /\ pendingConfirms \in [Ids -> ToolCalls \cup {NoTool}]
  BY DEF Inv, TypeInv, TypeOK
<1>3. /\ \A i, j \in DOMAIN pendingConfirmOrder' :
           pendingConfirmOrder'[i] = pendingConfirmOrder'[j] => i = j
      /\ \A a : InOrder(a)' <=> InOrder(a) /\ a # b
  <2>1. \A i, j \in DOMAIN pendingConfirmOrder :
          pendingConfirmOrder[i] = pendingConfirmOrder[j] => i = j
    BY DEF ApprovalInv, QueueExact
  <2>2. pendingConfirmOrder' = Without(pendingConfirmOrder, b)
    BY DEF removePendingConfirmOrder
  <2> DEFINE r == Without(pendingConfirmOrder, b)
  <2>3. /\ \A i, j \in DOMAIN r : r[i] = r[j] => i = j
        /\ \A x : (\E i \in DOMAIN r : r[i] = x)
                    <=> (\E i \in DOMAIN pendingConfirmOrder : pendingConfirmOrder[i] = x) /\ x # b
    BY <1>2, <2>1, WithoutFacts
  <2> HIDE DEF r
  <2>4. pendingConfirmOrder' = r
    BY <2>2 DEF r
  <2>5. QED
    BY <2>3, <2>4 DEF InOrder
<1>4. \A a : AtRunner(a)' <=> AtRunner(a)
  BY DEF AtRunner
<1>5. OnePlace'
  BY <1>1, <1>3, <1>4 DEF ApprovalInv, OnePlace
<1>6. QueueExact'
  BY <1>2, <1>3 DEF ApprovalInv, QueueExact
<1>7. QED
  BY <1>1, <1>3, <1>4, <1>5, <1>6 DEF Held, ApprovalInv, QueueExact

LEMMA ApprovalAnswer ==
  ASSUME OneAtATime, Inv, ApprovalInv, NEW v \in {"granted", "refused"}, handleConfirm(v)
  PROVE  ApprovalInv'
<1> PICK b : b = Head(events).id
  OBVIOUS
<1> DEFINE kind == IF v = "granted" THEN "yes" ELSE "no"
<1>1. /\ Take(kind) /\ kind \in AllOps /\ kind # "confirm"
      /\ pendingConfirms' = [pendingConfirms EXCEPT ![b] = NoTool]
      /\ removePendingConfirmOrder(b)
      /\ IF pendingConfirms[b] = NoTool THEN tool' = tool ELSE Answer(b, pendingConfirms[b], v)
      /\ UNCHANGED <<confirmReqCh, cancelled, runner>>
  BY DEF handleConfirm, agentVars, AllOps
<1>2. b \in Ids
  BY <1>1, RequestType DEF Inv
<1>3. /\ OnePlace' /\ QueueExact'
      /\ \A a \in Agents \ {b} : Held(a)' <=> Held(a)
      /\ b \in Agents => (Held(b)' <=> AtRunner(b) \/ OnTheWay(b))
      /\ pendingConfirms[b] # NoTool <=> InOrder(b)
  BY <1>1, <1>2, LeaveQueue
<1>4. CASE pendingConfirms[b] = NoTool
  <2>1. \A a \in Agents : Held(a)' <=> Held(a)
    BY <1>3, <1>4 DEF Held
  <2>2. QED
    BY <1>1, <1>3, <1>4, <2>1, AskedKept DEF Inv
<1>5. CASE pendingConfirms[b] # NoTool
  <2>1. b \in Agents
    <3>1. pendingConfirmOrder \in Seq(Agents) /\ InOrder(b)
      BY <1>3, <1>5 DEF Inv, TypeInv, TypeOK
    <3>2. QED
      BY <3>1 DEF InOrder
  <2>2. pendingConfirms[b] \in ToolCalls /\ tool \in [Agents -> [ToolCalls -> ToolStates]]
    BY <1>2, <1>5 DEF Inv, TypeInv, TypeOK
  <2>3. PICK t \in ToolCalls : t = pendingConfirms[b]
    BY <2>2
  <2>4. tool' = [tool EXCEPT ![b][t] = IF @ = "wait" THEN v ELSE @]
    BY <1>1, <1>5, <2>3 DEF Answer
  <2>5. /\ \A a \in Agents \ {b} : tool'[a] = tool[a]
        /\ \A u \in ToolCalls : tool'[b][u] = IF tool[b][u] = "wait" THEN v ELSE tool[b][u]
    BY <2>1, <2>2, <2>4 DEF OneAtATime
  <2>6. Held(b) /\ ~ Held(b)'
    BY <1>3, <1>5, <2>1 DEF Held, ApprovalInv, OnePlace
  <2>7. runner[b] # "tools" => \A u \in ToolCalls : tool'[b][u] = "idle"
    BY <2>1, <2>5 DEF ApprovalInv, ToolsIdle
  <2>8. ToolsIdle'
    BY <1>1, <2>5, <2>7 DEF ApprovalInv, ToolsIdle
  <2>9. HeldWhileAsked'
    BY <1>1, <1>3, <2>5, <2>6 DEF ApprovalInv, HeldWhileAsked
  <2>10. QED
    BY <1>3, <2>8, <2>9 DEF ApprovalInv
<1>6. QED
  BY <1>4, <1>5

(* The end of an agent drops its request; its tool calls wait no more.     *)
LEMMA ApprovalDone ==
  ASSUME Inv, ApprovalInv, handleAgentDone
  PROVE  ApprovalInv'
<1> PICK b : b = Head(events).id
  OBVIOUS
<1>1. /\ Take("done") /\ b \in agents /\ b \in Agents /\ b \in Ids /\ reported[b]
      /\ UNCHANGED runner
  BY DoneFacts
<1>2. /\ pendingConfirms' = [pendingConfirms EXCEPT ![b] = NoTool]
      /\ removePendingConfirmOrder(b)
      /\ UNCHANGED <<confirmReqCh, cancelled, tool>>
  BY <1>1 DEF handleAgentDone, agentVars
<1>3. /\ OnePlace' /\ QueueExact'
      /\ \A a \in Agents \ {b} : Held(a)' <=> Held(a)
      /\ Held(b)' <=> AtRunner(b) \/ OnTheWay(b)
  BY <1>1, <1>2, LeaveQueue
<1>4. \A t \in ToolCalls : tool[b][t] = "idle"
  BY <1>1 DEF Inv, TypeInv, RunnerLife, ApprovalInv, ToolsIdle
<1>5. ToolsIdle'
  BY <1>1, <1>2 DEF ApprovalInv, ToolsIdle
<1>6. HeldWhileAsked'
  BY <1>2, <1>3, <1>4 DEF ApprovalInv, HeldWhileAsked, Held
<1>7. QED
  BY <1>3, <1>5, <1>6 DEF ApprovalInv

LEMMA ApprovalAgentStep ==
  ASSUME OneAtATime, Inv, ApprovalInv, NEW a \in Agents, AgentStep(a)
  PROVE  ApprovalInv'
<1> USE DEF loopVars, agentVars
<1>0. /\ tool \in [Agents -> [ToolCalls -> ToolStates]] /\ runner \in [Agents -> RunnerStates]
      /\ cancelled \in [Agents -> BOOLEAN] /\ TypeInv
  BY DEF Inv, TypeInv, TypeOK
<1>1. ASSUME UNCHANGED <<confirmReqCh, pendingConfirms, pendingConfirmOrder, events>>
      PROVE  OnePlace' /\ QueueExact' /\ \A b \in Agents : Held(b)' <=> Held(b)
  BY <1>0, <1>1, PlacesKept
<1>2. ASSUME UNCHANGED <<confirmReqCh, pendingConfirms, pendingConfirmOrder, events, tool>>,
             \A b \in Agents : cancelled[b] => cancelled'[b],
             \A b \in Agents : runner'[b] = runner[b] \/ runner[b] # "tools"
      PROVE  ApprovalInv'
  BY <1>0, <1>1, <1>2, AskedKept
<1>3. CASE ParentCancel(a)
  BY <1>0, <1>2, <1>3 DEF ParentCancel
<1>4. CASE \/ Transcript(a, "llm") \/ Transcript(a, "stuck") \/ ReplyFinal(a) \/ QueryFailed(a)
  BY <1>0, <1>2, <1>4 DEF Transcript, ReplyFinal, QueryFailed
<1>5. ASSUME NEW S \in SUBSET ToolCalls, ReplyTools(a, S)
      PROVE  ApprovalInv'
  <2>1. /\ runner[a] = "llm" /\ ~ cancelled[a] /\ runner' = [runner EXCEPT ![a] = "tools"]
        /\ tool' = [tool EXCEPT ![a] = [t \in ToolCalls |-> IF t \in S THEN "ask" ELSE "idle"]]
        /\ UNCHANGED <<confirmReqCh, pendingConfirms, pendingConfirmOrder, events, cancelled>>
    BY <1>5 DEF ReplyTools
  <2>2. /\ \A t \in ToolCalls : tool'[a][t] \in {"ask", "idle"}
        /\ \A b \in Agents \ {a} : tool'[b] = tool[b] /\ runner'[b] = runner[b]
        /\ runner'[a] = "tools"
    BY <1>0, <2>1
  <2>3. Held(a) => ToolCalls = {}
    BY <2>1 DEF ApprovalInv, HeldWhileAsked, ToolsIdle
  <2>4. QED
    <3>1. CASE ToolCalls # {}
      BY <1>0, <1>1, <2>1, <2>2, <2>3, <3>1, ToolsChanged
    <3>2. CASE ToolCalls = {}
      BY <1>1, <2>1, <3>2 DEF ApprovalInv, ToolsIdle, HeldWhileAsked
    <3>3. QED
      BY <3>1, <3>2
<1>6. ASSUME \A t \in ToolCalls : tool[a][t] \notin {"ask", "wait"},
             tool' = [tool EXCEPT ![a] = NoTools],
             \A b \in Agents \ {a} : runner'[b] = runner[b],
             UNCHANGED <<confirmReqCh, pendingConfirms, pendingConfirmOrder, events, cancelled>>
      PROVE  ApprovalInv'
  <2>1. /\ \A t \in ToolCalls : tool'[a][t] = "idle"
        /\ \A b \in Agents \ {a} : tool'[b] = tool[b]
    BY <1>0, <1>6 DEF NoTools
  <2>2. QED
    <3>1. CASE ToolCalls # {}
      <4>1. Held(a) => cancelled[a]
        BY <1>6, <3>1 DEF ApprovalInv, HeldWhileAsked
      <4>2. QED
        BY <1>0, <1>1, <1>6, <2>1, <4>1, ToolsChanged
    <3>2. CASE ToolCalls = {}
      BY <1>1, <1>6, <3>2 DEF ApprovalInv, ToolsIdle, HeldWhileAsked
    <3>3. QED
      BY <3>1, <3>2
<1>7. CASE QueryError(a) \/ RunnerResult(a) \/ ToolsRefused(a) \/ ToolsDone(a)
  <2>1. \A t \in ToolCalls : tool[a][t] \notin {"ask", "wait"}
    BY <1>7 DEF QueryError, RunnerResult, ToolsRefused, ToolsDone, Settled, ApprovalInv, ToolsIdle
  <2>2. /\ tool' = [tool EXCEPT ![a] = NoTools]
        /\ \E r : runner' = [runner EXCEPT ![a] = r]
        /\ UNCHANGED <<confirmReqCh, pendingConfirms, pendingConfirmOrder, events, cancelled>>
    BY <1>7 DEF QueryError, RunnerResult, ToolsRefused, ToolsDone, RunnerEnd
  <2>3. QED
    BY <1>0, <1>6, <2>1, <2>2
<1>8. ASSUME NEW t \in ToolCalls, ToolGiveUp(a, t)
      PROVE  ApprovalInv'
  <2>1. /\ cancelled[a] /\ tool[a][t] # "idle" /\ tool' = [tool EXCEPT ![a][t] = "gone"]
        /\ UNCHANGED <<confirmReqCh, pendingConfirms, pendingConfirmOrder, events, cancelled, runner>>
    BY <1>8 DEF ToolGiveUp
  <2>2. /\ \A u \in ToolCalls : tool'[a][u] = "gone"
        /\ \A b \in Agents \ {a} : tool'[b] = tool[b]
    BY <1>0, <2>1 DEF OneAtATime
  <2>3. runner[a] = "tools"
    BY <2>1 DEF ApprovalInv, ToolsIdle
  <2>4. QED
    BY <1>0, <1>1, <2>1, <2>2, <2>3, ToolsChanged
<1>9. CASE Report(a)
  <2>1. /\ Send(Event("done", a, NoTool, outcome[a])) /\ Event("done", a, NoTool, outcome[a]) \in Kinds
        /\ UNCHANGED <<confirmReqCh, pendingConfirms, pendingConfirmOrder, cancelled, runner, tool>>
    <3>1. runner[a] = "closed" /\ outcome[a] \in Outcomes
      BY <1>9 DEF Report, Inv, TypeInv, TypeOK, RunnerLife
    <3>2. QED
      BY <1>9, <3>1 DEF Report, Event, Dones, Kinds
  <2>2. \E e \in Kinds : Send(e) /\ e.kind # "confirm"
    BY <2>1 DEF Event
  <2>3. OnePlace' /\ QueueExact' /\ \A b \in Agents : Held(b)' <=> Held(b)
    BY <1>0, <2>1, <2>2, PlacesKept
  <2>4. QED
    BY <1>0, <2>1, <2>3, AskedKept
<1>10. QED
  BY <1>3, <1>4, <1>5, <1>7, <1>8, <1>9, ApprovalAsk, ApprovalForward
  DEF AgentStep, RunnerStep, ToolStep

LEMMA ApprovalNext ==
  ASSUME OneAtATime
  PROVE  Inv /\ ApprovalInv /\ [Next]_vars => ApprovalInv'
<1> SUFFICES ASSUME Inv, ApprovalInv, [Next]_vars
             PROVE  ApprovalInv'
  OBVIOUS
<1> USE DEF loopVars, agentVars
<1>0. /\ runner \in [Agents -> RunnerStates] /\ cancelled \in [Agents -> BOOLEAN] /\ TypeInv
  BY DEF Inv, TypeInv, TypeOK
<1>1. ASSUME NEW kind \in AllOps, Take(kind),
             UNCHANGED <<confirmReqCh, pendingConfirms, pendingConfirmOrder, tool>>,
             \A b \in Agents : cancelled[b] => cancelled'[b],
             \A b \in Agents : runner'[b] = runner[b] \/ runner[b] # "tools"
      PROVE  ApprovalInv'
  <2>1. OnePlace' /\ QueueExact' /\ \A b \in Agents : Held(b)' <=> Held(b)
    BY <1>0, <1>1, PlacesKept DEF AllOps
  <2>2. QED
    BY <1>0, <1>1, <2>1, AskedKept
<1>2. ASSUME NEW op \in {"spawn", "agent"}, handleSpawn(op)
      PROVE  ApprovalInv'
  <2>1. nextID \in Agents /\ runner' = [runner EXCEPT ![nextID] = FirstState(op)]
    BY <1>2, CoordinatorAssumption DEF handleSpawn, Agents, Inv, TypeInv, TypeOK
  <2>2. runner[nextID] # "tools"
    BY <2>1 DEF Inv, TypeInv, RunnerLife, Spawned, TypeOK, Agents
  <2>3. QED
    BY <1>0, <1>1, <1>2, <2>1, <2>2 DEF handleSpawn, AllOps
<1>3. CASE handleKill \/ handleGet \/ handleHasPendingConfirm \/ handleWait \/ handleStop
  <2> USE DEF AllOps
  <2>1. CASE handleKill
    BY <1>0, <1>1, <2>1 DEF handleKill
  <2>2. CASE handleGet
    BY <1>1, <2>2 DEF handleGet
  <2>3. CASE handleHasPendingConfirm
    BY <1>1, <2>3 DEF handleHasPendingConfirm
  <2>4. CASE handleWait
    BY <1>1, <2>4 DEF handleWait
  <2>5. CASE handleStop
    BY <1>1, <2>5 DEF handleStop
  <2>6. QED
    BY <1>3, <2>1, <2>2, <2>3, <2>4, <2>5
<1>4. ASSUME NEW c \in Callers, NEW op \in Ops, NEW id \in Ids, Call(c, op, id)
      PROVE  ApprovalInv'
  <2>1. /\ Send(Event(op, id, c, "none")) /\ Event(op, id, c, "none") \in Kinds /\ op \in AllOps
        /\ UNCHANGED <<confirmReqCh, pendingConfirms, pendingConfirmOrder, cancelled, runner, tool>>
    BY <1>4, CoordinatorAssumption DEF Call, Event, Requests, Kinds
  <2>2. \E e \in Kinds : Send(e) /\ e.kind # "confirm"
    BY <2>1 DEF Event, AllOps
  <2>3. OnePlace' /\ QueueExact' /\ \A b \in Agents : Held(b)' <=> Held(b)
    BY <1>0, <2>1, <2>2, PlacesKept
  <2>4. QED
    BY <1>0, <2>1, <2>3, AskedKept
<1>5. CASE UNCHANGED vars
  <2>1. OnePlace' /\ QueueExact' /\ \A b \in Agents : Held(b)' <=> Held(b)
    BY <1>0, <1>5, PlacesKept DEF vars
  <2>2. QED
    BY <1>0, <1>5, <2>1, AskedKept DEF vars
<1>6. QED
  BY <1>2, <1>3, <1>4, <1>5, ApprovalAnswer, ApprovalDone, ApprovalQueued, ApprovalAgentStep
  DEF Next, CallerStep, LoopStep

(* While an agent asks for one approval at a time, its request is in one   *)
(* place exactly as long as the tool call waits for it, over any number of *)
(* approvals, refusals, kills and ends of agents.                          *)
THEOREM ApprovalsCorrect ==
  ASSUME OneAtATime
  PROVE  Spec => []ApprovalInv
<1>1. Init => Inv
  BY TypeInit, SafetyInit DEF Inv
<1>2. Init => ApprovalInv
  BY CoordinatorAssumption, AgentsAreIds
  DEF Init, ApprovalInv, ToolsIdle, OnePlace, QueueExact, HeldWhileAsked, Held, AtRunner,
      OnTheWay, InOrder, Queued, NoTools
<1>3. Inv /\ ApprovalInv /\ [Next]_vars => ApprovalInv'
  BY ApprovalNext
<1>4. QED
  BY <1>1, <1>2, <1>3, SafetyNext, PTL DEF Spec

(* The queue the REPL shows and the response channels the coordinator has  *)
(* stored name the same agents, each once.                                 *)
THEOREM ApprovalQueueCoherent ==
  ASSUME OneAtATime
  PROVE  Spec => []ConfirmQueueCoherent
<1>1. ApprovalInv => ConfirmQueueCoherent
  BY DEF ApprovalInv, QueueExact, ConfirmQueueCoherent, InOrder, ToSet
<1>2. Spec => []ApprovalInv
  BY ApprovalsCorrect
<1>3. QED
  BY <1>1, <1>2, PTL

(* A tool call that waits for approval can always still be answered.       *)
THEOREM ApprovalsAnswerable ==
  ASSUME OneAtATime
  PROVE  Spec => []RequestHeld
<1>1. ASSUME TypeOK, ApprovalInv, NEW a \in Agents, NEW t \in ToolCalls, tool[a][t] = "wait"
      PROVE  \/ t \in ToSet(confirmReqCh[a])
             \/ \E i \in DOMAIN events : events[i] = Event("confirm", a, t, "none")
             \/ pendingConfirms[a] = t
  <2>1. Held(a)
    BY <1>1 DEF ApprovalInv, HeldWhileAsked
  <2>2. CASE AtRunner(a)
    <3>1. confirmReqCh[a] \in Seq(ToolCalls) /\ confirmReqCh[a] # <<>>
      BY <1>1, <2>2 DEF TypeOK, AtRunner
    <3>2. 1 \in DOMAIN confirmReqCh[a] /\ confirmReqCh[a][1] \in ToolCalls
      BY <3>1
    <3>3. confirmReqCh[a][1] = t
      BY <3>2 DEF OneAtATime
    <3>4. QED
      BY <3>2, <3>3 DEF ToSet
  <2>3. CASE OnTheWay(a)
    <3>1. PICK i \in DOMAIN events : events[i].kind = "confirm" /\ events[i].id = a
      BY <2>3 DEF OnTheWay, Queued
    <3>2. events[i] \in Confirms
      <4>1. events[i] \in Kinds
        BY <1>1, <3>1 DEF TypeOK
      <4>2. events[i] \notin Requests /\ events[i] \notin Dones
        BY <3>1 DEF Requests, Dones, AllOps
      <4>3. QED
        BY <4>1, <4>2 DEF Kinds
    <3>3. events[i] = Event("confirm", a, t, "none")
      BY <3>1, <3>2 DEF Confirms, Event, OneAtATime
    <3>4. QED
      BY <3>3
  <2>4. CASE InOrder(a)
    <3>1. pendingConfirms[a] # NoTool /\ pendingConfirms[a] \in ToolCalls \cup {NoTool}
      BY <1>1, <2>4, AgentsAreIds DEF ApprovalInv, QueueExact, TypeOK
    <3>2. QED
      BY <3>1 DEF OneAtATime
  <2>5. QED
    BY <2>1, <2>2, <2>3, <2>4 DEF Held
<1>2. TypeOK /\ ApprovalInv => RequestHeld
  BY <1>1 DEF RequestHeld
<1>3. Spec => []ApprovalInv
  BY ApprovalsCorrect
<1>4. QED
  BY <1>2, <1>3, TypeCorrect, PTL


-----------------------------------------------------------------------------
(* What the steps other than a report of an agent's end leave alone.       *)

(* An agent's goroutines change nothing the event loop owns, and the       *)
(* outcome of no agent but a registered one.                               *)
LEMMA AgentStepFrame ==
  ASSUME Inv, NEW a \in Agents, AgentStep(a)
  PROVE  /\ UNCHANGED <<nextID, agents, completed, totalUsage, sinkUsage, caller>>
         /\ \A b \in Agents \ agents : outcome'[b] = outcome[b]
<1> USE DEF loopVars, agentVars
<1>1. CASE ParentCancel(a) \/ Forward(a) \/ Report(a) \/ \E t \in ToolCalls : ToolStep(a, t)
  BY <1>1 DEF ParentCancel, Forward, Report, ToolStep, ToolAsk, ToolGiveUp
<1>2. CASE \/ Transcript(a, "llm") \/ Transcript(a, "stuck")
           \/ \E S \in SUBSET ToolCalls : ReplyTools(a, S)
           \/ ReplyFinal(a) \/ QueryFailed(a) \/ ToolsDone(a)
  BY <1>2 DEF Transcript, ReplyTools, ReplyFinal, QueryFailed, ToolsDone
<1>3. ASSUME NEW o, runner[a] # "closed", runner[a] # "none", RunnerEnd(a, o)
      PROVE  /\ UNCHANGED <<nextID, agents, completed, totalUsage, sinkUsage, caller>>
             /\ \A b \in Agents \ agents : outcome'[b] = outcome[b]
  <2>1. a \in agents
    BY <1>3 DEF Inv, TypeInv, RunnerLife, SafetyInv, EndOnTheWay
  <2>2. outcome \in [Agents -> Outcomes \cup {"none"}]
    BY DEF Inv, TypeInv, TypeOK
  <2>3. QED
    BY <1>3, <2>1, <2>2 DEF RunnerEnd
<1>4. CASE QueryError(a) \/ RunnerResult(a) \/ ToolsRefused(a)
  BY <1>3, <1>4 DEF QueryError, RunnerResult, ToolsRefused
<1>5. QED
  BY <1>1, <1>2, <1>4 DEF AgentStep, RunnerStep

(* A request is taken from a caller blocked in it, and Reply answers that  *)
(* caller and no other.                                                    *)
LEMMA RequestCaller ==
  ASSUME Inv, NEW kind \in AllOps, Take(kind)
  PROVE  /\ Head(events).by \in Callers /\ Head(events).id \in Ids
         /\ caller[Head(events).by].st = "wait" /\ caller[Head(events).by].op = kind
         /\ caller[Head(events).by].id = Head(events).id
<1>1. 1 \in DOMAIN events /\ Head(events) = events[1] /\ events[1].kind = kind
  BY TakeFacts DEF Inv
<1>2. QED
  BY <1>1, EventTypes DEF Inv, SafetyInv, ChannelSound, Waiting

LEMMA AnsweredCaller ==
  ASSUME Inv, NEW c \in Callers, NEW id, NEW val, caller' = Reply(c, id, val)
  PROVE  /\ caller'[c] = [st |-> "done", op |-> caller[c].op, id |-> id, val |-> val]
         /\ \A d \in Callers \ {c} : caller'[d] = caller[d]
BY DEF Inv, TypeInv, TypeOK, Reply

(* The handlers that only answer their caller.                             *)
Answering ==
  \/ handleKill \/ handleGet \/ handleStop \/ handleHasPendingConfirm
  \/ handleConfirm("granted") \/ handleConfirm("refused")

LEMMA AnsweringFrame ==
  ASSUME Inv, Answering
  PROVE  /\ UNCHANGED <<nextID, agents, completed, totalUsage, sinkUsage, outcome>>
         /\ \E c \in Callers :
              /\ caller[c].st = "wait" /\ caller[c].op # "wait"
              /\ caller'[c].st = "done" /\ caller'[c].op = caller[c].op
              /\ \A d \in Callers \ {c} : caller'[d] = caller[d]
<1>1. /\ UNCHANGED <<nextID, agents, completed, totalUsage, sinkUsage, outcome>>
      /\ \E kind \in AllOps \ {"wait"} : \E id, val :
           Take(kind) /\ caller' = Reply(Head(events).by, id, val)
  <2> USE DEF loopVars, agentVars, AllOps
  <2>1. CASE handleKill
    BY <2>1 DEF handleKill
  <2>2. CASE handleGet
    BY <2>2 DEF handleGet
  <2>3. CASE handleStop
    BY <2>3 DEF handleStop
  <2>4. CASE handleHasPendingConfirm
    BY <2>4 DEF handleHasPendingConfirm
  <2>5. CASE handleConfirm("granted") \/ handleConfirm("refused")
    BY <2>5 DEF handleConfirm
  <2>6. QED
    BY <2>1, <2>2, <2>3, <2>4, <2>5 DEF Answering
<1>2. PICK kind, id, val :
        /\ kind \in AllOps \ {"wait"}
        /\ Take(kind)
        /\ caller' = Reply(Head(events).by, id, val)
  BY <1>1
<1> DEFINE c == Head(events).by
<1>3. c \in Callers /\ caller[c].st = "wait" /\ caller[c].op = kind /\ kind # "wait"
  BY <1>2, RequestCaller
<1> HIDE DEF c
<1>4. /\ caller'[c] = [st |-> "done", op |-> caller[c].op, id |-> id, val |-> val]
      /\ \A d \in Callers \ {c} : caller'[d] = caller[d]
  BY <1>2, <1>3, AnsweredCaller DEF c
<1>5. QED
  BY <1>1, <1>3, <1>4

-----------------------------------------------------------------------------
(* The usage accounts.                                                     *)

LEMMA AccountedFinite == IsFiniteSet(Accounted)
<1>1. IsFiniteSet(Agents)
  BY FS_Interval, CoordinatorAssumption DEF Agents
<1>2. QED
  BY <1>1, FS_Subset DEF Accounted

(* Only the report of a completed run adds an agent to the accounted ones. *)
LEMMA AccountedFrame ==
  ASSUME Inv, UNCHANGED <<nextID, agents>>, \A b \in Agents \ agents : outcome'[b] = outcome[b]
  PROVE  Accounted' = Accounted
BY DEF Accounted, Spawned

LEMMA UsageNext == Inv /\ UsageConserved /\ [Next]_vars => UsageConserved'
<1> SUFFICES ASSUME Inv, UsageConserved, [Next]_vars
             PROVE  UsageConserved'
  OBVIOUS
<1>1. ASSUME Accounted' = Accounted, UNCHANGED <<totalUsage, sinkUsage>>
      PROVE  UsageConserved'
  BY <1>1 DEF UsageConserved
<1>2. ASSUME UNCHANGED <<nextID, agents, totalUsage, sinkUsage>>,
             \A b \in Agents \ agents : outcome'[b] = outcome[b]
      PROVE  UsageConserved'
  BY <1>1, <1>2, AccountedFrame
<1>3. ASSUME NEW op \in {"spawn", "agent"}, handleSpawn(op)
      PROVE  UsageConserved'
  <2>1. /\ nextID \in Agents /\ nextID' = nextID + 1 /\ agents' = agents \cup {nextID}
        /\ UNCHANGED <<outcome, totalUsage, sinkUsage>>
    BY <1>3, CoordinatorAssumption DEF handleSpawn, Agents, Inv, TypeInv, TypeOK
  <2>2. Accounted' = Accounted
    BY <2>1 DEF Accounted, Spawned, Agents
  <2>3. QED
    BY <1>1, <2>1, <2>2
<1>4. CASE handleAgentDone
  <2> DEFINE b == Head(events).id
  <2>1. /\ b \in agents /\ b \in Agents /\ agents' = agents \ {b} /\ UNCHANGED <<nextID, outcome>>
        /\ totalUsage' = totalUsage + ReportedUsage(outcome[b])
        /\ sinkUsage' = sinkUsage + ReportedUsage(outcome[b])
    BY <1>4, DoneFacts
  <2> HIDE DEF b
  <2>2. b \notin Accounted /\ Spawned(b) /\ totalUsage \in Nat
    BY <2>1 DEF Accounted, Inv, TypeInv, TypeOK, SafetyInv, EndOnTheWay
  <2>3. Accounted' = IF outcome[b] = "completed" THEN Accounted \cup {b} ELSE Accounted
    BY <2>1, <2>2 DEF Accounted, Spawned
  <2>4. Cardinality(Accounted') = Cardinality(Accounted) + ReportedUsage(outcome[b])
    <3>1. CASE outcome[b] = "completed"
      BY <2>2, <2>3, <3>1, AccountedFinite, FS_AddElement DEF ReportedUsage
    <3>2. CASE outcome[b] # "completed"
      BY <2>2, <2>3, <3>2 DEF ReportedUsage, UsageConserved
    <3>3. QED
      BY <3>1, <3>2
  <2>5. QED
    BY <2>1, <2>4 DEF UsageConserved
<1>5. CASE handleAgentConfirm \/ handleWait \/ CallerStep \/ UNCHANGED vars
  BY <1>2, <1>5 DEF handleAgentConfirm, handleWait, CallerStep, Call, vars, loopVars, agentVars
<1>6. QED
  BY <1>2, <1>3, <1>4, <1>5, AgentStepFrame, AnsweringFrame DEF Next, LoopStep, Answering

(* The usage of every completed run is counted once, never that of another *)
(* run, and the parent engine is told exactly what the coordinator counts. *)
THEOREM UsageExact == Spec => []UsageConserved
<1>1. Init => Inv /\ UsageConserved
  <2>1. Init => Accounted = {} /\ totalUsage = 0 /\ sinkUsage = 0
    BY DEF Init, Accounted, Spawned, Agents
  <2>2. QED
    BY <2>1, FS_EmptySet, TypeInit, SafetyInit DEF Inv, UsageConserved
<1>2. QED
  BY <1>1, SafetyNext, UsageNext, PTL DEF Spec

-----------------------------------------------------------------------------
(* The refinement of AgentService.  What a caller sees is its Wait; a      *)
(* blocked caller has no answer yet.                                       *)

Blank == \A c \in Callers : caller[c].st = "wait" => caller[c].val = "none"

LEMMA CallerChange ==
  ASSUME Inv, [Next]_vars, NEW c \in Callers
  PROVE  \/ caller'[c] = caller[c]
         \/ caller'[c].st = "done"
         \/ caller'[c].st = "wait" /\ caller'[c].val = "none"
<1>0. caller \in [Callers -> Calls]
  BY DEF Inv, TypeInv, TypeOK
<1>1. ASSUME NEW id, NEW val, NEW kind \in AllOps, Take(kind), caller' = Reply(Head(events).by, id, val)
      PROVE  caller'[c] = caller[c] \/ caller'[c].st = "done"
  <2> DEFINE d == Head(events).by
  <2>1. d \in Callers
    BY <1>1, RequestCaller
  <2> HIDE DEF d
  <2>2. /\ caller'[d] = [st |-> "done", op |-> caller[d].op, id |-> id, val |-> val]
        /\ c # d => caller'[c] = caller[c]
    BY <1>1, <2>1, AnsweredCaller DEF d
  <2>3. QED
    BY <2>2
<1>2. CASE Answering \/ \E a \in Agents : AgentStep(a)
  BY <1>2, AnsweringFrame, AgentStepFrame
<1>3. ASSUME NEW op \in {"spawn", "agent"}, handleSpawn(op)
      PROVE  caller'[c] = caller[c] \/ caller'[c].st = "done"
  BY <1>1, <1>3 DEF handleSpawn, AllOps
<1>4. CASE handleWait
  BY <1>1, <1>4 DEF handleWait, AllOps
<1>5. CASE handleAgentDone
  <2> DEFINE b == Head(events).id
  <2>1. caller' = [d \in Callers |->
                    IF d \in waiters[b]
                    THEN [caller[d] EXCEPT !.st = "done", !.val = outcome[b]] ELSE caller[d]]
    BY <1>5, DoneFacts
  <2> HIDE DEF b
  <2>2. \/ caller'[c] = caller[c]
        \/ caller'[c] = [caller[c] EXCEPT !.st = "done", !.val = outcome[b]]
    BY <2>1
  <2>3. QED
    BY <1>0, <2>2 DEF Calls
<1>6. CASE CallerStep
  BY <1>0, <1>6 DEF CallerStep, Call
<1>7. CASE handleAgentConfirm \/ UNCHANGED vars
  BY <1>7 DEF handleAgentConfirm, vars
<1>8. QED
  BY <1>2, <1>3, <1>4, <1>5, <1>6, <1>7 DEF Next, LoopStep, Answering

(* The variables of AgentService, as the refinement reads them off.        *)
View(c) == IF caller[c].op = "wait"
           THEN [st |-> caller[c].st, id |-> caller[c].id, val |-> caller[c].val]
           ELSE [st |-> "idle", id |-> 0, val |-> "none"]
Phase(a)  == IF a \in agents THEN "running" ELSE IF Spawned(a) THEN "done" ELSE "unborn"
Result(a) == IF Spawned(a) /\ a \notin agents THEN outcome[a] ELSE "none"
Kept      == {a \in Agents : completed[a] # "none"}

Phases  == [a \in Agents |-> Phase(a)]
Results == [a \in Agents |-> Result(a)]
Views   == [c \in Callers |-> View(c)]

(* The actions of AgentService under the refinement, on these names.       *)
LEMMA ServiceActions ==
  /\ Service!Init <=>
       /\ Phases = [a \in Agents |-> "unborn"] /\ Results = [a \in Agents |-> "none"]
       /\ Kept = {} /\ Views = [c \in Callers |-> [st |-> "idle", id |-> 0, val |-> "none"]]
  /\ \A c, id :
       Service!Begin(c, id) <=>
         /\ Views[c].st # "wait"
         /\ Views' = [Views EXCEPT ![c] = [st |-> "wait", id |-> id, val |-> "none"]]
         /\ UNCHANGED <<Phases, Results, Kept>>
  /\ \A c :
       Service!Leave(c) <=>
         /\ Views[c].st # "wait"
         /\ Views' = [Views EXCEPT ![c] = [st |-> "idle", id |-> 0, val |-> "none"]]
         /\ UNCHANGED <<Phases, Results, Kept>>
  /\ \A b :
       Service!Spawn(b) <=>
         /\ Phases[b] = "unborn" /\ \A a \in Agents : a < b => Phases[a] # "unborn"
         /\ Phases' = [Phases EXCEPT ![b] = "running"]
         /\ UNCHANGED <<Results, Kept, Views>>
  /\ \A c, b :
       Service!Collect(c, b) <=>
         /\ Views[c] = [st |-> "wait", id |-> b, val |-> "none"] /\ b \in Kept
         /\ Kept' = Kept \ {b}
         /\ Views' = [Views EXCEPT ![c] = [st |-> "done", id |-> b, val |-> Results[b]]]
         /\ UNCHANGED <<Phases, Results>>
  /\ \A c, b :
       Service!GetNil(c, b) <=>
         /\ Views[c] = [st |-> "wait", id |-> b, val |-> "none"] /\ b \notin Kept
         /\ b \in Agents => Phases[b] # "running"
         /\ Views' = [Views EXCEPT ![c] = [st |-> "done", id |-> b, val |-> "nil"]]
         /\ UNCHANGED <<Phases, Results, Kept>>
  /\ UNCHANGED Service!vars <=> UNCHANGED <<Phases, Results, Kept, Views>>
<1> USE DEF Phases, Results, Views, Phase, Result, View, Kept, Service!Agents, Agents
<1>1. QED
  BY DEF Service!Init, Service!Begin, Service!Leave, Service!Spawn,
     Service!Collect, Service!GetNil, Service!vars, Service!Idle, Service!On, Service!Answered

LEMMA FinishAction ==
  ASSUME NEW b, NEW o, NEW W,
         Phases[b] = "running",
         \A c \in W : Views[c] = [st |-> "wait", id |-> b, val |-> "none"],
         Phases' = [Phases EXCEPT ![b] = "done"],
         Results' = [Results EXCEPT ![b] = o],
         Kept' = Kept \cup {b},
         Views' = [c \in Callers |->
                    IF c \in W THEN [st |-> "done", id |-> b, val |-> o] ELSE Views[c]]
  PROVE  Service!Finish(b, o, W)
BY DEF Phases, Results, Views, Phase, Result, View, Kept, Service!Finish, Service!Agents, Agents,
   Service!On, Service!Answered

(* Two states show the same to AgentService when the registry, the copies  *)
(* kept, the outcomes of ended agents and the Waits are the same.          *)
LEMMA ServiceStutter ==
  ASSUME UNCHANGED <<nextID, agents, completed>>,
         \A b \in Agents \ agents : outcome'[b] = outcome[b],
         \A c \in Callers :
           \/ caller'[c] = caller[c]
           \/ caller[c].op # "wait" /\ caller'[c].op # "wait"
  PROVE  UNCHANGED Service!vars
<1>1. UNCHANGED <<Phases, Results, Kept, Views>>
  BY DEF Phases, Results, Kept, Views, Phase, Result, View, Spawned
<1>2. QED
  BY <1>1, ServiceActions

(* One caller's Wait changes.                                              *)
LEMMA ViewChange ==
  ASSUME NEW c \in Callers, NEW v, View(c)' = v,
         \A d \in Callers \ {c} : caller'[d] = caller[d]
  PROVE  Views' = [Views EXCEPT ![c] = v]
<1>1. \A d \in Callers \ {c} : View(d)' = View(d)
  BY DEF View
<1>2. Views' = [d \in Callers |-> View(d)']
  BY DEF Views
<1>3. Views = [d \in Callers |-> View(d)]
  BY DEF Views
<1> HIDE DEF View, Views
<1>4. QED
  BY <1>1, <1>2, <1>3

LEMMA ServiceCall ==
  ASSUME Inv, NEW c \in Callers, NEW op \in Ops, NEW id \in Ids, Call(c, op, id)
  PROVE  Service!Begin(c, id) \/ Service!Leave(c)
<1>1. /\ caller[c].st # "wait"
      /\ UNCHANGED <<nextID, agents, completed, outcome>>
      /\ caller'[c] = [st |-> "wait", op |-> op, id |-> id, val |-> "none"]
      /\ \A d \in Callers \ {c} : caller'[d] = caller[d]
  BY DEF Call, loopVars, agentVars, Inv, TypeInv, TypeOK
<1>2. UNCHANGED <<Phases, Results, Kept>>
  BY <1>1 DEF Phases, Results, Kept, Phase, Result, Spawned
<1>3. Views[c].st # "wait"
  BY <1>1 DEF Views, View
<1>4. CASE op = "wait"
  <2>1. View(c)' = [st |-> "wait", id |-> id, val |-> "none"]
    BY <1>1, <1>4 DEF View
  <2>2. Views' = [Views EXCEPT ![c] = [st |-> "wait", id |-> id, val |-> "none"]]
    BY <1>1, <2>1, ViewChange
  <2>3. QED
    BY <1>2, <1>3, <2>2, ServiceActions
<1>5. CASE op # "wait"
  <2>1. View(c)' = [st |-> "idle", id |-> 0, val |-> "none"]
    BY <1>1, <1>5 DEF View
  <2>2. Views' = [Views EXCEPT ![c] = [st |-> "idle", id |-> 0, val |-> "none"]]
    BY <1>1, <2>1, ViewChange
  <2>3. QED
    BY <1>2, <1>3, <2>2, ServiceActions
<1>6. QED
  BY <1>4, <1>5

LEMMA ServiceSpawn ==
  ASSUME Inv, NEW op \in {"spawn", "agent"}, handleSpawn(op)
  PROVE  \E b \in Agents : Service!Spawn(b)
<1>1. /\ Take(op) /\ nextID \in Agents /\ nextID' = nextID + 1
      /\ agents' = agents \cup {nextID} /\ UNCHANGED <<completed, outcome>>
      /\ caller' = Reply(Head(events).by, nextID, "ok")
  BY CoordinatorAssumption DEF handleSpawn, Agents, Inv, TypeInv, TypeOK
<1>2. \A c \in Callers :
        caller'[c] = caller[c] \/ (caller[c].op # "wait" /\ caller'[c].op # "wait")
  <2> DEFINE d == Head(events).by
  <2>1. d \in Callers /\ caller[d].op = op
    BY <1>1, RequestCaller DEF AllOps
  <2> HIDE DEF d
  <2>2. /\ caller'[d] = [st |-> "done", op |-> caller[d].op, id |-> nextID, val |-> "ok"]
        /\ \A c \in Callers \ {d} : caller'[c] = caller[c]
    BY <1>1, <2>1, AnsweredCaller DEF d
  <2>3. QED
    BY <2>1, <2>2
<1>3. UNCHANGED <<Kept, Views>>
  BY <1>1, <1>2 DEF Kept, Views, View
<1>4. PICK b \in Agents : b = nextID
  BY <1>1
<1>5. b \notin agents /\ ~ Spawned(b) /\ \A a \in Agents : Spawned(a)' <=> Spawned(a) \/ a = b
  BY <1>1, <1>4 DEF Inv, SafetyInv, EndOnTheWay, Spawned, Agents
<1>6. Results' = Results
  <2>1. \A a \in Agents : Result(a)' = Result(a)
    BY <1>1, <1>4, <1>5 DEF Result
  <2>2. QED
    BY <2>1 DEF Results
<1>7. \A a \in Agents : Phase(a)' = IF a = b THEN "running" ELSE Phase(a)
  BY <1>1, <1>4, <1>5 DEF Phase
<1>8. Phases' = [Phases EXCEPT ![b] = "running"]
  BY <1>7 DEF Phases
<1>9. Phases[b] = "unborn" /\ \A a \in Agents : a < b => Phases[a] # "unborn"
  BY <1>1, <1>4, <1>5 DEF Phases, Phase, Spawned, Agents
<1>10. Service!Spawn(b)
  BY <1>3, <1>6, <1>8, <1>9, ServiceActions
<1>11. QED
  BY <1>10

LEMMA ServiceFinish ==
  ASSUME Inv, Blank, handleAgentDone
  PROVE  \E b \in Agents, o \in Outcomes, W \in SUBSET Callers : Service!Finish(b, o, W)
<1> PICK b : b = Head(events).id
  OBVIOUS
<1>1. /\ b \in agents /\ b \in Agents /\ b \in Ids /\ outcome[b] \in Outcomes
      /\ UNCHANGED <<nextID, outcome>>
      /\ caller' = [c \in Callers |->
                      IF c \in waiters[b]
                      THEN [caller[c] EXCEPT !.st = "done", !.val = outcome[b]] ELSE caller[c]]
      /\ completed' = [completed EXCEPT ![b] = outcome[b]]
      /\ agents' = agents \ {b}
  BY DoneFacts
<1>2. PICK o \in Outcomes, W \in SUBSET Callers : o = outcome[b] /\ W = waiters[b]
  BY <1>1, RegisteredWait
<1>3. \A c \in W :
        c \in Callers /\ caller[c].st = "wait" /\ caller[c].op = "wait" /\ caller[c].id = b
  BY <1>1, <1>2, RegisteredWait
<1>4. \A c \in W : Views[c] = [st |-> "wait", id |-> b, val |-> "none"]
  BY <1>3 DEF Blank, Views, View
<1>5. Views' = [c \in Callers |->
                 IF c \in W THEN [st |-> "done", id |-> b, val |-> o] ELSE Views[c]]
  <2>1. ASSUME NEW c \in Callers
        PROVE  View(c)' = IF c \in W THEN [st |-> "done", id |-> b, val |-> o] ELSE View(c)
    <3>1. CASE c \in W
      <4>1. caller'[c] = [caller[c] EXCEPT !.st = "done", !.val = outcome[b]]
        BY <1>1, <1>2, <3>1
      <4>2. caller[c] \in Calls
        BY DEF Inv, TypeInv, TypeOK
      <4>3. /\ caller'[c].st = "done" /\ caller'[c].op = "wait" /\ caller'[c].id = b
            /\ caller'[c].val = o
        BY <1>2, <1>3, <3>1, <4>1, <4>2 DEF Calls
      <4>4. QED
        BY <3>1, <4>3 DEF View
    <3>2. CASE c \notin W
      <4>1. caller'[c] = caller[c]
        BY <1>1, <1>2, <3>2
      <4>2. QED
        BY <3>2, <4>1 DEF View
    <3>3. QED
      BY <3>1, <3>2
  <2>2. QED
    BY <2>1 DEF Views
<1>6. Spawned(b)
  BY <1>1 DEF Inv, SafetyInv, EndOnTheWay
<1>7. /\ Phases[b] = "running" /\ Phases' = [Phases EXCEPT ![b] = "done"]
      /\ Results' = [Results EXCEPT ![b] = o]
  BY <1>1, <1>2, <1>6 DEF Phases, Phase, Results, Result, Spawned
<1>8. Kept' = Kept \cup {b}
  <2>1. /\ completed'[b] = outcome[b] /\ outcome[b] # "none"
        /\ \A a \in Ids \ {b} : completed'[a] = completed[a]
    BY <1>1 DEF Inv, TypeInv, TypeOK, Outcomes
  <2>2. QED
    BY <1>1, <2>1, AgentsAreIds DEF Kept
<1>9. Service!Finish(b, o, W)
  BY <1>4, <1>5, <1>7, <1>8, FinishAction
<1>10. QED
  BY <1>1, <1>9

LEMMA ServiceWait ==
  ASSUME Inv, Blank, handleWait
  PROVE  \/ UNCHANGED Service!vars
         \/ \E c \in Callers, b \in Agents : Service!Collect(c, b)
         \/ \E c \in Callers, b \in Ids : Service!GetNil(c, b)
<1> PICK c, b : c = Head(events).by /\ b = Head(events).id
  OBVIOUS
<1>1. /\ c \in Callers /\ b \in Ids /\ UNCHANGED <<nextID, agents, outcome>>
      /\ caller[c].st = "wait" /\ caller[c].op = "wait" /\ caller[c].id = b
  BY WaitFacts
<1>2. Views[c] = [st |-> "wait", id |-> b, val |-> "none"]
  BY <1>1 DEF Blank, Views, View
<1>3. UNCHANGED <<Phases, Results>>
  BY <1>1 DEF Phases, Results, Phase, Result, Spawned
<1>4. completed \in [Ids -> Outcomes \cup {"none"}] /\ caller \in [Callers -> Calls]
  BY DEF Inv, TypeInv, TypeOK
<1>5. ASSUME NEW val, caller' = Reply(c, b, val)
      PROVE  Views' = [Views EXCEPT ![c] = [st |-> "done", id |-> b, val |-> val]]
  <2>1. /\ caller'[c] = [st |-> "done", op |-> caller[c].op, id |-> b, val |-> val]
        /\ \A d \in Callers \ {c} : caller'[d] = caller[d]
    BY <1>1, <1>5, AnsweredCaller
  <2>2. QED
    BY <1>1, <2>1, ViewChange DEF View
<1>6. CASE b \in agents /\ UNCHANGED <<completed, caller>>
  BY <1>1, <1>6, ServiceStutter
<1>7. CASE /\ b \notin agents /\ completed[b] # "none"
           /\ caller' = Reply(c, b, completed[b])
           /\ completed' = [completed EXCEPT ![b] = "none"]
  <2>1. b \in Agents /\ completed[b] = outcome[b]
    BY <1>1, <1>7 DEF Inv, SafetyInv, OneOutcome
  <2>2. Spawned(b)
    BY <1>7, <2>1 DEF Inv, TypeInv, RunnerLife, TypeOK
  <2>3. Results[b] = completed[b] /\ b \in Kept
    BY <1>7, <2>1, <2>2 DEF Results, Result, Kept
  <2>4. Kept' = Kept \ {b}
    BY <1>4, <1>7, <2>1, AgentsAreIds DEF Kept
  <2>5. Service!Collect(c, b)
    BY <1>2, <1>3, <1>5, <1>7, <2>3, <2>4, ServiceActions
  <2>6. QED
    BY <1>1, <2>1, <2>5
<1>8. CASE /\ b \notin agents /\ completed[b] = "none"
           /\ caller' = Reply(c, b, "nil") /\ UNCHANGED completed
  <2>1. b \notin Kept /\ Kept' = Kept /\ (b \in Agents => Phases[b] # "running")
    BY <1>8 DEF Kept, Phases, Phase
  <2>2. Service!GetNil(c, b)
    BY <1>2, <1>3, <1>5, <1>8, <2>1, ServiceActions
  <2>3. QED
    BY <1>1, <2>2
<1>9. QED
  BY <1>6, <1>7, <1>8 DEF handleWait

LEMMA ServiceNext == Inv /\ Blank /\ [Next]_vars => [Service!Next]_(Service!vars)
<1> SUFFICES ASSUME Inv, Blank, [Next]_vars
             PROVE  Service!Next \/ UNCHANGED Service!vars
  OBVIOUS
<1> USE DEF Service!Next, Service!Agents, Service!Ids, Service!Outcomes, Agents, Ids, Outcomes
<1>1. CASE CallerStep
  BY <1>1, ServiceCall DEF CallerStep
<1>2. CASE handleSpawn("spawn") \/ handleSpawn("agent")
  BY <1>2, ServiceSpawn
<1>3. CASE handleAgentDone
  BY <1>3, ServiceFinish
<1>4. CASE handleWait
  BY <1>4, ServiceWait
<1>5. CASE Answering
  BY <1>5, AnsweringFrame, ServiceStutter
<1>6. ASSUME NEW a \in Agents, AgentStep(a)
      PROVE  UNCHANGED Service!vars
  BY <1>6, AgentStepFrame, ServiceStutter
<1>7. CASE handleAgentConfirm \/ UNCHANGED vars
  BY <1>7, ServiceStutter DEF handleAgentConfirm, vars, loopVars, agentVars
<1>8. QED
  BY <1>1, <1>2, <1>3, <1>4, <1>5, <1>6, <1>7 DEF Next, LoopStep, Answering

(* The coordinator implements AgentService: ids are handed out in order,   *)
(* each agent ends once, every Wait answered with a result gets the one    *)
(* outcome, and a late Wait takes the single copy kept, however requests,  *)
(* reports and the agents' own steps interleave.                           *)
THEOREM ImplementsService == Spec => ServiceSpec
<1>1. Init => Inv
  BY TypeInit, SafetyInit DEF Inv
<1>2. Init => Blank
  BY DEF Init, Blank
<1>3. Inv /\ Blank /\ [Next]_vars => Blank'
  BY CallerChange DEF Blank
<1>4. Init => Service!Init
  <2>1. Init => /\ Phases = [a \in Agents |-> "unborn"] /\ Results = [a \in Agents |-> "none"]
                /\ Kept = {}
                /\ Views = [c \in Callers |-> [st |-> "idle", id |-> 0, val |-> "none"]]
    BY AgentsAreIds DEF Init, Phases, Results, Kept, Views, Phase, Result, View, Spawned, Agents
  <2>2. QED
    BY <2>1, ServiceActions
<1>5. QED
  BY <1>1, <1>2, <1>3, <1>4, SafetyNext, ServiceNext, PTL DEF Spec, ServiceSpec, Service!Spec

=============================================================================
