-------------------------- MODULE PlaybookExecutor --------------------------
(***************************************************************************)
(* Playbooks: each "/playbook" command is a goroutine that takes the agent *)
(* tool away from the engine, locks agent creation, executes a plan of     *)
(* sequential and parallel phases over the AgentSpawner interface, and     *)
(* undoes both. Beside them a turn of the engine may call the agent tool   *)
(* and the user may stop any agent.                                        *)
(*                                                                         *)
(* The agents are those of AgentService, which Coordinator implements. A   *)
(* run of a playbook is one of its callers. A plan is a sequence of phases *)
(* [parallel, steps]; a step says whether its agent type is known, the     *)
(* variables its prompt uses, the one it sets, and its sub-plan (<<>> when *)
(* it has none).                                                           *)
(***************************************************************************)
EXTENDS PlanParser

CONSTANTS
  Runs,        \* the "/playbook" commands
  DocumentsOf, \* the playbooks each of them may name
  MaxSpawns,   \* bound: agents of all playbooks
  ToolCap      \* bound: agents started by the agent tool

ASSUME BoundsAssumption ==
  MaxSpawns \in Nat /\ ToolCap \in Nat /\ NoVar \notin Vars /\ "none" \notin Runs

ASSUME RunsAssumption == \A r \in Runs : DocumentsOf[r] \subseteq Documents

VARIABLES
  phase, result, kept, wait,   \* the agents, as in AgentService
  killed,      \* running agents that a Kill has cancelled
  owner,       \* per agent: the run that spawned it
  stage,       \* per run: how far its goroutine is
  stack,       \* per run: the executePlan calls it is in, innermost first
  vars,        \* per run: Executor.vars, as the agent each value came from
  outcome,     \* per run: what Execute returned
  saved,       \* per run: its originalTools
  tools,       \* Engine.tools
  locked,      \* Coordinator.playbookRunning
  turn,        \* tools of the engine's turn, and its call of the agent tool
  toolAgents,  \* how many agents that tool started; nobody waits for them
  overlapped   \* whether two playbooks were ever under way together

agentVars == <<phase, result, kept, wait, killed, owner>>
execVars  == <<stack, vars, outcome>>
toolVars  == <<saved, tools, locked, turn, toolAgents, overlapped>>
allVars   == <<agentVars, stage, execVars, toolVars>>

Service == INSTANCE AgentService WITH Callers <- Runs
Agents  == Service!Agents
Full    == {"agent", "other"}
NoTurn  == [on |-> FALSE, tools |-> {}, checked |-> FALSE]

----------------------------------------------------------------------------
(* A call of executePlan: the phase it is in, the agents spawned in that   *)
(* phase, how many of them it is done with, and the first error.           *)

Frame(plan) == [plan |-> plan, ph |-> 1, ids |-> <<>>, done |-> 0, err |-> "none"]
Top(r)      == Head(stack[r])
Steps(f)    == f.plan[f.ph].steps
Parallel(f) == f.plan[f.ph].parallel
Own(r)      == {a \in Agents : owner[a] = r}
Due(f)      == (f.done + 1) .. Len(f.ids)
Pending(f)  == {f.ids[i] : i \in Due(f)}

(* A parallel phase goes on after a failed agent, not after a failed spawn *)
Going(f) == f.err = "none" \/ (Parallel(f) /\ f.err # "spawn")
ToSpawn(f) ==
  /\ Going(f) /\ Len(f.ids) < Len(Steps(f))
  /\ Parallel(f) \/ f.done = Len(f.ids)
ToWait(f) == Going(f) /\ f.done < Len(f.ids) /\ ~ToSpawn(f)
PhaseOver(f) == f.err = "none" /\ f.done = Len(Steps(f))
\* Mutant: after a failed spawn too, the rest of the phase is waited for.
EndedLate(f) ==
  \/ PhaseOver(f) /\ f.ph = Len(f.plan)
  \/ f.err # "none" /\ (Parallel(f) => f.done = Len(Steps(f)))

Ended(f) ==
  \/ PhaseOver(f) /\ f.ph = Len(f.plan)
  \/ f.err # "none" /\ (Going(f) => f.done = Len(Steps(f)))

Running(S) == {a \in S : phase[a] = "running"}
Active(r)  == stage[r] \notin {"idle", "over"}

----------------------------------------------------------------------------
Init ==
  /\ Service!Init
  /\ killed = {} /\ owner = [a \in Agents |-> "none"]
  /\ stage = [r \in Runs |-> "idle"]
  /\ stack = [r \in Runs |-> <<>>]
  /\ vars = [r \in Runs |-> <<>>]
  /\ outcome = [r \in Runs |-> "none"]
  /\ saved = [r \in Runs |-> {}]
  /\ tools = Full /\ locked = FALSE
  /\ turn = NoTurn /\ toolAgents = 0 /\ overlapped = FALSE

----------------------------------------------------------------------------
(* What a playbook may be: a document without steps is refused.            *)
PlansOf == [r \in Runs |-> {ParsePlan(lines) : lines \in DocumentsOf[r]} \ {<<>>}]

(* The goroutine around Execute (main.go): swap the tools, lock, execute,  *)
(* and on return unlock and put back the tools it found.                   *)

GetTools(r) ==
  /\ stage[r] = "idle" /\ PlansOf[r] # {}
  /\ stage' = [stage EXCEPT ![r] = "got"]
  /\ saved' = [saved EXCEPT ![r] = tools]
  /\ overlapped' = (overlapped \/ \E s \in Runs : Active(s))
  /\ UNCHANGED <<agentVars, execVars, tools, locked, turn, toolAgents>>

FilterTools(r) ==
  /\ stage[r] = "got"
  /\ stage' = [stage EXCEPT ![r] = "filtered"]
  /\ tools' = saved[r] \ {"agent"}
  /\ UNCHANGED <<agentVars, execVars, saved, locked, turn, toolAgents, overlapped>>

Execute(r) ==
  /\ stage[r] = "filtered"
  /\ stage' = [stage EXCEPT ![r] = "exec"]
  /\ locked' = TRUE
  /\ \E plan \in PlansOf[r] : stack' = [stack EXCEPT ![r] = <<Frame(plan)>>]
  /\ UNCHANGED <<agentVars, vars, outcome, saved, tools, turn, toolAgents, overlapped>>

\* Mutant: agent creation stays locked after a failed playbook.
UnlockOnSuccess(r) ==
  /\ stage[r] = "returned"
  /\ stage' = [stage EXCEPT ![r] = "unlocked"]
  /\ locked' = (outcome[r] # "ok")
  /\ UNCHANGED <<agentVars, execVars, saved, tools, turn, toolAgents, overlapped>>

Unlock(r) ==
  /\ stage[r] = "returned"
  /\ stage' = [stage EXCEPT ![r] = "unlocked"]
  /\ locked' = FALSE
  /\ UNCHANGED <<agentVars, execVars, saved, tools, turn, toolAgents, overlapped>>

RestoreTools(r) ==
  /\ stage[r] = "unlocked"
  /\ stage' = [stage EXCEPT ![r] = "over"]
  /\ tools' = saved[r]
  /\ UNCHANGED <<agentVars, execVars, saved, locked, turn, toolAgents, overlapped>>

----------------------------------------------------------------------------
(* executePlan: one action per call of the spawner and per return.         *)

SetTop(r, f) == stack' = [stack EXCEPT ![r] = <<f>> \o Tail(@)]

(* A prompt that uses a variable without a value is refused, as is an      *)
(* unknown agent type.                                                     *)
Spawnable(r, step) == step.known /\ step.uses \subseteq DOMAIN vars[r]

\* Mutant: a failed spawn leaves the phase's agents alone.
KilledByNothing(f) == {}

(* The agents killed when the next spawn of a phase fails ...              *)
KilledBySpawn(f) == IF Parallel(f) THEN {f.ids[i] : i \in DOMAIN f.ids} ELSE {}

(* ... and when an agent of the phase fails: those not yet waited for.     *)
KilledByAgent(f) ==
  IF Parallel(f) /\ f.err = "none"
  THEN {f.ids[i] : i \in (f.done + 2) .. Len(f.ids)} ELSE {}

spawnStep(r) ==
  LET f == Top(r)
      step == Steps(f)[Len(f.ids) + 1] IN
  /\ stack[r] # <<>> /\ ToSpawn(f)
  /\ \/ /\ Spawnable(r, step)
        /\ \E a \in Agents :
             /\ Service!Spawn(a)
             /\ owner' = [owner EXCEPT ![a] = r]
             /\ SetTop(r, [f EXCEPT !.ids = Append(@, a)])
        /\ UNCHANGED killed
     \/ /\ ~Spawnable(r, step)
        /\ killed' = killed \cup Running(KilledBySpawn(f))
        /\ SetTop(r, [f EXCEPT !.err = "spawn"])
        /\ UNCHANGED <<phase, result, kept, wait, owner>>
  /\ UNCHANGED <<stage, vars, outcome, toolVars>>

Wait(r) ==
  /\ stack[r] # <<>> /\ ToWait(Top(r)) /\ wait[r].st = "idle"
  /\ Service!Begin(r, Top(r).ids[Top(r).done + 1])
  /\ UNCHANGED <<killed, owner, stage, execVars, toolVars>>

(* The variables after a step that completed.                              *)
Stored(r, f) ==
  LET out == Steps(f)[f.done + 1].out IN
  IF out = NoVar THEN vars[r]
  ELSE [v \in DOMAIN vars[r] \cup {out} |-> IF v = out THEN wait[r].id ELSE vars[r][v]]

(* The answer of Wait: store the output and enter the sub-plan, or note    *)
(* the first error. After one, a parallel phase waits for the rest, and    *)
(* still runs the sub-plans of the agents that complete.                   *)
StepCompleted(r) ==
  LET f == Top(r)
      step == Steps(f)[f.done + 1] IN
  /\ wait[r].val = "completed"
  /\ vars' = [vars EXCEPT ![r] = Stored(r, f)]
  /\ stack' = [stack EXCEPT ![r] =
       (IF step.sub = <<>> THEN <<>> ELSE <<Frame(step.sub)>>)
         \o <<[f EXCEPT !.done = @ + 1]>> \o Tail(@)]
  /\ UNCHANGED killed

\* Mutant: the output is stored whatever the status.
StepFailedStored(r) ==
  LET f == Top(r) IN
  /\ wait[r].val # "completed"
  /\ SetTop(r, [f EXCEPT !.done = @ + 1, !.err = IF @ = "none" THEN "agent" ELSE @])
  /\ killed' = killed \cup Running(KilledByAgent(f))
  /\ vars' = [vars EXCEPT ![r] = Stored(r, f)]

StepFailed(r) ==
  LET f == Top(r) IN
  /\ wait[r].val # "completed"
  /\ SetTop(r, [f EXCEPT !.done = @ + 1, !.err = IF @ = "none" THEN "agent" ELSE @])
  /\ killed' = IF wait[r].val = "nil" THEN killed
               ELSE killed \cup Running(KilledByAgent(f))
  /\ UNCHANGED vars

StepOver(r) ==
  /\ wait[r].st = "done"
  /\ StepCompleted(r) \/ StepFailed(r)
  /\ Service!Leave(r)
  /\ UNCHANGED <<owner, stage, outcome, toolVars>>

NextPhase(r) ==
  /\ stack[r] # <<>> /\ PhaseOver(Top(r)) /\ Top(r).ph < Len(Top(r).plan)
  /\ SetTop(r, [Top(r) EXCEPT !.ph = @ + 1, !.ids = <<>>, !.done = 0])
  /\ UNCHANGED <<agentVars, stage, vars, outcome, toolVars>>

\* Mutant: the error of a sub-plan is dropped.
ReturnedOk(f, err) == f

(* The caller of a sub-plan that failed keeps an earlier error.            *)
Returned(f, err) == [f EXCEPT !.err = IF err # "none" /\ @ = "none" THEN "sub" ELSE @]

PlanReturns(r) ==
  /\ stack[r] # <<>> /\ Ended(Top(r))
  /\ \/ /\ Len(stack[r]) > 1
        /\ stack' = [stack EXCEPT ![r] = <<Returned(@[2], @[1].err)>> \o Tail(Tail(@))]
        /\ UNCHANGED <<stage, outcome>>
     \/ /\ Len(stack[r]) = 1
        /\ stack' = [stack EXCEPT ![r] = <<>>]
        /\ stage' = [stage EXCEPT ![r] = "returned"]
        /\ outcome' = [outcome EXCEPT ![r] = IF Top(r).err = "none" THEN "ok" ELSE "failed"]
  /\ UNCHANGED <<agentVars, vars, toolVars>>

----------------------------------------------------------------------------
(* The agents, by the promises of AgentService; only a killed one ends as  *)
(* killed.                                                                 *)

AgentEnds(a) ==
  /\ \E o \in Service!Outcomes, W \in SUBSET Runs :
       /\ (o = "killed") => (a \in killed)
       /\ Service!Finish(a, o, W)
  /\ killed' = killed \ {a}
  /\ UNCHANGED <<owner, stage, execVars, toolVars>>

Answer(r) ==
  /\ \E id \in Service!Ids : Service!GetNil(r, id) \/ (id \in Agents /\ Service!Collect(r, id))
  /\ UNCHANGED <<killed, owner, stage, execVars, toolVars>>

(* "/stop-agent": the user kills any agent that runs.                      *)
StopAgent(a) ==
  /\ phase[a] = "running"
  /\ killed' = killed \cup {a}
  /\ UNCHANGED <<phase, result, kept, wait, owner, stage, execVars, toolVars>>

----------------------------------------------------------------------------
(* The engine: a turn takes the tools of its start; its agent tool checks  *)
(* the lock and then spawns.                                               *)

StartTurn ==
  /\ ~turn.on
  /\ turn' = [turn EXCEPT !.on = TRUE, !.tools = tools]
  /\ UNCHANGED <<agentVars, stage, execVars, saved, tools, locked, toolAgents, overlapped>>

CheckLock ==
  /\ turn.on /\ "agent" \in turn.tools /\ ~turn.checked
  /\ ~locked /\ toolAgents < ToolCap
  /\ turn' = [turn EXCEPT !.checked = TRUE]
  /\ UNCHANGED <<agentVars, stage, execVars, saved, tools, locked, toolAgents, overlapped>>

ToolSpawn ==
  /\ turn.checked
  /\ toolAgents' = toolAgents + 1
  /\ turn' = [turn EXCEPT !.checked = FALSE]
  /\ UNCHANGED <<agentVars, stage, execVars, saved, tools, locked, overlapped>>

EndTurn ==
  /\ turn.on /\ ~turn.checked
  /\ turn' = NoTurn
  /\ UNCHANGED <<agentVars, stage, execVars, saved, tools, locked, toolAgents, overlapped>>

----------------------------------------------------------------------------
Next ==
  \/ \E r \in Runs :
       \/ GetTools(r) \/ FilterTools(r) \/ Execute(r) \/ Unlock(r) \/ RestoreTools(r)
       \/ spawnStep(r) \/ Wait(r) \/ StepOver(r) \/ NextPhase(r) \/ PlanReturns(r)
       \/ Answer(r)
  \/ \E a \in Agents : AgentEnds(a) \/ StopAgent(a)
  \/ StartTurn \/ CheckLock \/ ToolSpawn \/ EndTurn

RunStep(r) ==
  \/ FilterTools(r) \/ Execute(r) \/ Unlock(r) \/ RestoreTools(r)
  \/ spawnStep(r) \/ Wait(r) \/ StepOver(r) \/ NextPhase(r) \/ PlanReturns(r)
  \/ Answer(r)

Spec == Init /\ [][Next]_allVars
FairSpec == Spec /\ \A r \in Runs : WF_allVars(RunStep(r))

----------------------------------------------------------------------------
(* The parser reads every playbook as its author meant it; nothing that    *)
(* changes is involved, so it is asked before the first step only.         *)
ParserFaithful == Init => \A lines \in Documents : PlanFaithful(lines)

(* Each Wait of the executor is answered with a result ("agent not found"  *)
(* of executor.go:107, 188 does not happen), and variables hold results of *)
(* agents of this run that completed, never that of a failed, killed or    *)
(* foreign agent (executor.go:124, 150).                                   *)
VarsFromCompleted ==
  /\ \A r \in Runs : wait[r].val # "nil"
  /\ \A r \in Runs : \A v \in DOMAIN vars[r] :
       LET a == vars[r][v] IN
       owner[a] = r /\ phase[a] = "done" /\ result[a] = "completed"

(* No agent is left behind: one that runs and was not killed is in a phase *)
(* under way whose executePlan call is still to wait for it, a phase in    *)
(* which no agent failed so far if it is parallel (executor.go:118-123).   *)
(* So phases do not overlap, and none is left when Execute returns.        *)
AgentsAccounted ==
  \A r \in Runs : \A a \in Running(Own(r)) \ killed :
    \E i \in DOMAIN stack[r] : a \in Pending(stack[r][i]) /\ stack[r][i].err # "agent"

(* A playbook that reports success had no agent that failed, in whatever   *)
(* phase or sub-plan and whoever stopped it.                               *)
SuccessMeansCompleted ==
  \A r \in Runs : outcome[r] = "ok" =>
    \A a \in Own(r) : phase[a] = "done" /\ result[a] = "completed"

(* As long as playbooks do not overlap, agent creation is locked exactly   *)
(* while one executes, the engine has no agent tool meanwhile, and has all *)
(* its tools afterwards, whatever the outcome.                             *)
LockExact ==
  ~overlapped =>
    /\ locked = (\E r \in Runs : stage[r] \in {"exec", "returned"})
    /\ (\E r \in Runs : Active(r) /\ stage[r] # "got") => "agent" \notin tools
    /\ (\A r \in Runs : ~Active(r)) => tools = Full

(* The invariant the theorems about agents and variables are proved by.    *)
Frames == [plan : Plans, ph : Nat, ids : Seq(Agents), done : Nat,
           err : {"none", "spawn", "agent", "sub"}]
TypeOK ==
  /\ phase \in [Agents -> {"unborn", "running", "done"}]
  /\ result \in [Agents -> Service!Outcomes \cup {"none"}]
  /\ kept \subseteq Agents /\ killed \subseteq Agents
  /\ wait \in [Runs -> [st : {"idle", "wait", "done"}, id : Service!Ids,
                        val : Service!Outcomes \cup {"none", "nil"}]]
  /\ owner \in [Agents -> Runs \cup {"none"}]
  /\ stage \in [Runs -> {"idle", "got", "filtered", "exec", "returned", "unlocked", "over"}]
  /\ stack \in [Runs -> Seq(Frames)]
  /\ DOMAIN vars = Runs /\ \A r \in Runs : \A v \in DOMAIN vars[r] : vars[r][v] \in Agents
  /\ outcome \in [Runs -> {"none", "ok", "failed"}]
  /\ saved \in [Runs -> SUBSET Full] /\ tools \subseteq Full
  /\ locked \in BOOLEAN /\ overlapped \in BOOLEAN

(* Of each agent: only an ended one's result is kept for a late Wait.      *)
ResultsKept ==
  \A a \in Agents :
    /\ a \in kept => phase[a] = "done"
    /\ phase[a] = "done" => result[a] \in Service!Outcomes

(* Of each run: it is in an executePlan call exactly while it executes, and *)
(* has an outcome exactly after that.                                      *)
StageExact(r) ==
  /\ stage[r] = "exec" <=> stack[r] # <<>>
  /\ outcome[r] = "none" <=> stage[r] \in {"idle", "got", "filtered", "exec"}

(* A parallel phase waits when all its agents are spawned, a sequential    *)
(* one has at most one agent under way. A call that waits for its sub-plan *)
(* has taken the answer for the agent of that step.                        *)
FrameOK(f) ==
  /\ f.ph \in 1 .. Len(f.plan) /\ f.done <= Len(f.ids) /\ Len(f.ids) <= Len(Steps(f))
  /\ Parallel(f) /\ (f.done > 0 \/ f.err \in {"agent", "sub"}) => Len(f.ids) = Len(Steps(f))
  /\ ~Parallel(f) => Len(f.ids) <= f.done + 1
  /\ ~Parallel(f) /\ f.err # "none" => f.done = Len(f.ids)
InSubPlan(f) == f.done > 0 /\ (~Parallel(f) => f.done = Len(f.ids))
FramesExact(r) ==
  \A i \in DOMAIN stack[r] :
    FrameOK(stack[r][i]) /\ (i > 1 => InSubPlan(stack[r][i]))

(* An agent to be waited for is the run's own, is due in one place only,   *)
(* and once ended its result is kept for that Wait or is its answer.       *)
DueOnce(r) ==
  \A i \in DOMAIN stack[r] : \A k \in Due(stack[r][i]) :
    LET a == stack[r][i].ids[k] IN
    /\ owner[a] = r /\ phase[a] # "unborn"
    /\ phase[a] = "done" => a \in kept \/ (wait[r].st = "done" /\ wait[r].id = a)
    /\ \A j \in DOMAIN stack[r] : \A l \in Due(stack[r][j]) :
         stack[r][j].ids[l] = a => j = i /\ l = k

(* A Wait is for the next agent due, and its answer is the agent's result. *)
WaitsForDue(r) ==
  /\ wait[r].st # "done" => wait[r].val = "none"
  /\ wait[r].st # "idle" =>
       /\ stack[r] # <<>> /\ ToWait(Top(r)) /\ wait[r].id = Top(r).ids[Top(r).done + 1]
  /\ wait[r].st = "done" => phase[wait[r].id] = "done" /\ wait[r].val = result[wait[r].id]

(* After a failed spawn whatever still runs of the phase has been killed.  *)
SpawnFailureKills(r) ==
  \A i \in DOMAIN stack[r] :
    LET f == stack[r][i] IN
    Parallel(f) /\ f.err = "spawn" => Running(Pending(f)) \subseteq killed

(* As long as no error is noted, an agent is due or has completed.         *)
NoErrorSoFar(r) == outcome[r] # "failed" /\ \A i \in DOMAIN stack[r] : stack[r][i].err = "none"
NoneLost(r) ==
  NoErrorSoFar(r) =>
    \A a \in Own(r) :
      \/ phase[a] = "done" /\ result[a] = "completed"
      \/ \E i \in DOMAIN stack[r] : a \in Pending(stack[r][i])

ExecInv ==
  /\ TypeOK /\ ResultsKept /\ VarsFromCompleted /\ AgentsAccounted
  /\ \A r \in Runs :
       /\ StageExact(r) /\ FramesExact(r) /\ DueOnce(r) /\ WaitsForDue(r)
       /\ SpawnFailureKills(r) /\ NoneLost(r)

(* The invariant LockExact is proved by: how far the one playbook under    *)
(* way is says what the engine's tools, the saved ones and the lock are.   *)
LockByStage ==
  ~overlapped =>
    /\ \A r, s \in Runs : Active(r) /\ Active(s) => r = s
    /\ (\A r \in Runs : ~Active(r)) => tools = Full /\ ~locked
    /\ \A r \in Runs : Active(r) =>
         /\ saved[r] = Full
         /\ tools = IF stage[r] = "got" THEN Full ELSE Full \ {"agent"}
         /\ locked <=> stage[r] \in {"exec", "returned"}

(* If every agent ends (replies and approvals arrive), every playbook that *)
(* was started comes to its end and restores the engine's tools.           *)
AgentsEnd == \A a \in Agents : []<>(phase[a] # "running")
ExecuteReturns == AgentsEnd => \A r \in Runs : []<>~Active(r)

=============================================================================
