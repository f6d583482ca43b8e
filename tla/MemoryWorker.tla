------------------------------ MODULE MemoryWorker ------------------------------
(***************************************************************************)
(* The memory worker of internal/memory: the engine's loop tells the skill *)
(* collector of skill calls and hands over the end of each turn; the       *)
(* worker's goroutine closes the records and saves each execution as a     *)
(* file; the watcher starts a goroutine for each new file, and that one    *)
(* analyses a skill's files when they are enough.                          *)
(*                                                                         *)
(* Messages are numbers in the order they come into being, files and the   *)
(* goroutines they start are numbers too: goroutine a is that of file a.   *)
(***************************************************************************)
EXTENDS Integers, SequencesExt, FiniteSetsExt

CONSTANTS
  Skills,       \* skills with collection rules
  Workflows,    \* those in workflow mode
  NoSkill,
  Threshold,    \* files that start an analysis
  QueueCap,     \* capacity of turnEndCh (4 in NewMemoryWorker)
  MaxTurns,     \* bound: turns in a behaviour
  MaxCalls,     \* bound: skill calls, and so files and their goroutines
  MaxRounds,    \* bound: messages besides prompts
  MaxResets     \* bound: resets and compactions

ASSUME MemoryAssumption ==
  /\ Workflows \subseteq Skills /\ NoSkill \notin Skills
  /\ Threshold \in Nat \ {0} /\ QueueCap \in Nat \ {0}
  /\ MaxTurns \in Nat /\ MaxCalls \in Nat /\ MaxRounds \in Nat /\ MaxResets \in Nat

VARIABLES
  messages,     \* the engine's history
  made,         \* messages made so far
  turn,         \* the engine: between turns, in a turn, handing over its end
  workflowCompleted,
  turnEndCh,
  done,         \* Stop has closed it
  pending,      \* skills called since the last turn end was handled
  activeWorkflow,
  executions,   \* the records of each skill
  job,          \* the worker: turn end it works on, or the empty job
  worker,       \* "run" or "exited"
  files,        \* execution files
  place,        \* where a file is: Dir, Gone, or a batch directory
  claimed,      \* the files that a goroutine has claimed
  batch,        \* its batch directory
  dirs,         \* skills with a directory
  analysis,     \* the goroutines
  analysed,     \* what the analysis file of a skill covers
  epoch,        \* histories begun: resets and compactions
  turns, calls, rounds

engineVars    == <<messages, made, turn, workflowCompleted, epoch, turns, calls, rounds>>
collectorVars == <<pending, activeWorkflow, executions>>
workerVars    == <<job, worker, files, dirs>>
claimVars     == <<place, claimed, batch>>
analysisVars  == <<analysis, analysed>>
vars == <<engineVars, turnEndCh, done, collectorVars, workerVars, claimVars, analysisVars>>

Ids      == 1 .. MaxCalls
Dir      == 0    \* the directory of its skill
Gone     == -1
NoJob    == [msgs |-> <<>>, epoch |-> 0, skills |-> {}]

Init ==
  /\ messages = <<>> /\ made = 0 /\ turn = "idle" /\ workflowCompleted = FALSE
  /\ turnEndCh = <<>> /\ done = FALSE
  /\ pending = <<>> /\ activeWorkflow = NoSkill /\ executions = [k \in Skills |-> <<>>]
  /\ job = NoJob /\ worker = "run"
  /\ files = <<>> /\ place = [a \in Ids |-> Dir] /\ dirs = {}
  /\ claimed = [a \in Ids |-> {}] /\ batch = [a \in Ids |-> a]
  /\ analysis = [a \in Ids |-> [step |-> "none", todo |-> {}, read |-> {}, base |-> {}]]
  /\ analysed = [k \in Skills |-> {}]
  /\ epoch = 0 /\ turns = 0 /\ calls = 0 /\ rounds = 0

-----------------------------------------------------------------------------
(* The collector's methods, each under its mutex.                          *)

Update(recs, f(_)) == IF recs = <<>> THEN recs ELSE [recs EXCEPT ![Len(recs)] = f(@)]

(* A record that is still open is given up.  The record begins with the    *)
(* message before the call (startIdx in handleQueryEvent).                 *)
OnSkillInvocation(k) ==
  LET open == executions[k] # <<>> /\ ~Last(executions[k]).completed
      rec  == [start |-> Len(messages) - 1, end |-> 0, completed |-> FALSE,
               first |-> Last(messages), epoch |-> epoch]
  IN  /\ executions' = [executions EXCEPT ![k] = Append(IF open THEN <<>> ELSE @, rec)]
      /\ pending' = Append(pending, k)
      /\ activeWorkflow' = IF k \in Workflows THEN k ELSE activeWorkflow

(* Reset, at a reset or compaction of the history.                         *)
ResetCollector ==
  /\ executions' = [k \in Skills |-> <<>>]
  /\ pending' = <<>> /\ activeWorkflow' = NoSkill

(* Mutant: a workflow that is open stays active.                           *)
TakeRecordsOnly(k) ==
  /\ executions' = [executions EXCEPT ![k] = <<>>]
  /\ UNCHANGED <<pending, activeWorkflow>>

TakeRecordsForAnalysis(k) ==
  /\ executions' = [executions EXCEPT ![k] = <<>>]
  /\ activeWorkflow' = IF activeWorkflow = k THEN NoSkill ELSE activeWorkflow
  /\ UNCHANGED pending

(* The records called since the last turn end get their end, that of an    *)
(* open workflow a later one.  While a workflow is open, nothing else is   *)
(* completed; when it ends, only it is.  CompletedSkills is the list that  *)
(* is returned, each skill with its place in it.                           *)
Ended(end) ==
  [k \in Skills |->
     Update(executions[k],
            LAMBDA r : IF (k \in Range(pending) /\ r.end = 0) \/ k = activeWorkflow
                       THEN [r EXCEPT !.end = end] ELSE r)]
Completed(recs, ks) ==
  [k \in Skills |->
     IF k \in ks THEN Update(recs[k], LAMBDA r : [r EXCEPT !.completed = TRUE]) ELSE recs[k]]
CompletedSkills(ended) ==
  IF activeWorkflow = NoSkill
  THEN {<<i, pending[i]>> : i \in {j \in DOMAIN pending : executions[pending[j]] # <<>>}}
  ELSE IF ended THEN {<<1, activeWorkflow>>} ELSE {}

(* Mutant: it waits until something completes.                             *)
OnCompletion(end, ended) ==
  /\ CompletedSkills(ended) # {}
  /\ executions' = Completed(Ended(end), {c[2] : c \in CompletedSkills(ended)})
  /\ pending' = <<>>
  /\ activeWorkflow' = IF ended THEN NoSkill ELSE activeWorkflow

OnExecutionResult(end, ended) ==
  /\ executions' = Completed(Ended(end), {c[2] : c \in CompletedSkills(ended)})
  /\ pending' = <<>>
  /\ activeWorkflow' = IF ended THEN NoSkill ELSE activeWorkflow

-----------------------------------------------------------------------------
(* The engine's loop.                                                      *)

(* A prompt is a message of its own or goes into the last one.             *)
StartTurn ==
  /\ turn = "idle" /\ ~done /\ turns < MaxTurns
  /\ \/ messages' = Append(messages, made + 1) /\ made' = made + 1
     \/ messages # <<>> /\ UNCHANGED <<messages, made>>
  /\ turn' = "run" /\ workflowCompleted' = FALSE /\ turns' = turns + 1
  /\ UNCHANGED <<epoch, calls, rounds, turnEndCh, done, collectorVars, workerVars, claimVars,
                 analysisVars>>

(* The model calls the skill tool.                                         *)
CallSkill ==
  /\ turn = "run" /\ calls < MaxCalls
  /\ \E k \in Skills : OnSkillInvocation(k)
  /\ calls' = calls + 1
  /\ UNCHANGED <<messages, made, turn, workflowCompleted, epoch, turns, rounds, turnEndCh, done,
                 workerVars, claimVars, analysisVars>>

CallWorkflowComplete ==
  /\ turn = "run" /\ ~workflowCompleted
  /\ workflowCompleted' = TRUE
  /\ UNCHANGED <<messages, made, turn, epoch, turns, calls, rounds, turnEndCh, done, collectorVars,
                 workerVars, claimVars, analysisVars>>

(* A reply, tool results, or a notice, which may come between turns.       *)
AddMessage ==
  /\ turn # "end" /\ ~done /\ rounds < MaxRounds
  /\ messages' = Append(messages, made + 1) /\ made' = made + 1 /\ rounds' = rounds + 1
  /\ UNCHANGED <<turn, workflowCompleted, epoch, turns, calls, turnEndCh, done, collectorVars,
                 workerVars, claimVars, analysisVars>>

(* What compaction leaves: a summary and a tail of the history.            *)
Compacted == {<<made + 1>> \o SubSeq(messages, i, Len(messages)) : i \in 2 .. Len(messages) + 1}

(* Mutant: the records of the longer history are kept.                     *)
CompactKeeps ==
  /\ turn = "run" /\ epoch < MaxResets
  /\ messages' \in Compacted /\ made' = made + 1 /\ epoch' = epoch + 1
  /\ UNCHANGED <<turn, workflowCompleted, turns, calls, rounds, turnEndCh, done, collectorVars,
                 workerVars, claimVars, analysisVars>>

Compact ==
  /\ turn = "run" /\ epoch < MaxResets
  /\ messages' \in Compacted /\ made' = made + 1 /\ epoch' = epoch + 1
  /\ ResetCollector
  /\ UNCHANGED <<turn, workflowCompleted, turns, calls, rounds, turnEndCh, done, workerVars,
                 claimVars, analysisVars>>

ResetEngine ==
  /\ turn = "idle" /\ ~done /\ epoch < MaxResets
  /\ messages' = <<>> /\ epoch' = epoch + 1
  /\ ResetCollector
  /\ UNCHANGED <<made, turn, workflowCompleted, turns, calls, rounds, turnEndCh, done, workerVars,
                 claimVars, analysisVars>>

EndTurn ==
  /\ turn = "run"
  /\ turn' = "end"
  /\ UNCHANGED <<messages, made, workflowCompleted, epoch, turns, calls, rounds, turnEndCh, done,
                 collectorVars, workerVars, claimVars, analysisVars>>

HandOver ==
  /\ turn = "end"
  /\ turnEndCh' = Append(turnEndCh, [msgs |-> messages, completed |-> workflowCompleted,
                                     epoch |-> epoch])
  /\ turn' = "idle" /\ workflowCompleted' = FALSE
  /\ UNCHANGED <<messages, made, epoch, turns, calls, rounds, done, collectorVars, workerVars,
                 claimVars, analysisVars>>

(* HandleTurnEnd copies the history and blocks while the channel is full.  *)
(* (Its other case, done, never fires: Stop waits for the loop first.)     *)
HandleTurnEnd == Len(turnEndCh) < QueueCap /\ HandOver

(* A turn that is stopped has no end to hand over.                         *)
Stop ==
  /\ turn # "end" /\ ~done
  /\ done' = TRUE /\ turn' = "idle"
  /\ UNCHANGED <<messages, made, workflowCompleted, epoch, turns, calls, rounds, turnEndCh,
                 collectorVars, workerVars, claimVars, analysisVars>>

-----------------------------------------------------------------------------
(* The worker.                                                             *)

TakeTurnEnd ==
  /\ worker = "run" /\ job.skills = {} /\ turnEndCh # <<>>
  /\ LET e == Head(turnEndCh) IN
       /\ OnExecutionResult(Len(e.msgs), e.completed)
       /\ job' = IF CompletedSkills(e.completed) = {} THEN NoJob
                 ELSE [msgs |-> e.msgs, epoch |-> e.epoch, skills |-> CompletedSkills(e.completed)]
  /\ turnEndCh' = Tail(turnEndCh)
  /\ UNCHANGED <<engineVars, done, worker, files, dirs, claimVars, analysisVars>>

(* The last completed record, read again under the mutex, cuts the file    *)
(* from the messages at hand, if it is there and its range fits.           *)
Cut(k) ==
  LET closed == {i \in DOMAIN executions[k] : executions[k][i].completed}
      rec    == executions[k][Max(closed)]
  IN  IF closed = {} \/ rec.start >= rec.end \/ rec.end > Len(job.msgs) THEN <<>>
      ELSE <<[skill |-> k, msgs |-> SubSeq(job.msgs, rec.start + 1, rec.end),
              first |-> rec.first, epoch |-> rec.epoch, seen |-> job.epoch]>>

(* The watcher sees the new file and starts its goroutine, but may miss it *)
(* in a directory that is new itself, or when it has stopped.              *)
Watch(k, a) ==
  \E step \in IF k \in dirs /\ ~done THEN {"check"} ELSE {"check", "over"} :
    analysis' = [analysis EXCEPT ![a].step = step]

saveSkillExecutionMD ==
  /\ \E c \in job.skills :
       LET k == c[2] IN
       /\ \A d \in job.skills : c[1] <= d[1]
       /\ files' = files \o Cut(k)
       /\ IF Cut(k) = <<>> THEN UNCHANGED <<dirs, analysis>>
          ELSE dirs' = dirs \cup {k} /\ Watch(k, Len(files) + 1)
       /\ job' = IF job.skills = {c} THEN NoJob ELSE [job EXCEPT !.skills = @ \ {c}]
  /\ UNCHANGED <<engineVars, turnEndCh, done, collectorVars, worker, claimVars, analysed>>

(* Mutant: Stop waits for the analyses too.                                *)
ExitLate ==
  /\ worker = "run" /\ done /\ job.skills = {}
  /\ \A a \in Ids : analysis[a].step \in {"none", "over"}
  /\ worker' = "exited"
  /\ UNCHANGED <<engineVars, turnEndCh, done, collectorVars, job, files, dirs, claimVars,
                 analysisVars>>

(* Turn ends still in the channel are dropped.                             *)
Exit ==
  /\ worker = "run" /\ done /\ job.skills = {}
  /\ worker' = "exited"
  /\ UNCHANGED <<engineVars, turnEndCh, done, collectorVars, job, files, dirs, claimVars,
                 analysisVars>>

-----------------------------------------------------------------------------
(* The goroutines that analyse.                                            *)

SkillOf(a) == files[a].skill
MDFiles(k) == {f \in Ids : f <= Len(files) /\ files[f].skill = k /\ place[f] = Dir}

Go(a, from, to) == analysis[a].step = from /\ analysis' = [analysis EXCEPT ![a].step = to]

checkSkillThreshold(a) ==
  /\ Go(a, "check", IF Cardinality(MDFiles(SkillOf(a))) >= Threshold THEN "take" ELSE "over")
  /\ UNCHANGED <<engineVars, turnEndCh, done, collectorVars, workerVars, claimVars, analysed>>

TriggerSkillAnalysis(a) ==
  /\ Go(a, "take", "list")
  /\ TakeRecordsForAnalysis(SkillOf(a))
  /\ UNCHANGED <<engineVars, turnEndCh, done, workerVars, claimVars, analysed>>

(* Batch directories are named by the second: two goroutines of one skill  *)
(* may have the same.                                                      *)
Batches(a) ==
  {a} \cup {batch[b] : b \in {c \in Ids :
              analysis[c].step \in {"claim", "query", "write", "clean"} /\ SkillOf(c) = SkillOf(a)}}

ListFiles(a) ==
  /\ analysis[a].step = "list"
  /\ LET fs == MDFiles(SkillOf(a)) IN
       IF fs = {} THEN analysis' = [analysis EXCEPT ![a].step = "over"] /\ UNCHANGED batch
       ELSE /\ analysis' = [analysis EXCEPT ![a].step = "claim", ![a].todo = fs]
            /\ \E b \in Batches(a) : batch' = [batch EXCEPT ![a] = b]
  /\ UNCHANGED <<engineVars, turnEndCh, done, collectorVars, workerVars, place, claimed, analysed>>

(* Mutant: the result of the rename is not looked at.                      *)
ClaimAnyway(a) ==
  /\ analysis[a].step = "claim"
  /\ \E f \in Ids :
       /\ f \in analysis[a].todo
       /\ place' = [place EXCEPT ![f] = IF @ = Dir THEN batch[a] ELSE @]
       /\ claimed' = [claimed EXCEPT ![a] = @ \cup {f}]
       /\ analysis' = [analysis EXCEPT ![a].todo = @ \ {f}]
  /\ UNCHANGED <<engineVars, turnEndCh, done, collectorVars, workerVars, batch, analysed>>

(* In the order of their names; a file that is no longer there is skipped. *)
Claim(a) ==
  /\ analysis[a].step = "claim"
  /\ \E f \in Ids :
       /\ f \in analysis[a].todo /\ \A g \in analysis[a].todo : f <= g
       /\ analysis' = [analysis EXCEPT ![a].todo = @ \ {f}]
       /\ \/ /\ place[f] = Dir
             /\ place' = [place EXCEPT ![f] = batch[a]]
             /\ claimed' = [claimed EXCEPT ![a] = @ \cup {f}]
          \/ place[f] # Dir /\ UNCHANGED <<place, claimed>>
  /\ UNCHANGED <<engineVars, turnEndCh, done, collectorVars, workerVars, batch, analysed>>

(* When all is claimed.  A goroutine with the same batch may have removed  *)
(* it meanwhile; with nothing to read, this one is over.                   *)
ReadFiles(a) ==
  /\ analysis[a].step = "claim" /\ analysis[a].todo = {}
  /\ LET fs == {f \in claimed[a] : place[f] # Gone} IN
       analysis' = [analysis EXCEPT ![a].read = fs, ![a].step = IF fs = {} THEN "over" ELSE "query"]
  /\ UNCHANGED <<engineVars, turnEndCh, done, collectorVars, workerVars, claimVars, analysed>>

(* The model reads the analysis file and then calls file_write, or does    *)
(* not, and the files stay in the batch directory.                         *)
Query(a) ==
  /\ analysis[a].step = "query"
  /\ \/ analysis' = [analysis EXCEPT ![a].step = "write", ![a].base = analysed[SkillOf(a)]]
     \/ analysis' = [analysis EXCEPT ![a].step = "over"]
  /\ UNCHANGED <<engineVars, turnEndCh, done, collectorVars, workerVars, claimVars, analysed>>

(* A call of file_write counts whether it succeeds or not.  It writes all  *)
(* of the file.                                                            *)
Write(a) ==
  /\ Go(a, "write", "clean")
  /\ \/ analysed' = [analysed EXCEPT ![SkillOf(a)] = analysis[a].base \cup analysis[a].read]
     \/ UNCHANGED analysed
  /\ UNCHANGED <<engineVars, turnEndCh, done, collectorVars, workerVars, claimVars>>

RemoveBatch(a) ==
  /\ Go(a, "clean", "over")
  /\ place' = [f \in Ids |-> IF place[f] = batch[a] THEN Gone ELSE place[f]]
  /\ UNCHANGED <<engineVars, turnEndCh, done, collectorVars, workerVars, claimed, batch, analysed>>

Analyse(a) ==
  \/ checkSkillThreshold(a) \/ TriggerSkillAnalysis(a) \/ ListFiles(a)
  \/ Claim(a) \/ ReadFiles(a) \/ Query(a) \/ Write(a) \/ RemoveBatch(a)

Work == TakeTurnEnd \/ saveSkillExecutionMD \/ Exit

Next ==
  \/ StartTurn \/ CallSkill \/ CallWorkflowComplete \/ AddMessage \/ Compact \/ ResetEngine
  \/ EndTurn \/ HandleTurnEnd \/ Stop
  \/ Work
  \/ \E a \in Ids : Analyse(a)

(* The goroutines of engine and worker run; a model may take its time.     *)
Fairness == WF_vars(HandleTurnEnd) /\ WF_vars(Work)

Spec == Init /\ [][Next]_vars /\ Fairness

-----------------------------------------------------------------------------
(* Properties.                                                             *)

(* The collector's three pieces of state agree, whoever calls it in what   *)
(* order (engine, worker, analyses): a workflow that is active has a last  *)
(* record that is open, and no other record than the last is open.         *)
RecordsCoherent ==
  /\ activeWorkflow # NoSkill =>
       executions[activeWorkflow] # <<>> /\ ~Last(executions[activeWorkflow]).completed
  /\ \A k \in Skills : \A i \in 1 .. Len(executions[k]) - 1 : executions[k][i].completed

(* A file begins with the message its record was started at, although the  *)
(* indices are used later, on a copy of a history that resets and          *)
(* compactions replace.  Exception: a turn end still queued when a reset   *)
(* or compaction was followed by a skill call is matched with that call.   *)
SliceExact ==
  \A f \in Range(files) : f.seen >= f.epoch => Head(f.msgs) = f.first

(* "No file is processed twice" (TriggerSkillAnalysis): goroutines that    *)
(* list the same files claim different ones.                               *)
ClaimedOnce ==
  \A a, b \in Ids : a # b => claimed[a] \cap claimed[b] = {}

(* The engine gets rid of the end of a turn, though the worker holds only  *)
(* QueueCap of them: it never waits for a model or for a record.           *)
TurnHandedOver == turn = "end" ~> turn = "idle"

(* Stop returns, whatever the analyses are doing.                          *)
StopReturns == done ~> worker = "exited"

=================================================================================
