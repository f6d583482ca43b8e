# Verification of jekylan

jekylan is an agent runtime in Go: a conversation engine that runs an LLM with
tools, and a coordinator that runs sub-agents beside it. This directory holds
TLA+ models of its concurrent core, the TLC configurations that check them and
TLAPS proofs about them. Paths below are relative to the repository root
(`internal/...`).

1. Inventory of the system
2. Modules, and how they correspond to the code
3. Runs: what each checks, bounds, fairness
4. Findings
5. Proofs
6. Model-checked only, and not modelled
7. Plan

## 1. Inventory

| Component (code) | State | Operations | Interacts with | Hard behaviour | What makes it correct |
|---|---|---|---|---|---|
| Coordinator (`agent/coordinator.go`) | registry, kept results, pending approvals and their order, waiters, usage, notices | Spawn, Kill, Wait, Get/List, Confirm, HasPendingConfirm, Stop; reports of ends and of approval requests | one loop goroutine, requests over a buffered channel; callers block on response channels; per agent a runner, a forwarder and a consumer | ends, kills and Waits race; approval requests and the end of an agent are not ordered; channels of 16, 4 and 256 | no waiter forgotten, registry exact, one outcome per run, approvals not lost, usage counted once |
| Runner (`agent/runner.go`) | query loop of a sub-agent, its tool calls, its confirm channel | run, ask for approval, return a result | LLM query, coordinator, transcript of the parent engine | cancellation at any wait, parallel tool calls | a cancelled run ends, its end is reported once |
| Engine (`engine/engine.go`) | history, usage, the turn's cancel function | Turn, Notify, AddUsage, Interrupt, Reset, Messages, TotalUsage, Stop | one loop goroutine over a channel of 64; the query goroutine in a turn; the client that reads a turn's events | commands dropped in a turn or at a full channel; interrupts and stops at any moment | requests well formed, history in step with the query's, turns end, stale interrupts harmless |
| Session file (`engine/session.go`) | one JSON file | save, load, clear | written by the REPL's goroutine, cleared by the engine's | crash between truncation and write | never ahead of the history, gone after a reset |
| Query (`query/query.go`) | its own copy of the history, turn count | compaction, request, fallback, recovery, tools | LLM client, tools, engine through an unbuffered channel | limits, cancellation between any two steps | tool calls always answered |
| Stream parser (`query/stream_parser.go`) | the blocks being assembled | one step per stream event | providers' event dialects | interleaved blocks, ids that are missing | the message holds what was streamed |
| Compaction (`compact/`) | failure counter | snip, micro, auto, session-memory compaction | query | cut between tool call and result, failure | pairs kept together, history below the threshold |
| Engine driver, REPL (`agent/engine_driver.go`, `cli/repl.go`) | input and output channels, running flag | start, stop, one turn per line, `/reset`, `/stop`, `/quit` | engine, session file | usage asked for while the turn ends; stop in a turn, or from another goroutine | never hangs, never sends on a channel it closed, saves after each turn |
| Coordinator mode (`cmd/jekylan/main.go`) | the line at the prompt, who closes what | words of approval, commands, signals, the forwarding of notices, the deferred stops | driver, engine, coordinator; five goroutines over six channels | words typed while agents ask, end and are killed; lines typed behind `/quit`; four goroutines stopped in turn | a word reaches the agent that asked, the prompt comes back, `/quit` ends the program |
| Playbook parser (`playbook/parser.go`) | none | a Markdown list becomes a plan | executor | indents, blank lines and text between items | every item a step or a property of the step it stands below |
| Playbook executor (`playbook/executor.go`) | variables | sequential and parallel phases, sub-plans | Spawn, Wait, Kill of the coordinator | a step fails while others run | a failed plan leaves no agent behind, variables come from completed steps |
| Memory worker, skill collector (`memory/`) | queue of turn ends, records of executions, active workflow, execution files, analysis files | turn end, skill invocation, saving, claiming and analysing files, Stop | engine, its own queries, file watcher | four goroutines share the records; indices into a history that is compacted; analyses at once | records agree, a file holds the right range, no file claimed twice, nobody waits for an analysis |
| Tools (`tool/`) | read state of files | 11 tools | query, files, processes | two edits in parallel tool calls | no edit over an unseen change |
| Providers, config, skills, prompts, recall | none that changes, or files | I/O and formatting | | | |

`PROJECT.json` lists the components with their status, and the hazards at their
lines: what goes wrong there only in an order no test was written for.

## 2. Modules

| Module | What it is |
|---|---|
| `Coordinator` | coordinator, runners, forwarders, consumers, callers |
| `AgentService` | what Spawn/Wait promise, abstractly; `Coordinator` implements it (`ServiceSpec`) |
| `MCCoordinator` | symmetry and the statements refuted by runs |
| `CoordinatorProofs` | `TypeOK`; the inductive safety invariant proved, and three properties from it; the approvals, for tool calls one at a time; the usage accounts exact; `AgentService` implemented |
| `CoordinatorREPL` | the program in coordinator mode: main, driver, REPL loop and helper goroutines, with engine and coordinator as they see them |
| `CoordinatorREPLProofs` | its types, that nothing panics before somebody stops, that words of approval reach the agent that asked |
| `Engine` | engine loop, query goroutine, REPL loop, session file |
| `EngineProofs` | the order of commands, stale interrupts, requests, histories and session file proved |
| `PlaybookExecutor` | playbooks over `AgentService`, the lock of agent creation, the engine's tools |
| `PlanParser` | `ParsePlan`, and what a list means to its author |
| `MCPlaybookExecutor` | the documents of the run's playbooks, and all small ones for the parser |
| `PlaybookProofs` | the parser proved, for documents of any length; the executor proved: variables, agents, success, lock |
| `Compaction` | the compaction pipeline over histories with contents |
| `DialogueLog` | the log of an execution, made of its messages |
| `CompactionProofs` | the pipeline and the log proved: results, recent contents, the tail, the log |
| `MemoryWorker` | memory worker, skill collector, watcher and analyses |
| `MCMemoryWorker` | its instance |
| `MemoryProofs` | claims, records and execution files proved |
| `StreamParser` | one request: the provider's answer, the client's events, the parser that builds the message |
| `StreamParserProofs` | the message proved to be the answer, for answers of any length |
| `FileState` | the file tools, the tracker they share and the user's editor |
| `MCFileState` | its instance: one file under three names |
| `FileStateProofs` | `TypeOK`, and that unread changes are kept |

### Coordinator

A variable keeps the name of the field it stands for: `agents`, `completed`
(completedAgents), `pendingConfirms`, `pendingConfirmOrder`, `waiters`
(waitChs), `totalUsage`, `nextID`, `notices`; `events` is the request channel.
`Call` is the caller's half of every public method, blocking when the channel
is full; each `handleX` is the loop's handler of that name, taking the head of
`events`. The runner is a small automaton (`RunnerStates`): asking the parent
engine for a transcript, waiting for the LLM or for tools, holding a result,
closed. `Forward` is the goroutine that moves approval requests to the loop,
`Report` the consumer that sends the end of the run; they are not ordered with
each other, as in the code. Status strings, messages and results are reduced to
the outcome of a run. One reply of the LLM costs one unit of usage.

The operation `"agent"` is a spawn by the agent tool: its runner first asks the
engine for the transcript. Whether the engine answers is a choice
(`Transcript`): an engine in a turn drops the request, which `Engine` shows in
detail (`TurnDrop`, reader `"wait"` for ever).

### CoordinatorREPL

`Coordinator` and `Engine` each have one component in detail; this module has
the program around them (`runCoordinatorREPL`, `EngineDriver`). It keeps of the
engine how far its loop is, its command channel and the event channel of its
turn, and of the coordinator the agents, the requests on their way and
`pendingConfirmOrder`; both change by the same rules as in the detailed modules,
in coarser steps.

`main` says where the main goroutine waits: at the prompt (`read`), in Confirm,
at the unbuffered `inputCh` (`send`), for the driver's `doneCh` (`await`), or in
one of the deferred stops. `repl` is `runEngineLoop`; what it waits for is the
guard of its next action. `driverLoop` and `driverEvents` are the event loop of
`EngineDriver`, `stopper` the calls of its Stop by goroutines besides main.
`Drain`, `CloseReadline`, `Notify` and `Signal` are the small goroutines of
`main.go`. A send on a closed channel sets `panicked`, after which nothing
happens. A word of approval is read and matched with the head of the queue in
one step and answered in another (`ReadWord`, `Confirm`); between them the
coordinator goes on. A typed line is one of a few kinds, and any number of them
may come. Texts are counted, not kept: what is printed is no part of the model.

`repl.go`, the prompt without a coordinator, is in `Engine` only, as the
goroutine that submits turns.

### Engine

`cmdCh` holds commands, each with the number of the last turn submitted when it
was sent. `loop` says where the goroutine is: in the range over `cmdCh`, in
`runTurn`, draining after a stop, or gone. The actions named `Idle...`,
`reset`, `Answer...` are the cases of `loop`; `TurnInterrupt`, `TurnNotify`,
`TurnUsage` those of `runTurn`, and `TurnDrop` its missing default.
`handleQueryEvent` takes an event of the query and hands one to the client;
the several events the code may put there for one of the query are one here.

The query goroutine is `query`: at the top of its loop, in a request, before
its tools, or done. `events` is what it has yet to hand over on its unbuffered
channel; it goes on when that is taken, so its own history `qmsgs` may be ahead
of `messages` by exactly those events. The driver is `RunREPL` or
`runEngineLoop` (`AsksUsage` tells them apart).

A message is its kind. `results` with the prompt merged into it stays
`results`; `memory` is what `injectRelevantMemories` adds to the query's copy.
Role system (notices, the compaction boundary) is left out of requests by both
LLM clients. Compaction may fire at any request, and may keep any tail whose
results come with their tool calls, which is what
`adjustIndexToPreserveAPIInvariants` ensures; an empty tail is the legacy
compaction.

A crash keeps nothing but the session file. `SaveSession` takes the copy and
truncates, `WriteFile` completes the file; a file that is not complete fails to
parse and the new process starts empty. The user may discard what was loaded,
a `reset` that comes before the first turn.

`HostStops` separates a host that may stop the engine at any time (the
`EngineDriver.Stop` of an embedding program) from `main.go`, which stops it
when the REPL is done.

### PlaybookExecutor

The executor only knows `Spawn`, `Wait` and `Kill`, so it is modelled over
`AgentService` instead of the coordinator itself: `phase`, `result`, `kept` and
`wait` are the variables of that module, and every step that touches an agent
is an action of it. `Coordinator` is shown to implement `AgentService`
(`ServiceSpec`), which is what makes this composition meaningful. `AgentService`
does not know kills; `killed` holds the running agents whose context was
cancelled, and only such an agent ends as `"killed"`. It may still end
otherwise, because its report can be on its way.

A run is one `/playbook` command: `stage` is how far its goroutine in `main.go`
is, `stack` the calls of `executePlan` it is in, one frame each with the phase,
the ids spawned in it, how many are dealt with and the first error
(`firstErr`, by its origin). A sequential phase alternates `spawnStep`, `Wait`
and `StepOver`; a parallel one spawns all first. Values of variables are the
agents they came from. What a playbook executes is what `ParsePlan` makes of one
of its documents (`PlansOf`); one without steps is refused. The steps of the executor that run without
touching shared state between two calls of the spawner are one action; a loop of
kills is one action, since nothing is read between them.

The turn of the engine is here only as far as it concerns the lock: it takes the
tools at its start, and the agent tool checks the flag and then spawns, in two
steps. In playbook mode the tools are not swapped, which is `FilterTools` and
`RestoreTools` without effect.

### PlanParser

A document is a sequence of lines, a line an indent and a kind: numbered item,
bullet, bullet that reads as a property, other text, or empty. `ParsePlan` is
the code's recursion over indents, with `childEnd` and `childItems` its two scans.
`parseStepNodes` is a recursive function on lines, since the code's loop and its
calls for a sub-list go on at a later line only, and so is `buildExecutionPlan`, which
adds one step after the other (`AddStep`). `PlanFaithful` is the reference: it looks
at all steps of a plan, level by level (`StepsOf`), and at the layout, where the
parent of an item is the nearest item above it that is indented less (`Above`). It
holds of every document for what is in the plan, and of regular
documents (`Regular`) for what must be in it. Irregular ones lose steps in the
code: below a step that has a property and a sub-step, `prompt: x` becomes a
step of agent type `prompt`; items below a property are dropped; a text line
shallower than the list of sub-steps ends it before it begins; a document whose
list is indented as a whole has no steps at all.

### Compaction

`Engine` lets compaction keep any tail that separates no result from its call.
`Compaction` is the pipeline itself (`runCompactionPipeline`), over messages
with contents: the calls a message makes, the results it carries, which of
these are cleared, whether it has text, and the usage a reply reports. Calls are
numbered as they are made, and `eligible` holds those of the tools in
`compactableTools`. `messages` is the engine's history, `msgs` the query's:
microcompaction changes the second only, auto-compaction both. Tokens are
counted in units, one for each text and call and `ResultSize` for a result with
content; `Overhead` is what usage counts besides messages (system prompt, tools).
Loops that walk the history backwards until a condition holds are the greatest
index for which it does; filters and sums are recursive functions, so that facts
about them can be proved. Whether the gap since the last reply is long enough,
whether a session memory exists and whether the summary fails are choices.
Two branches of the code have no counterpart because nothing reaches them:
`lastSummarizedMessageID` is set by tests only, and replies do not share a
`ResponseID`, as the stream parser makes one message of a response.

The turn around the pipeline is reduced to what changes the history, and nothing of
that is left out. At its start the prompt joins a last message of role user or
follows it, and `injectRelevantMemories` may put a message of memories before the last
one of the query's copy, so between calls and the results that the prompt was merged
into. `Notify` adds a message of role system to the engine's history at any moment, so
between calls and results too, and hides calls from the repair. Auto-compaction hands
the query's history to the engine: with the memories, without the notices of the turn.
`InvokeSkill` is a skill call in the stream of a reply: `start` is the place from which
the execution is recorded, the last message there is then (`engine.go:381`), which may
hold results whose calls are before it. `Recorded` is what `saveSkillExecutionMD` logs
from there. How records end and are matched with histories is in `MemoryWorker`.

### DialogueLog

An analysis sees no messages but the log of them (`CompactMessages`), so what the
log drops is lost. It is a function of messages as `Compaction` has them and of
`kind`, which stands for the tests of contents (`isSkillDocumentation`,
`isExploratoryOrShortResult`, the markers of a batch): the property holds for
every assignment of kinds to calls. `mergeRepeatedToolResults` is modelled with
what it does, not what its name says: unlike results are merged too, and only
the first is kept. Names, dates and the cleaning of texts are left out.
`Compaction` checks it on every range of the history that a skill execution records.

### MemoryWorker

Four kinds of goroutine meet in the skill collector: the engine's loop calls
`OnSkillInvocation` and `Reset`, the worker `OnExecutionResult` and
`GetCompletedRecords`, an analysis `TakeRecordsForAnalysis`; each is one step, as
each holds the mutex. `executions`, `pending`, `activeWorkflow` and `turnEndCh` are
the fields of these names. A message is the number under which it came into being,
so that a range of indices can be compared with what it was meant to be: a record
remembers in `first` the message it was started at, and `epoch` counts the
histories (a compaction and a reset begin a new one). These two are history
variables; only the bound `MaxResets` reads one of them.

`TakeTurnEnd` is `handleTurnEnd` up to the list of completed skills, and each
`saveSkillExecutionMD` one turn of the loop over it, since the records are read
again for each. A file is a number, in the order of its name, and the goroutine the
watcher starts for it (`Watch`) has the same number. It goes through `analysis[a].step`:
count the files, take the records, list, claim one file after the other, read what
is there, ask the model, write, remove the batch directory. `place` says where a
file is; `batch` is the directory a goroutine claims into, possibly that of
another goroutine of the same second. `analysed` is what the analysis file of a skill
covers: the model reads it (`base`) and writes it whole. The watcher's missed
events (a file that is written before its new directory is watched) are a choice.

Left out: a file the goroutine reads before it is written, which then counts as
empty; errors of the file system; `Snapshot` and `Restore` with the session;
`CompactAnalysis`, which one more goroutine would call.

### StreamParser

`Engine` takes a reply as one step; this module is what happens in it. The
provider's answer (`answer`, `open`, `sent`) is a sequence of blocks that may be
cut anywhere, in one of three dialects: Anthropic's, where blocks are opened and
closed by events, OpenAI's, where they are not and the id of a tool call comes
with its first piece only, and the same with ids in every piece. The actions from
`MessageStart` to `LastEvent` are the cases of the two `sendEvent` functions.
`ch` is the unbuffered channel: the client's goroutine is blocked while it holds an
event, and the loop of `Query` takes it (`Takes`) unless its context is over by
then (`Abort`). `sp` is the `streamParser`, field by field, with `out` for the
events it reports to the engine; each `On...` is a case of `process`, `StreamOver`
is `flushOpenAI` and `finalizeAssistantMsg`.

A delta of text or thinking is the number of its event, so that an order can be
told; the JSON of an input has an opening and a closing piece, possibly in one, and
anything else is `"bad"`, which does not parse. Signatures, response ids, stop
reasons and times are left out, and so are events that are not sent by the clients.

### FileState

A tool call is its system calls: `file_read` reads the file, looks at its time
(`Restat`) and records it (`RecordRead`); `file_write` looks whether the file
exists, asks the tracker twice (`GetState`, `Check`), writes and records;
`file_edit` reads the text first and looks at the time after `GetState`
(`EditStat`). Between any two, other calls and the user run. `states` is the
tracker's map; it is keyed by names, so `File` says which file a name denotes and
`Clean` what `filepath.Clean` makes of it: `file_read` does not clean, the other two
do. A text is the set of changes it contains, and `unread` remembers those that the
user saved and no call has read. The clock may stand still between two changes,
as times of modification do on some file systems.

Reading and writing a file is one step each. Permissions, directories, ranges and
the search of `old_string` are data: which change an edit replaces is a choice, and
so is its failing (`Fail`).

## 3. Runs

| Run | Question | Result |
|---|---|---|
| `lifecycle` | two agents that ask for approval one tool call at a time, two callers that spawn, wait, confirm and kill | all hold, `AgentService` implemented |
| `live` | all methods, every channel of capacity one, fair goroutines | all hold |
| `repl` | any number of lines, commands, signals and approvals, every channel of capacity one, a Stop of the driver from elsewhere | all hold |
| `engine_turns` | two turns, one call of another goroutine or reset, a stop at any time, one crash | all hold |
| `engine_live` | one turn with a reply cut at the token limit, one call, a stop | all hold |
| `playbook` | every document of up to four lines for the parser; playbooks of six shapes, failing agents, spawns and sub-plans, `/stop-agent`, a second playbook, the agent tool | all hold |
| `compaction` | three prompts, two replies and three calls, with memories and a notice at any moment, compacted in every way | all hold |
| `memory` | two turns that call two skills, one in workflow mode, a compaction or reset, a stop at any time, two analyses at once | all hold |
| `stream` | answers of three dialects with three blocks and nine events, cut at any event, with errors, cancellations and a fallback model | all hold |
| `files` | three calls of two callers on one file under three names, two saves or removals by the user | all hold |
| `parallel_confirm`, `cancel_stuck` | claims about the coordinator | refuted, section 4 |

What the properties say is written above each of them in the modules. In short:

- `NoForgottenWaiter`, `EndOnTheWay`, `OneOutcome`: a caller in Wait is always
  in the channel or registered with an agent whose end is still to be handled;
  the registry is exact; every answer, kept copy and queued report carries the
  one outcome of the run. `SafetyInv`, which the proofs rest on, adds that the
  channel holds no second report or request (`ChannelSound`).
- `UsageConserved`: each completed run is counted once, and the engine is told
  the same. (What a run reports is too little: only its last reply, and nothing
  for a failed run, which is a hazard without a property.)
- `ConfirmQueueCoherent`, `RequestHeld`: queue and map of pending approvals
  agree, and a tool call that waits can still be answered.
- `ServiceSpec`: refinement of `AgentService`, by the mapping at the end of
  `Coordinator`.
- `KillEffective`, `WaitReturns`, `CallsAnswered`: liveness while the loop runs.
- `PanicOnlyWhenStopped`: four goroutines send to channels that others close.
  Before main has begun to stop the engine none of them meets a closed one, and
  the REPL's goroutine never does, unless another goroutine has called
  `EngineDriver.Stop`. The panics that are left are the code's (section 4).
- `WordReachesAsker`: the word typed at the prompt answers the tool call whose
  request was first in the queue, whatever the coordinator handles between the
  look at the queue and the answer, unless that agent is over.
- `MainReturns`, `QuitExits`: main is not left waiting for the driver, the engine
  or the coordinator, and `/quit` ends the program, but for the three hangs named
  in `Hangs`: the usage that a turn never answers, a line typed behind `/quit`,
  and a Stop from elsewhere before the driver has started.
- `RequestPaired`: tool calls and results of every request belong together,
  after interrupts, limits, stops, restarts, compaction and notices. Two
  exceptions are part of the statement because the code has them: memories in
  between (section 4) and tool calls without results in a
  restored session when a notice arrives before the next prompt, which
  `repairOrphanToolUses` then does not see.
- `HistoryAgrees`: engine and query keep one history, up to events not yet
  taken, notices and memories.
- `InterruptFresh`: an interrupt cancels only a turn submitted before it.
- `SessionCurrent`: at the prompt a complete session file is a prefix of the
  history, so a crash brings back nothing that was reset.
- `AgentsAccounted`: a playbook leaves no running agent behind that was not
  killed, and a failed agent stops its parallel phase. `SuccessMeansCompleted`: no
  failure in any sub-plan is reported as success. `VarsFromCompleted`: variables
  are results of completed agents, and Wait never answers nil to the executor.
- `ParserFaithful`: every document is read as its author meant it (`PlanFaithful`,
  above): a step in the wrong place would run below another, or at the wrong time.
- `LockExact`: lock and tools follow the playbook exactly, as long as playbooks
  do not overlap. When they do, the first to end clears `playbookRunning`
  (`executor.go:53`) and puts back tools of its own; listed as a hazard.
- `ExecuteReturns`: a started playbook ends and restores the tools if its agents
  end. That they do is the hypothesis of the property and not a fairness
  condition, since an agent may wait for the user's approval for ever.
- `ResultsHaveCalls`, `KeepsShortestTail`: no cut, repair or merge leaves a result
  without its call, though notices and memories stand between the two and the index
  has to move back over them, and session-memory compaction keeps the shortest tail that is
  long enough and closed under calls, or everything. This is what `Engine` relies
  on. `RecentResultsKept`: the last `KeepRecent` results of listed tools survive
  any sequence of clearing, cutting and new calls. (Summaries may pile up: a kept
  reply still reports the usage of the history it answered, so a compacted history
  can be compacted again at once.)
  `TypeOK` of this module says in passing that the circuit breaker never opens:
  the failure counter belongs to the query, which the first failure ends.
- `LogTellsAll`: the log of an execution tells of the range it records every reply
  and every result that is not noise, once and behind its call. The merging of unlike
  results, which would lose some, never fires, because no sequence of turns, repairs,
  merged prompts, notices, memories and compactions puts two messages with results next
  to each other. Two losses are the code's, and exceptions of the property: the range
  may begin with results whose calls are before it (`engine.go:381`), and a turn that
  ends after its tools leaves results into which the next prompt is merged, where the
  log of that message is the prompt only (`compaction.go:58`).
- `TurnEnds`, `StopReturns`: liveness of a turn and of Stop.
- `RecordsCoherent`: records and active workflow agree whatever the order of engine,
  worker and analyses. `SliceExact`: an execution file begins with the message its
  record was started at, although the index is used later on a copy of a history that
  compactions and resets replace. Its exception is in the code: a turn end that is
  still queued when a reset or compaction was followed by a new call is matched with
  that call (`f.seen < f.epoch`).
- `ClaimedOnce`: analyses claim different files. `TurnHandedOver`, `StopReturns` of
  `MemoryWorker`: neither the engine's loop, whose turn end may find the queue full,
  nor Stop waits for an analysis.
- `MessageFaithful`: whatever the order of blocks, the cutting of their pieces and the
  place where the answer ends, the message holds the blocks of an Anthropic answer
  one by one, and the text and the calls of an OpenAI one, each call with its whole
  input and no other's; what the engine was told agrees with it. For the calls of
  OpenAI this needs ids in every piece (section 4).
- `UnreadChangesKept`: a change that the user saves at a new time stays in the file
  until a call has read it or the user takes it out, whatever was recorded since,
  by whom and under which name. It does not speak of changes made at the time of the
  change before, nor while a call is between its look at the time and its write
  or between its read and its look (`AtRisk`): those the tools can lose.

**Bounds.** Coordinator: two agents are needed for the order of approvals and
for a wrong id, two callers for two Waits on one agent and for a Wait against a
Kill; a third of either adds no new pair. One LLM reply per run, with one call
that needs approval. Channel capacities of one are below the program's, which
makes full channels common; the proofs cover every capacity.
Coordinator mode: nothing bounds lines, signals and approvals, so that the loops of
the program are loops of the model. One agent and one foreign Stop; the order of
two agents in the queue is that of `lifecycle`, and of the proof of
`WordReachesAsker`, which covers any number. `/reset` and an empty line are not
among the lines of the run: they take the paths of `/stop` and of a prompt that ends.
Engine: two turns, because a stale interrupt, a merged prompt and a repair need
an earlier turn; `MaxTurns = 1`, so that the limit is met after one round of
tools; an event channel of one slot, so that the loop blocks on it; a crash after
a stop gives a session with orphaned tool calls. `MaxExt = 1`: one call of
another goroutine or one `/reset` at any moment. The same instance with two
calls (24 million states) also holds, and takes longer than a regular run should.
`MaxCuts` bounds replies cut at the token limit; nothing in the code does, and
with the providers in the repository this path never fires, because they report
`max_tokens` and `length` where `query.go:388` compares with `max_output_tokens`.

Playbooks: at most three agents, so that a parallel phase has one before and one
after a failing one, and a sub-plan runs beside another agent. The second
playbook fails at its first spawn: it is there for the lock and the tools, and
shares nothing else with the first. `ToolCap = 1`: one spawn of the agent tool.
Parser: documents of up to four lines with three indents, 30,941 of them. Four
lines hold a step with two levels below it and a line of text or a blank one between
any two; three indents are a list, its sub-list and text between. For longer ones
there is the proof.

Compaction: three calls, because one is kept (`KeepRecent = 1`), one cleared and
one made after a cut; three prompts, so that a compacted history is compacted
again after a failed request. Two replies and one notice put a call, a memory or a
notice, and the results of the call in this order before a cut, so that its adjustment
moves back by two messages (an adjustment by one at most is the mutant of
`ResultsHaveCalls`), and a second call behind them. The limits are a few units apart, so
that every branch is met: tails that are long enough by tokens or by texts or not at
all, results too large for session memory, histories over the blocking limit only. The
proofs are for any number of everything.

Memory worker: two skill calls give two files and two goroutines, which is what
claiming, a shared batch directory and a lost analysis take; `Threshold = 1` lets the
first file start an analysis while the second is written. `QueueCap = 1` with two
turns makes the engine wait for the queue. One message besides prompts and one reset
or compaction, at any moment, give every offset between an index and its history.
The proof of `ClaimedOnce` covers any number of files and goroutines.

Stream parser: three blocks, because a call may stand between two others, and nine
events, enough for three calls in two pieces each with the events around them; an
Anthropic answer of three blocks is cut at its ninth event or is short of deltas,
one of two blocks is whole. Files: three calls and two saves give a read, an edit and
a write with a save before and after any step of them; two of the three names clean
to one, the third is not the same to the tracker. The callers are symmetric. The
proofs of `FileState` cover any number of all of these.

**Fairness.** Goroutines run: weak fairness of the loops, runners, tool calls,
query and REPL. An LLM request returns or fails, and tools return; the code
gives both a context and HTTP client but no deadline, so this is assumed. Senders
blocked on a full channel are served in order by Go, hence strong fairness of
`Forward` and `Report`. Nothing obliges a user to type, approve or interrupt, a
host to stop, or a caller to call. Liveness excludes runs where the loop was
stopped, and where the model knows the code hangs: the exceptions are named in
the properties (`runner = "stuck"`, `driver = "usage"`, `Hangs`). In
`CoordinatorREPL` main, driver, REPL, engine and helpers are weakly fair; sends
that wait for room in `cmdCh`, which signals and notices fill again and again, are
strongly fair because Go serves blocked senders in order; and so is the end of the
query in a turn, because the turn's `select` picks at random among what is ready.
The user need not type, and agents may run for ever. In `MemoryWorker` only the
engine's handover and the worker are fair: analyses ask a model and may take for ever.

**Deadlock** is checked in `lifecycle`. The other configurations
allow the system to stop: after Stop, after the end of input, after a panic, or when
an answer or the bounded calls are over.

## 4. Findings

| Run | What the code does | What the repository says |
|---|---|---|
| `parallel_confirm` | two risky tool calls of one message: the second request overwrites the response channel of the first (`coordinator.go:480`), whose tool call waits until its context ends | `runner.go:100` "The consumer must send a response on RespCh." |
| `cancel_stuck` | a runner that asks an engine in a turn for its transcript never finishes, killed or not | `runner.go:237` "the run finishes (complete, error, or context cancellation)" |

Further disagreements are listed as hazards with notes; the models have them, and
their runs were given up for others. The driver asks for the usage when it reads
the result; if the engine has not left the turn it drops the request and the REPL
hangs (`engine_driver.go:173`; `engine.go:471` "It is safe to call from any
goroutine."). Two analyses of one skill read its analysis file and each writes all of
it: the first one's sections are lost, and its files removed (`memoryworker.go:186`
"Multiple concurrent triggers for the same skill are safe"); the check for stale
writes does not see it, as all tools share one tracker (`main.go:668`). Pieces of
an OpenAI tool call after the first carry no id, and `stream_parser.go:87` takes
such a piece for a call of its own: the first call loses its input, and one without
a name is made (`openai.go:205` says that the pieces come with an index). `main.go:195` stops the
engine before the coordinator, and a notice in between panics on the closed channel
(`engine.go:491` "It is safe to call from any goroutine"). Memories injected before a
prompt that was merged into tool results separate these from their tool calls
(`engine.go:271`). A skill called twice in a turn is saved twice from one record
(`memoryworker.go:325` "One file per execution"). Also: of two playbooks at
once the first to end unlocks agent creation (`coordinator.go:202`),
microcompaction clears results of tools that are not in its list
(`microcompact.go:12`), the circuit breaker of auto-compaction never opens
(`autocompact.go:210`), a second `Stop` of the
coordinator blocks, a request for approval that is handled after the end of its
agent is confirmed with true (`coordinator_test.go:464`), usage of all but the
last reply is not counted (`README.md:20`), two overlapping playbooks leave the
engine without the agent tool, a Wait registered before Stop is never answered, results
stay in `completedAgents` after delivery.

Of coordinator mode, all in `CoordinatorREPL`: main blocks at `driver.Input() <-
line` while a turn runs, so `/stop` reaches the engine only between turns
(the repository's `README.md:87`) and approvals wait with it; a line typed behind
`/quit` blocks main for ever. Notices are not printed by an idle engine
(`engine.go:227` against `main.go:393`), so a word may approve a request that was
never shown. `/reset` during a turn is dropped (`engine.go:519` says that it cancels
queries in flight). The driver's `outputCh` and `doneCh` are closed by the end of
`runEngineLoop` too, not by the event loop alone (`engine_driver.go:58`); a second Stop
at the same time may block (`engine_driver.go:75` "safe to call multiple times"), an
output after Stop panics, and the driver's loop stays behind when the REPL ends by
itself. The agent tool spawns with the context of the turn, so an interrupt also
cancels the agents spawned in it. `isCancelWord` compares the trimmed input with
`" deny"` (`main.go:789`), which it can never be.

## 5. Proofs

All proofs hold for every value of the constants allowed by the `ASSUME` of the
module (capacities positive, bounds natural numbers, `NoTool` no tool call).

**`CoordinatorProofs!TypeCorrect`**: `Spec => []TypeOK`. `TypeOK` alone is not
inductive: that a report carries an outcome needs to know that a runner which
is closed has one. `TypeInv` adds `RunnerLife`, which relates runner, outcome
and report of an agent.

**`CoordinatorProofs!SafetyCorrect`**: `Spec => []SafetyInv`. `NoForgottenWaiter`
says that a registered waiter's agent is still registered; to keep it, the
handler of an end must be known to handle a true, single end (`ChannelSound`),
the registry must hold an agent until then (`EndOnTheWay`), and a request in the
channel must be the only one of a caller registered nowhere (`ChannelSound`
again). The conjunction with the types is inductive. The lemmas `AfterTake`,
`AfterSend`, `SoundTake`, `SoundSend` say once what taking and sending do to the
channel; there is one lemma per kind of step (`SafeReply`, `SafeDone`,
`SafeWait`, `SafeCall`, `SafeSpawn`, `SafeAgentStep`), and `SafetyNext` joins
them. `WaitersKept`, `RegistryExact` and `ResultsAgree` are the readable
consequences. Nothing is assumed about the number of callers, agents and tool
calls, so the number two of the runs is no restriction for these properties.

**`CoordinatorProofs!ApprovalsCorrect`**, with `ApprovalQueueCoherent` and
`ApprovalsAnswerable` from it: if `OneAtATime`, then `Spec => []ApprovalInv`.
The condition, that a message asks for one risky tool call at most, is not a
convenience: with two the properties are false, which is what `parallel_confirm`
shows. `ApprovalInv` follows a request from the tool call to the answer:
it is in the runner's channel, on its way in `events`, or in the order, and in one of
these only (`OnePlace`); the order and the pending approvals name the same agents,
each once (`QueueExact`); and it is in one of them while the tool call waits
(`HeldWhileAsked`). `Without` says what `removePendingConfirmOrder` leaves.

**`CoordinatorProofs!UsageExact`**: `Spec => []UsageConserved`, by the cardinality of
the set of runs already reported; only `handleDone` changes it, by one agent.

**`CoordinatorProofs!ImplementsService`**: `Spec => ServiceSpec`. Every step is
mapped: a spawn, an end and a Wait's answer to the action of that name
(`ServiceSpawn`, `ServiceFinish`, `ServiceWait`), a call to the beginning of a
Wait or to nothing (`ServiceCall`), all others to a stutter (`ServiceStutter`).
`Inv` is needed for the end of a run, where the abstract module gives all waiting
callers the same result, and for the answer of a kept one. So what is proved of
playbooks over `AgentService` holds over the coordinator.

**`CoordinatorREPLProofs!NoPanic`**: `Spec => []PanicOnlyWhenStopped`, for any
number of agents, stoppers and any capacities. Unless a foreign Stop has begun
(which `StoppingStays` keeps), `ClosedInOrder` is inductive: the output is closed
only by a REPL that has ended, the commands only by a main that saw this. That a
REPL that has ended stays so needs two more facts: it is started once, while main
waits for it (`StartOnce`), and it is answered only when it has asked (`AskOnce`: at most
one request for the usage is under way, and only while it waits).

**`CoordinatorREPLProofs!WordsReach`**: `Spec => WordReachesAsker`, from `Approvals`:
no agent is twice in the queue, everybody in it or on its way to it has asked and was
not answered, and the agent main is about to answer is either still in it or over.
`WithoutRemoves` says what `removePendingConfirmOrder` leaves of a queue.
`TypeCorrect` gives the types, one lemma for each goroutine.

**`MemoryProofs!FilesClaimedOnce`**: `Spec => []ClaimedOnce`. That two goroutines
claim different files is not inductive by itself; the invariant adds that a claimed
file has left its skill's directory (`ClaimedGone`), with the types of `place`,
`claimed` and `batch`, from which a batch directory is never that of the skill. Only
three actions matter: `Claim` takes a file that is in the directory, so one nobody
has; `ListFiles` chooses the batch; `RemoveBatch` moves files away, never back.

**`MemoryProofs!FilesExact`** and **`CollectorCoherent`**: `Spec => []SliceExact`,
`Spec => []RecordsCoherent`. An execution file is cut out of a copy of the history by
an index that was taken on the history itself; between the two lie a queue, other
calls, resets and compactions. The invariant `SliceInv` says what an index means:
each record marks a message of the present history (`RecordsMark`), every copy, in
the queue or at hand, is of an earlier history or begins the present one
(`CopiesAgree`), a turn has its prompt (`PromptFirst`), and the two properties
themselves. One lemma per action that touches records, copies or history.

**`PlaybookProofs!ExecutorCorrect`**: `Spec => []ExecInv`, from which
`VariablesSound`, `NoAgentLeftBehind` and `SuccessSound` follow. `ExecInv` speaks of each
run, and of each frame of its call stack: which agents of a frame are still to be
waited for (`Due`), that such an agent is the run's own, due in one place only, and
once ended has its result kept for that Wait (`DueOnce`); how far a frame is
(`FrameOK`); that after a failed spawn everything due has been killed
(`SpawnFailureKills`); and that as long as no error is noted nobody is lost
(`NoneLost`). `LockCorrect` rests on `LockByStage`, which says what tools, saved
tools and lock are at each stage of the one playbook under way. Nothing is assumed of
plans, which may be of any size and depth: that a plan has phases, a phase steps, and
that a sub-plan is a plan again follows from the parser (`PlansWellFormed`).

**`PlaybookProofs!ParserCorrect`** and **`ParsedFaithfully`**: `PlanFaithful` holds of
every sequence of lines, whatever its length, indents and kinds; so
`Spec => []ParserFaithful`. First the recursion: the functions that the parser and the
reference define exist (`NodesExist`, from the last line backwards; `PlanExists`,
`LevelsExist`), so that their equations may be used. Then what they compute.
`NodesListed`: from a line on, `parseStepNodes` lists exactly the items of the list's
indent that no shallower line cuts off (`Siblings`), in order, since `childEnd` passes
over deeper lines only (`NextSiblings`). `Built`: `buildExecutionPlan` puts each step of
its list in a phase and a place which grow along the list, and starts a new phase
exactly where the kind changes (`Grouped`, `GroupedOrder`); `BelowIs` says this of one
level of a plan. `StepHas` and `StepsHave`: the steps of a plan are those at the top and
all those below one of them. With `OneParent`, no item is below two others by the
layout alone, this gives the first three parts. For regular documents, `ChildAbove`
says that what the parser puts below an item is indented under it; the converse needs
that no item below another is indented less than the first (`FirstIsOuter`) and that text
does not end a list early (`TextContinues`); then items and properties are found all
(`ChildItemsAre`, `ChildrenAre`, `PropsAre`), and the first step that is lost
would be below one that is not (`StepsFound`).

**`EngineProofs!InterruptsFresh`**: `Spec => []InterruptFresh`, from
`OrderCorrect`. `InterruptFresh` speaks of the turn and its cancellation only;
the invariant adds that the numbers along `cmdCh` never decrease and lie between
the running turn and the last one submitted. `SentLast` and `TakenFirst` are the
two facts about the channel; every action is a send, a take, a step that leaves
the channel alone, a submission or a restart.

**`EngineProofs!EngineCorrect`**: `Spec => []EngineInv`, with `RequestsPaired`,
`HistoriesAgree` and `SessionsCurrent` from it. Its parts, each needed for another:
a turn is submitted when the events of the last are taken (`OneTurn`); what the query
still has to hand over depends on where it goes on (`QueryRuns`); the history of
the engine, followed by what is to be handed over, is that of the query
(`HistoryAgrees`). `PairInv` is the core: in every history results follow their calls
(`Sound`), and calls without results stand only where the code leaves them, before a
note or at the end of a turn whose results are on their way (`Awaited`), while a
session loaded with unanswered calls (`Legacy`) may carry them on. `SessionInv` adds the
time in which the file is written. The filters of the histories (`Without`, `Compacted`,
`Spoken`, `CaughtUp`) are recursive functions, and facts about them go by induction.
The library's induction theorems take an operator, so the induction is done on
sets: a non-empty set of natural numbers has a least element (`Least`, from the
well-foundedness of `<`), hence a set that holds 0 and with each number the
next holds them all (`Induct`), hence functions defined step by step exist
(`Recursion`).

**`CompactionProofs!CompactionCorrect`**: `Spec => []CompactionInv`, for any
thresholds, any number of calls, prompts and replies and any `KeepRecent`. A
history is `Sound` if the results of a message are of calls of one message before
it, with no call and no result in between (`Paired`: what stands there is `Quiet`,
notices and memories), calls are made in the order of their numbers (`InOrder`), and
messages have the form the code gives them (`Formed`: calls in replies only, results
in messages of role user, which without text have some). `Paired` is stronger than
`ResultsHaveCalls`, and this is what makes it inductive: that a call is somewhere
before does not survive a cut. `Recent` is `RecentResultsKept` of one history.
`QueryRuns` adds that a query that runs has not failed to compact, and that while tools
run their calls end its own history and wait, behind nothing but `Quiet` messages, in
that of the engine (`Waiting`). `RangePaired` says the same of the range that is
recorded: it has the calls of all results but those of its first message; to keep it
when results come, their calls must wait within the range, so `Waiting` names its
begin. There is one lemma per action, from one per change of a history: a message at
the end (`SoundAppend`, `RecentAppend`), a prompt merged into the last
(`PromptAdded`), memories before it (`MemoryAdded`), results of waiting calls
(`ResultsAdded`), the repair (`Repaired`), microcompaction (`SoundMicro`: if a cleared
result was of a recent call, all recent calls would be after it), and a tail without
its boundaries (`SoundSelected`, `SoundSession`).
`ResultsPaired` and `RecentKept` are its consequences.

**`CompactionProofs!TailShortest`**: `Spec => KeepsShortestTail`. In a `Sound`
history the index moves back exactly if some result of the tail has its call before
the tail, and then to that call, over whatever stands between (`AdjustIs`): there is
one such message, as the calls of two never wait at once. A tail is closed exactly if
its results answer calls in it (`ClosedAt`), and a longer tail counts no less
(`EnoughGrows`, from the sums of `EstimateSums`); so the walk and its adjustment end at the greatest good index (`KeepIndex`).

**`CompactionProofs!LogComplete`**: `Spec => []LogTellsAll`, whatever the contents
of results. The range that is recorded is `Ranged` (`RecordedRanged`): its results are
in one place each, and but for those of the first message their calls are in it. So
messages with results never follow each other,
`mergeRepeatedToolResults` consumes one at most (`NoneMerged`), and the log is the
paragraphs of one message behind those of the other (`Blocks`, `LogBlocks`). Each
paragraph is in one block (`BlockOf`), whose form `Told` gives; `PromptsTold` is a
bijection of texts and paragraphs, `ResultToldOnce` finds the one paragraph of a
result and that of its call. What the recursive functions compute goes by the same
induction on sets of numbers as in `EngineProofs`; `Places` says what a filter keeps.

**`FileStateProofs!UnreadKept`**: `Spec => UnreadChangesKept`. The types
(`TypeCorrect`) are inductive by themselves. That a step keeps unread changes is
not: the invariant `Guarded` says that while a file holds one, there is a time `T`,
the time of that change, which is after every recorded time of the file's names and
not after the file's own, and which every call on the file respects (`QuietCall`):
none is writing or between its read and its look at the time, one about to record
holds an older time, and one about to be checked holds a time that no record equals.
`Numbered` says that changes are new when they are made, so that a call's own text is
never unread. A save without a call at risk establishes `T`, and `ToolGuarded` has one
step per action for keeping it; a call that would write the file fails at its check
(`ToolLeaves`). Nothing is assumed of callers, files and names but that cleaning a
name keeps its file.

**`StreamParserProofs!MessageIsAnswer`**: `Spec => []MessageFaithful`, from
`ParserKnows`, `Spec => []Inv`, for answers with any number of events and blocks.
`MessageFaithful` speaks of the end of a request only. The invariant says what the
parser must know at every moment before: its fields are what the events up to now say
(`Parsed`), all that were sent but the one on the channel (`Done`). The text, JSON
and open call in its fields belong to the last block, everything before it is in
`content`, and `out` agrees with both (`Reported`). For this the events have to make
sense: blocks are numbered, one of Anthropic starts once and ends before the next
starts (`Sound`), and the event on the channel is one that may come there (`Follows`).
So each action of the client is shown to send an event that follows, and each case of
`process` to know what that event adds: `StartEffect`, `DeltaEffect`, `StopEffect` and
`OutsideEffect` say what one more event does to the answer, `StartParsed`,
`DeltaParsed`, `StopParsed`, `ToolParsed`, `TextParsed` and `UsageParsed` what it does
to the parser. At the end of the stream `Flushing` says what is put into the message
from the fields, `AllBlocks` and `AllCalls` that this was all. What answer and content
hold are recursive functions (`FlattenSeq`), reasoned about by the same induction on
sets of numbers. The property itself says nothing of OpenAI's calls whose later
pieces have no id (section 4), and so neither does the theorem.

## 6. Model-checked only, and not modelled

Only TLC: all liveness, which needs fairness and ENABLED and is out of the prover's
reach. Every invariant and every action property of the runs is proved.

Left out: terminal I/O, prompts, wording, token counts, network protocols, file
contents, skill parsing, the text of playbooks. `SaveSession` reads the history without
synchronisation; the model copies at one moment, and a torn slice header (the
new length with the old array) is outside it. `PlaybookTool` is not
registered by `main.go`; its call of the executor is that of `/playbook` with
initial variables.

In `Engine` and `Compaction` the query and the engine keep an array each. After a
compaction the code has them share one: `query.go:278` sends the slice it keeps, and
`createCompactionResultFromSessionMemory` may leave room at its end (three messages
need an array of four). A notice that the engine appends before the next message of
the query then takes the same element, and one of the two overwrites the other. The
models exclude this, so what they say of histories holds as long as no notice comes
between a session-memory compaction and the next message; it is listed as a hazard.
Legacy compaction leaves no room.

## 7. Plan

In this order, the most important behaviour first:

1. Done: `Coordinator`, `AgentService` and their safety proofs; `Engine` with
   session and REPL; the first engine proof.
2. Done: `PlaybookExecutor` over `AgentService`, and `PlanParser` against a
   reference definition.
3. Done: `StreamParser` and the event dialects of the two clients. Next to it:
   empty messages never enter the history.
4. Done: `Compaction`, discharging what `Engine` assumes of a cut.
5. Done: `MemoryWorker` with `SkillCollector`, and the proof of `ClaimedOnce`;
   `FileState` with its proofs. Next `CompactAnalysis` and the collector's state in
   the session.
6. Done: `CoordinatorREPL` with the driver, and its proofs. Next the Stop of the
   coordinator in full (second Stop, waiters) and the runner's query channel.
7. Proofs. Done: `Coordinator` (types, waiters, results, approvals, usage,
   implementation of `AgentService`), `CoordinatorREPL`, `Engine`, `PlaybookExecutor`,
   `PlanParser`, `MemoryWorker`, `FileState`, `Compaction` and its log, `StreamParser`.
