------------------------------- MODULE Compaction -------------------------------
(***************************************************************************)
(* How the history is kept short: runCompactionPipeline of internal/query  *)
(* and internal/compact, over the turns of one engine.  Here messages have *)
(* contents: the tool calls they make, the results they carry and which of *)
(* those microcompaction has cleared.  Engine models the turns themselves. *)
(***************************************************************************)
EXTENDS Integers, SequencesExt, FiniteSetsExt, DialogueLog

CONSTANTS
  KeepRecent,     \* TimeBasedMCKeep
  MinTokens,      \* SMCompactMinTokens
  MinTexts,       \* SMCompactMinTextBlockMessages
  MaxTokens,      \* SMCompactMaxTokens
  AutoLimit,      \* getAutoCompactThreshold
  BlockLimit,     \* blockingLimit
  MaxFailures,    \* maxConsecutiveFailures
  ResultSize,     \* tokens of a tool result; other blocks count one
  Overhead,       \* tokens of a request besides its messages
  MaxCalls,       \* bound: tool calls in a behaviour
  MaxPrompts,     \* bound: prompts in a behaviour
  MaxReplies,     \* bound: replies in a behaviour
  MaxNotes        \* bound: notices in a behaviour

ASSUME CompactionAssumption ==
  /\ KeepRecent \in Nat \ {0} /\ MaxFailures \in Nat \ {0}
  /\ MinTokens \in Nat /\ MinTexts \in Nat /\ MaxTokens \in Nat /\ MinTokens <= MaxTokens
  /\ AutoLimit \in Nat \ {0} /\ BlockLimit \in Nat \ {0}
  /\ ResultSize \in Nat /\ Overhead \in Nat
  /\ MaxCalls \in Nat /\ MaxPrompts \in Nat /\ MaxReplies \in Nat /\ MaxNotes \in Nat

(* Tool calls are numbered in the order they are made.                     *)
Calls    == 1 .. MaxCalls
Messages == [role : {"user", "assistant", "system"}, mark : {"none", "boundary", "summary"},
             text : BOOLEAN, calls : SUBSET Calls, results : SUBSET Calls,
             cleared : SUBSET Calls, usage : Nat]

Message(role, text) ==
  [role |-> role, mark |-> "none", text |-> text, calls |-> {}, results |-> {}, cleared |-> {},
   usage |-> 0]
Prompt    == Message("user", TRUE)
Memory    == Message("user", TRUE)
Notice    == Message("system", TRUE)
Results(ids) == [Message("user", FALSE) EXCEPT !.results = ids]
Boundary  == [Message("system", TRUE) EXCEPT !.mark = "boundary"]
Summary   == [Message("user", TRUE) EXCEPT !.mark = "summary"]

VARIABLES
  messages,   \* the engine's history
  msgs,       \* the history of the query of the turn
  phase,      \* no turn, top of the query loop, request, tool calls
  start,      \* StartMessageIndex of the skill execution that is recorded, or 0
  tracking,   \* autoCompactTracking.ConsecutiveFailures
  eligible,   \* the calls of tools in compactableTools
  made,       \* calls made
  prompts, replies, notes

vars == <<messages, msgs, phase, start, tracking, eligible, made, prompts, replies, notes>>

TypeOK ==
  /\ messages \in Seq(Messages) /\ msgs \in Seq(Messages)
  /\ phase \in {"idle", "top", "llm", "tools"}
  /\ start \in 0 .. Len(messages)
  /\ tracking \in 0 .. 1 \* the first failure ends the query and its tracking state
  /\ made \in 0 .. MaxCalls /\ eligible \subseteq 1 .. made
  /\ prompts \in 0 .. MaxPrompts /\ replies \in 0 .. MaxReplies /\ notes \in 0 .. MaxNotes

Init ==
  /\ messages = <<>> /\ msgs = <<>> /\ phase = "idle" /\ start = 0 /\ tracking = 0
  /\ eligible = {} /\ made = 0 /\ prompts = 0 /\ replies = 0 /\ notes = 0

-----------------------------------------------------------------------------
(* Token counts.                                                           *)

RoughTokenCount(m) ==
  (IF m.text THEN 1 ELSE 0) + Cardinality(m.calls) + ResultSize * Cardinality(m.results \ m.cleared)

EstimateMessageTokens(s) ==
  LET total[i \in 0 .. Len(s)] == IF i = 0 THEN 0 ELSE total[i - 1] + RoughTokenCount(s[i])
  IN  total[Len(s)]

(* What the last reply with usage reports, and an estimate of what came    *)
(* after it.  (Replies do not share a ResponseID: the parser makes one     *)
(* message of each.)                                                       *)
TokenCountWithEstimation(s) ==
  LET i == SelectLastInSeq(s, LAMBDA m : m.usage > 0)
  IN  IF i = 0 THEN EstimateMessageTokens(s)
      ELSE s[i].usage + EstimateMessageTokens(SubSeq(s, i + 1, Len(s)))

-----------------------------------------------------------------------------
(* Microcompaction.                                                        *)

collectCompactableToolIDs(s) == (UNION {s[i].calls : i \in DOMAIN s}) \cap eligible

(* Mutant: the first calls are kept, not the last.                         *)
keepFirst(ids, n) == {c \in ids : Cardinality({d \in ids : d < c}) < n}

(* The n last made of a set of calls.                                      *)
LastCalls(ids, n) == {c \in ids : Cardinality({d \in ids : d > c}) < n}

(* Every result but those of the last eligible calls loses its content,    *)
(* whatever its tool.                                                      *)
applyTimeBasedMicrocompact(s) ==
  LET ids == collectCompactableToolIDs(s)
  IN  IF Cardinality(ids) <= KeepRecent THEN s
      ELSE [i \in DOMAIN s |->
              [s[i] EXCEPT !.cleared = @ \cup (s[i].results \ LastCalls(ids, KeepRecent))]]

(* MicrocompactMessages: whether the gap since the last reply is long      *)
(* enough is up to the clock.                                              *)
Microcompacted(s) ==
  {s} \cup IF \E i \in DOMAIN s : s[i].role = "assistant"
           THEN {applyTimeBasedMicrocompact(s)} ELSE {}

-----------------------------------------------------------------------------
(* Where session-memory compaction cuts the history.                       *)

Suffix(s, i) == SubSeq(s, i, Len(s))

EnoughKept(s, i) ==
  LET tokens == EstimateMessageTokens(Suffix(s, i))
      texts  == Cardinality({j \in i .. Len(s) : s[j].text})
  IN  tokens >= MaxTokens \/ (tokens >= MinTokens /\ texts >= MinTexts)

(* Mutant: the index moves back by one message at most.                    *)
adjustByOne(s, index) ==
  LET kept   == index .. Len(s)
      needed == (UNION {s[i].results : i \in kept}) \ (UNION {s[i].calls : i \in kept})
  IN  IF index > 1 /\ s[index - 1].calls \cap needed # {} THEN index - 1 ELSE index

(* The index moves back to the first message with a call whose result is   *)
(* kept while the call is not.                                             *)
adjustIndexToPreserveAPIInvariants(s, index) ==
  LET kept    == index .. Len(s)
      results == UNION {s[i].results : i \in kept}
      uses    == UNION {s[i].calls : i \in kept}
      needed  == results \ uses
  IN  Min({index} \cup {i \in 1 .. index - 1 : s[i].calls \cap needed # {}})

(* Mutant: one message more is kept than needed.                           *)
keepOneMore(s) ==
  LET i == Max({1} \cup {j \in DOMAIN s : EnoughKept(s, j)})
  IN  adjustIndexToPreserveAPIInvariants(s, Max({1, i - 1}))

(* lastSummarizedMessageID is never set, so the walk starts at the end; it *)
(* takes one message at least.                                             *)
calculateMessagesToKeepIndex(s) ==
  adjustIndexToPreserveAPIInvariants(s, Max({1} \cup {i \in DOMAIN s : EnoughKept(s, i)}))

isCompactBoundaryMessage(m) == m.role = "system" /\ m.mark = "boundary"

TrySessionMemoryCompaction(s) ==
  <<Boundary, Summary>>
    \o Kept(Suffix(s, calculateMessagesToKeepIndex(s)),
            {m \in Range(s) : ~isCompactBoundaryMessage(m)})

-----------------------------------------------------------------------------
(* The pipeline.                                                           *)

Counters == <<eligible, made, prompts, replies, notes>>

(* The turn ends; the engine keeps its own history.                        *)
EndTurn == phase' = "idle" /\ msgs' = <<>>

ShouldAutoCompact(s) == TokenCountWithEstimation(s) >= AutoLimit /\ tracking < MaxFailures

(* The compacted history goes to the engine too: with the memories of the  *)
(* query, without the notices that came in the turn.  Records of skill     *)
(* executions, which are of the old history, are dropped.                  *)
Replace(s) ==
  /\ msgs' = s /\ messages' = s /\ phase' = "llm" /\ start' = 0 /\ tracking' = 0
  /\ UNCHANGED Counters

(* There is a session memory, and it leaves the history short enough.      *)
CompactWithMemory(s) ==
  /\ phase = "top" /\ ShouldAutoCompact(s)
  /\ EstimateMessageTokens(TrySessionMemoryCompaction(s)) < AutoLimit
  /\ Replace(TrySessionMemoryCompaction(s))

(* Otherwise (and without a session memory) the model writes a summary.    *)
CompactConversation(s) ==
  /\ phase = "top" /\ ShouldAutoCompact(s)
  /\ Replace(<<Boundary, Summary>>)

(* Mutant: the query tries again.                                          *)
CompactRetries(s) ==
  /\ phase = "top" /\ ShouldAutoCompact(s)
  /\ tracking' = tracking + 1
  /\ UNCHANGED <<messages, msgs, phase, start, Counters>>

(* The summary fails; so does the turn.                                    *)
CompactFails(s) ==
  /\ phase = "top" /\ ShouldAutoCompact(s)
  /\ tracking' = tracking + 1
  /\ EndTurn
  /\ UNCHANGED <<messages, start, Counters>>

NoCompact(s) ==
  /\ phase = "top" /\ ~ShouldAutoCompact(s)
  /\ tracking' = 0
  /\ IF TokenCountWithEstimation(s) >= BlockLimit
     THEN EndTurn
     ELSE phase' = "llm" /\ msgs' = s
  /\ UNCHANGED <<messages, start, Counters>>

Pipeline ==
  \E s \in Microcompacted(msgs) :
    CompactWithMemory(s) \/ CompactConversation(s) \/ CompactFails(s) \/ NoCompact(s)

-----------------------------------------------------------------------------
(* The rest of a turn.                                                     *)

(* Calls are found only in the last message: not when a notice follows.    *)
repairOrphanToolUses(s) ==
  IF s # <<>> /\ Last(s).calls # {} THEN Append(s, Results(Last(s).calls)) ELSE s

(* The prompt joins a last message of role user.                           *)
AddPrompt(s) ==
  IF s # <<>> /\ Last(s).role = "user" THEN Front(s) \o <<[Last(s) EXCEPT !.text = TRUE]>>
  ELSE Append(s, Prompt)

(* What the query gets: a file that is relevant to the prompt may be       *)
(* recalled, and goes before the last message.                             *)
injectRelevantMemories(s) == {s, Front(s) \o <<Memory, Last(s)>>}

(* Each Query starts with a tracking state of its own.                     *)
StartTurn ==
  /\ phase = "idle" /\ prompts < MaxPrompts
  /\ messages' = AddPrompt(repairOrphanToolUses(messages))
  /\ msgs' \in injectRelevantMemories(messages')
  /\ phase' = "top" /\ tracking' = 0
  /\ prompts' = prompts + 1
  /\ UNCHANGED <<start, eligible, made, replies, notes>>

(* Between turns and in one; the query does not get it.                    *)
Notify ==
  /\ notes < MaxNotes
  /\ messages' = Append(messages, Notice)
  /\ notes' = notes + 1
  /\ UNCHANGED <<msgs, phase, start, tracking, eligible, made, prompts, replies>>

(* A skill call in the stream of a reply, which is not a message yet: the  *)
(* record begins with the last message there is.  (When a record ends is   *)
(* up to the collector, see MemoryWorker: here it stays until the next.)   *)
InvokeSkill ==
  /\ phase = "llm"
  /\ start' = Len(messages)
  /\ UNCHANGED <<messages, msgs, phase, tracking, Counters>>

(* What is logged of it: messages[start:end], where start counts from 0.   *)
Recorded == IF start = 0 THEN <<>> ELSE SubSeq(messages, start, Len(messages))

Add(m) == msgs' = Append(msgs, m) /\ messages' = Append(messages, m)

(* A provider may report no usage.                                         *)
WithUsage(m) ==
  {m, [m EXCEPT !.usage = EstimateMessageTokens(msgs) + RoughTokenCount(m) + Overhead]}

(* An answer without tool calls ends the turn.                             *)
Reply ==
  /\ phase = "llm" /\ replies < MaxReplies
  /\ \E m \in WithUsage(Message("assistant", TRUE)) : messages' = Append(messages, m)
  /\ EndTurn
  /\ replies' = replies + 1
  /\ UNCHANGED <<start, tracking, eligible, made, prompts, notes>>

ReplyWithCalls ==
  /\ phase = "llm" /\ replies < MaxReplies
  /\ \E n \in made + 1 .. MaxCalls, text \in BOOLEAN :
       /\ \E m \in WithUsage([Message("assistant", text) EXCEPT !.calls = made + 1 .. n]) : Add(m)
       /\ \E listed \in SUBSET (made + 1 .. n) : eligible' = eligible \cup listed
       /\ made' = n
  /\ phase' = "tools" /\ replies' = replies + 1
  /\ UNCHANGED <<start, tracking, prompts, notes>>

(* Mutant: a message for each result.                                      *)
ExecuteEach ==
  /\ phase = "tools"
  /\ LET new == [i \in 1 .. Cardinality(Last(msgs).calls) |->
                    Results({SetToSortSeq(Last(msgs).calls, <)[i]})]
     IN  msgs' = msgs \o new /\ messages' = messages \o new
  /\ phase' = "top"
  /\ UNCHANGED <<start, tracking, Counters>>

ExecuteTools ==
  /\ phase = "tools"
  /\ Add(Results(Last(msgs).calls))
  /\ phase' = "top"
  /\ UNCHANGED <<start, tracking, Counters>>

(* The request fails, or the turn is interrupted or has too many rounds.   *)
Abandon ==
  /\ phase # "idle"
  /\ EndTurn
  /\ UNCHANGED <<messages, start, tracking, Counters>>

Next ==
  \/ StartTurn \/ Notify \/ Pipeline
  \/ InvokeSkill \/ Reply \/ ReplyWithCalls \/ ExecuteTools \/ Abandon

Spec == Init /\ [][Next]_vars

-----------------------------------------------------------------------------
(* Properties.                                                             *)

(* Wherever histories are cut, repaired or merged, a tool result follows   *)
(* the message that makes its call: the providers refuse one that does not *)
(* (adjustIndexToPreserveAPIInvariants, repairOrphanToolUses).             *)
CallsPrecedeResults(s) ==
  \A i \in DOMAIN s : \A c \in s[i].results : \E j \in 1 .. i - 1 : c \in s[j].calls
ResultsHaveCalls == CallsPrecedeResults(messages) /\ CallsPrecedeResults(msgs)

(* Over any number of compactions, new calls and cuts, the results of the  *)
(* last KeepRecent calls of listed tools keep their content.               *)
RecentResultsKept ==
  \A s \in {messages, msgs} : \A i \in DOMAIN s : \A c \in s[i].cleared \cap eligible :
    Cardinality({d \in collectCompactableToolIDs(s) : d > c}) >= KeepRecent

(* The log of a skill execution, which is all that an analysis sees of it  *)
(* (the history is compacted or gone by then), tells of the recorded range *)
(* every reply, the text of every user message, and each result that is    *)
(* not noise once and by itself, and behind its call: though notices stand *)
(* between calls and results, and mergeRepeatedToolResults merges unlike   *)
(* results and drops all but the first.  Exceptions: the first message of  *)
(* the range may be the results of the calls before it; results into whose *)
(* message a prompt was merged are not told.  (Kind plain, which is told   *)
(* like documentation, is left to results that are cleared.)               *)
LogTellsAll ==
  phase = "idle" =>
    \A kind \in [UNION {m.results : m \in Range(Recorded)} -> Kinds \ {"plain"}] :
    LET log        == CompactMessages(kind, Recorded)
        Paras(who) == {k \in DOMAIN log : log[k].by = who}
        Said       == {i \in DOMAIN Recorded : Recorded[i].role = "user" /\ Recorded[i].text}
    IN  /\ Cardinality(Paras("user")) = Cardinality(Said)
        /\ \A i \in DOMAIN Recorded :
             /\ Recorded[i].role = "assistant" => \E k \in DOMAIN log : log[k] = Replies(Recorded[i])
             /\ ~Recorded[i].text => \A c \in KeptResults(kind, Recorded[i]) :
                  \E k \in DOMAIN log :
                    /\ {l \in Paras("result") : c \in log[l].calls} = {k}
                    /\ log[k].merged = 1
                    /\ i > 1 => \E j \in 1 .. k - 1 : log[j].by = "assistant" /\ c \in log[j].calls

(* Session-memory compaction keeps the shortest tail of the history that   *)
(* is long enough and holds the call of each of its results; the history   *)
(* itself if no tail is long enough.                                       *)
TailClosed(s, i) ==
  \A j \in i .. Len(s) : \A c \in s[j].results : \E k \in i .. j - 1 : c \in s[k].calls
ShortestTail(s) ==
  LET good == {i \in DOMAIN s : EnoughKept(s, i) /\ TailClosed(s, i)}
      tail == Suffix(s, Max({1} \cup good))
  IN  msgs' = <<Boundary, Summary>> \o Kept(tail, {m \in Range(s) : m.mark # "boundary"})
KeepsShortestTail ==
  [][\A s \in Microcompacted(msgs) : CompactWithMemory(s) => ShortestTail(s)]_vars

=================================================================================
