------------------------------ MODULE MemoryProofs ------------------------------
(***************************************************************************)
(* For any number of skills, messages, files and goroutines: no execution  *)
(* file is claimed by two analyses, the collector's records and its active *)
(* workflow agree, and a file begins with the message that its record was  *)
(* started at.                                                             *)
(***************************************************************************)
EXTENDS MemoryWorker, TLAPS

-----------------------------------------------------------------------------
(* A claimed file has left the directory of its skill, and only a file     *)
(* that is there is claimed.                                               *)

ClaimTypes ==
  /\ place \in [Ids -> {Dir, Gone} \cup Ids]
  /\ claimed \in [Ids -> SUBSET Ids]
  /\ batch \in [Ids -> Ids]

ClaimedGone == \A a \in Ids : \A f \in claimed[a] : place[f] # Dir

ClaimInv == ClaimTypes /\ ClaimedGone /\ ClaimedOnce

-----------------------------------------------------------------------------

LEMMA ClaimInit == Init => ClaimInv
BY DEF Init, ClaimInv, ClaimTypes, ClaimedGone, ClaimedOnce, Dir, Gone

(* A batch directory is never the directory of the skill.                  *)
LEMMA BatchIsNotDir == \A a \in Ids : a # Dir
BY DEF Ids, Dir

(* Another goroutine's batch, or one of its own.                           *)
LEMMA BatchesAreIds ==
  ASSUME batch \in [Ids -> Ids], NEW a \in Ids
  PROVE  Batches(a) \subseteq Ids
BY DEF Batches

(* The step that claims: the file was in the directory, so nobody had it,  *)
(* and it is in a batch directory from now on.                             *)
LEMMA ClaimKept ==
  ASSUME ClaimInv, NEW a \in Ids, NEW f \in Ids,
         place[f] = Dir,
         place' = [place EXCEPT ![f] = batch[a]],
         claimed' = [claimed EXCEPT ![a] = @ \cup {f}],
         UNCHANGED batch
  PROVE  ClaimInv'
<1>1. batch[a] \in Ids /\ batch[a] # Dir
  BY BatchIsNotDir DEF ClaimInv, ClaimTypes
<1>2. ClaimTypes'
  BY <1>1 DEF ClaimInv, ClaimTypes
<1>3. \A b \in Ids : f \notin claimed[b]
  BY DEF ClaimInv, ClaimedGone
<1>4. ClaimedGone'
  BY <1>1 DEF ClaimInv, ClaimTypes, ClaimedGone
<1>5. ClaimedOnce'
  BY <1>3 DEF ClaimInv, ClaimTypes, ClaimedOnce
<1> QED BY <1>2, <1>4, <1>5 DEF ClaimInv

(* Removing a batch directory takes claimed files away, and no others.     *)
LEMMA RemoveKept ==
  ASSUME ClaimInv, NEW a \in Ids, RemoveBatch(a)
  PROVE  ClaimInv'
<1>1. /\ place' = [f \in Ids |-> IF place[f] = batch[a] THEN Gone ELSE place[f]]
      /\ UNCHANGED <<claimed, batch>>
  BY DEF RemoveBatch
<1>2. ClaimTypes'
  BY <1>1 DEF ClaimInv, ClaimTypes
<1>3. ClaimedGone'
  BY <1>1 DEF ClaimInv, ClaimTypes, ClaimedGone, Dir, Gone
<1>4. ClaimedOnce'
  BY <1>1 DEF ClaimInv, ClaimedOnce
<1> QED BY <1>2, <1>3, <1>4 DEF ClaimInv

(* Of a goroutine's steps, listing chooses its batch, and only claiming    *)
(* and removing move files.                                                *)
LEMMA AnalyseKept ==
  ASSUME ClaimInv, NEW a \in Ids, Analyse(a)
  PROVE  ClaimInv'
<1>1. CASE UNCHANGED claimVars
  BY <1>1 DEF claimVars, ClaimInv, ClaimTypes, ClaimedGone, ClaimedOnce
<1>2. CASE ListFiles(a)
  <2>1. UNCHANGED <<place, claimed>>
    BY <1>2 DEF ListFiles
  <2>2. UNCHANGED batch \/ \E b \in Batches(a) : batch' = [batch EXCEPT ![a] = b]
    BY <1>2 DEF ListFiles
  <2>3. batch' \in [Ids -> Ids]
    BY <2>2, BatchesAreIds DEF ClaimInv, ClaimTypes
  <2> QED BY <2>1, <2>3 DEF ClaimInv, ClaimTypes, ClaimedGone, ClaimedOnce
<1>3. CASE Claim(a)
  <2>1. PICK f \in Ids :
          \/ /\ place[f] = Dir
             /\ place' = [place EXCEPT ![f] = batch[a]]
             /\ claimed' = [claimed EXCEPT ![a] = @ \cup {f}]
          \/ UNCHANGED <<place, claimed>>
    BY <1>3 DEF Claim
  <2>2. UNCHANGED batch
    BY <1>3 DEF Claim
  <2> QED BY <1>1, <2>1, <2>2, ClaimKept DEF claimVars
<1>4. CASE RemoveBatch(a)
  BY <1>4, RemoveKept
<1>5. CASE checkSkillThreshold(a) \/ TriggerSkillAnalysis(a) \/ ReadFiles(a) \/ Query(a)
           \/ Write(a)
  BY <1>1, <1>5 DEF checkSkillThreshold, TriggerSkillAnalysis, ReadFiles, Query, Write
<1> QED BY <1>2, <1>3, <1>4, <1>5 DEF Analyse

(* The engine and the worker do not touch what is claimed.                 *)
LEMMA ClaimNext == ClaimInv /\ [Next]_vars => ClaimInv'
<1> SUFFICES ASSUME ClaimInv, [Next]_vars PROVE ClaimInv'
  OBVIOUS
<1>1. CASE UNCHANGED claimVars
  BY <1>1 DEF claimVars, ClaimInv, ClaimTypes, ClaimedGone, ClaimedOnce
<1>2. CASE \E a \in Ids : Analyse(a)
  BY <1>2, AnalyseKept
<1>3. CASE StartTurn \/ CallSkill \/ CallWorkflowComplete \/ AddMessage
  BY <1>1, <1>3 DEF StartTurn, CallSkill, CallWorkflowComplete, AddMessage
<1>4. CASE Compact \/ ResetEngine \/ EndTurn \/ HandleTurnEnd \/ Stop
  BY <1>1, <1>4 DEF Compact, ResetEngine, EndTurn, HandleTurnEnd, HandOver, Stop
<1>5. CASE Work
  BY <1>1, <1>5 DEF Work, TakeTurnEnd, saveSkillExecutionMD, Exit
<1>6. CASE UNCHANGED vars
  BY <1>1, <1>6 DEF vars
<1> QED BY <1>2, <1>3, <1>4, <1>5, <1>6 DEF Next

(* "No file is processed twice" (memoryworker.go:187): analyses claim      *)
(* different files, whatever order they list, claim and remove in.         *)
THEOREM FilesClaimedOnce == Spec => []ClaimedOnce
<1>1. Spec => []ClaimInv
  BY ClaimInit, ClaimNext, PTL DEF Spec
<1>2. ClaimInv => ClaimedOnce
  BY DEF ClaimInv
<1> QED BY <1>1, <1>2, PTL

-----------------------------------------------------------------------------
(* A record marks a message of the present history, and a copy of a        *)
(* history, queued or at hand, is of an earlier one or begins the present  *)
(* one.  So a copy of the record's own history has its message.            *)

Records  == [start : Nat, end : Nat, completed : BOOLEAN, first : Nat, epoch : Nat]
TurnEnds == [msgs : Seq(Nat), completed : BOOLEAN, epoch : Nat]
Files    == [skill : Skills, msgs : Seq(Nat), first : Nat, epoch : Nat, seen : Nat]

CollectorTypes ==
  /\ messages \in Seq(Nat) /\ made \in Nat /\ epoch \in Nat /\ workflowCompleted \in BOOLEAN
  /\ pending \in Seq(Skills) /\ activeWorkflow \in Workflows \cup {NoSkill}
  /\ executions \in [Skills -> Seq(Records)]
  /\ turnEndCh \in Seq(TurnEnds)
  /\ job \in [msgs : Seq(Nat), epoch : Nat, skills : SUBSET (Nat \X Skills)]
  /\ files \in Seq(Files)

PromptFirst == turn = "run" => messages # <<>>

Marks(r) ==
  /\ r.epoch = epoch
  /\ r.start < Len(messages)
  /\ r.first = messages[r.start + 1]
AllMark(recs) == \A i \in 1 .. Len(recs) : Marks(recs[i])
RecordsMark   == \A k \in Skills : AllMark(executions[k])

Begins(s) == Len(s) <= Len(messages) /\ \A i \in 1 .. Len(s) : s[i] = messages[i]
CopyOf(e) == e.epoch <= epoch /\ (e.epoch = epoch => Begins(e.msgs))
CopiesAgree == CopyOf(job) /\ \A i \in 1 .. Len(turnEndCh) : CopyOf(turnEndCh[i])

SliceInv ==
  CollectorTypes /\ PromptFirst /\ RecordsMark /\ CopiesAgree /\ RecordsCoherent /\ SliceExact

(* Records rewritten in place: what marks a message stays, and all but the *)
(* last record stay as they are.                                           *)
Rewritten(s, t) ==
  /\ t \in Seq(Records) /\ Len(t) = Len(s)
  /\ \A i \in 1 .. Len(s) : /\ t[i].start = s[i].start
                            /\ t[i].first = s[i].first
                            /\ t[i].epoch = s[i].epoch
  /\ \A i \in 1 .. Len(s) - 1 : t[i] = s[i]

-----------------------------------------------------------------------------
(* The collector's updates.                                                *)

LEMMA RewrittenSelf ==
  ASSUME NEW s \in Seq(Records)
  PROVE  Rewritten(s, s)
BY DEF Rewritten

(* A last record that marks what the old one did.                          *)
LEMMA LastWritten ==
  ASSUME NEW s \in Seq(Records), s # <<>>, NEW r \in Records,
         r.start = s[Len(s)].start, r.first = s[Len(s)].first, r.epoch = s[Len(s)].epoch
  PROVE  Rewritten(s, [s EXCEPT ![Len(s)] = r]) /\ [s EXCEPT ![Len(s)] = r][Len(s)] = r
<1> DEFINE t == [s EXCEPT ![Len(s)] = r]
<1>1. Len(s) \in 1 .. Len(s)
  OBVIOUS
<1>2. t \in Seq(Records) /\ Len(t) = Len(s) /\ t[Len(s)] = r
  BY <1>1
<1>3. \A i \in 1 .. Len(s) - 1 : t[i] = s[i]
  OBVIOUS
<1> HIDE DEF t
<1>4. ASSUME NEW i \in 1 .. Len(s)
      PROVE  t[i].start = s[i].start /\ t[i].first = s[i].first /\ t[i].epoch = s[i].epoch
  <2>1. CASE i = Len(s)
    BY <1>2, <2>1
  <2>2. CASE i \in 1 .. Len(s) - 1
    BY <1>3, <2>2
  <2> QED BY <1>1, <2>1, <2>2
<1>5. Rewritten(s, t)
  BY <1>2, <1>3, <1>4 DEF Rewritten
<1> QED BY <1>2, <1>5 DEF t

(* Writing the last record's end.                                          *)
LEMMA EndWritten ==
  ASSUME NEW s \in Seq(Records), s # <<>>, NEW end \in Nat
  PROVE  /\ Rewritten(s, [s EXCEPT ![Len(s)] = [@ EXCEPT !.end = end]])
         /\ [s EXCEPT ![Len(s)] = [@ EXCEPT !.end = end]][Len(s)].completed
              = s[Len(s)].completed
<1>1. s[Len(s)] \in Records
  OBVIOUS
<1>2. PICK r : r = [s[Len(s)] EXCEPT !.end = end]
  OBVIOUS
<1>3. /\ r \in Records /\ r.start = s[Len(s)].start /\ r.first = s[Len(s)].first
      /\ r.epoch = s[Len(s)].epoch /\ r.completed = s[Len(s)].completed
  BY <1>1, <1>2 DEF Records
<1>4. [s EXCEPT ![Len(s)] = [@ EXCEPT !.end = end]] = [s EXCEPT ![Len(s)] = r]
  BY <1>2
<1> QED BY <1>3, <1>4, LastWritten

(* Setting the last record's completed.                                    *)
LEMMA CompletedWritten ==
  ASSUME NEW s \in Seq(Records), s # <<>>
  PROVE  Rewritten(s, [s EXCEPT ![Len(s)] = [@ EXCEPT !.completed = TRUE]])
<1>1. s[Len(s)] \in Records
  OBVIOUS
<1>2. PICK r : r = [s[Len(s)] EXCEPT !.completed = TRUE]
  OBVIOUS
<1>3. /\ r \in Records /\ r.start = s[Len(s)].start /\ r.first = s[Len(s)].first
      /\ r.epoch = s[Len(s)].epoch
  BY <1>1, <1>2 DEF Records
<1>4. [s EXCEPT ![Len(s)] = [@ EXCEPT !.completed = TRUE]] = [s EXCEPT ![Len(s)] = r]
  BY <1>2
<1> QED BY <1>3, <1>4, LastWritten

LEMMA RewrittenTwice ==
  ASSUME NEW s \in Seq(Records), NEW t, NEW u, Rewritten(s, t), Rewritten(t, u)
  PROVE  Rewritten(s, u)
BY DEF Rewritten

(* A turn's end rewrites records in place and completes none by itself.    *)
LEMMA EndedRewrites ==
  ASSUME CollectorTypes, NEW end \in Nat, NEW k \in Skills
  PROVE  /\ Rewritten(executions[k], Ended(end)[k])
         /\ executions[k] # <<>> =>
              Last(Ended(end)[k]).completed = Last(executions[k]).completed
<1> DEFINE s == executions[k]
<1>1. s \in Seq(Records)
  BY DEF CollectorTypes
<1>2. CASE s = <<>>
  <2>1. Ended(end)[k] = s
    BY <1>2 DEF Ended, Update
  <2> QED BY <1>1, <1>2, <2>1, RewrittenSelf
<1>3. CASE s # <<>> /\ ((k \in Range(pending) /\ s[Len(s)].end = 0) \/ k = activeWorkflow)
  <2>1. Ended(end)[k] = [s EXCEPT ![Len(s)] = [@ EXCEPT !.end = end]]
    BY <1>3 DEF Ended, Update
  <2>2. Len(Ended(end)[k]) = Len(s)
    BY <1>1, <1>3, <2>1, EndWritten DEF Rewritten
  <2> QED BY <1>1, <1>3, <2>1, <2>2, EndWritten DEF Last
<1>4. CASE s # <<>> /\ ~((k \in Range(pending) /\ s[Len(s)].end = 0) \/ k = activeWorkflow)
  <2>1. Ended(end)[k] = [s EXCEPT ![Len(s)] = @]
    BY <1>4 DEF Ended, Update
  <2>2. Ended(end)[k] = s
    BY <1>1, <2>1
  <2> QED BY <1>1, <2>2, RewrittenSelf
<1> QED BY <1>2, <1>3, <1>4

LEMMA CompletedRewrites ==
  ASSUME NEW recs, NEW ks, NEW k \in Skills, recs[k] \in Seq(Records)
  PROVE  /\ Rewritten(recs[k], Completed(recs, ks)[k])
         /\ k \notin ks => Completed(recs, ks)[k] = recs[k]
<1>1. CASE k \in ks /\ recs[k] # <<>>
  <2>1. Completed(recs, ks)[k] = [recs[k] EXCEPT ![Len(recs[k])] = [@ EXCEPT !.completed = TRUE]]
    BY <1>1 DEF Completed, Update
  <2> QED BY <1>1, <2>1, CompletedWritten
<1>2. CASE ~(k \in ks /\ recs[k] # <<>>)
  <2>1. Completed(recs, ks)[k] = recs[k]
    BY <1>2 DEF Completed, Update
  <2> QED BY <2>1, RewrittenSelf
<1> QED BY <1>1, <1>2


-----------------------------------------------------------------------------
(* What keeps the parts of the invariant.                                  *)

LEMMA SliceInit == Init => SliceInv
<1> SUFFICES ASSUME Init PROVE SliceInv
  OBVIOUS
<1>1. CollectorTypes
  <2>1. /\ messages \in Seq(Nat) /\ made \in Nat /\ epoch \in Nat
        /\ pending \in Seq(Skills) /\ activeWorkflow \in Workflows \cup {NoSkill}
        /\ turnEndCh \in Seq(TurnEnds) /\ files \in Seq(Files)
    BY DEF Init
  <2>2. executions \in [Skills -> Seq(Records)]
    BY DEF Init
  <2>3. job \in [msgs : Seq(Nat), epoch : Nat, skills : SUBSET (Nat \X Skills)]
    BY DEF Init, NoJob
  <2>4. workflowCompleted \in BOOLEAN
    BY Zenon DEF Init
  <2> QED BY <2>1, <2>2, <2>3, <2>4 DEF CollectorTypes
<1>2. PromptFirst /\ RecordsMark /\ RecordsCoherent
  BY DEF Init, PromptFirst, RecordsMark, AllMark, RecordsCoherent
<1>3. CopiesAgree
  BY DEF Init, CopiesAgree, CopyOf, Begins, NoJob
<1>4. SliceExact
  BY DEF Init, SliceExact, Range
<1> QED BY <1>1, <1>2, <1>3, <1>4 DEF SliceInv

LEMMA GrownNotEmpty ==
  ASSUME NEW s \in Seq(Nat), NEW n \in Nat
  PROVE  Append(s, n + 1) \in Seq(Nat) /\ Append(s, n + 1) # <<>>
<1>1. Append(s, n + 1) \in Seq(Nat) /\ Len(Append(s, n + 1)) = Len(s) + 1
  OBVIOUS
<1>2. Len(Append(s, n + 1)) # 0
  BY <1>1
<1> QED BY <1>1, <1>2

(* The history grows at its end: marks and copies stay right.              *)
LEMMA HistoryGrows ==
  ASSUME CollectorTypes, RecordsMark, CopiesAgree,
         messages' = Append(messages, made + 1), UNCHANGED <<epoch, executions, job, turnEndCh>>
  PROVE  RecordsMark' /\ CopiesAgree'
<1>1. Len(messages') = Len(messages) + 1
  BY DEF CollectorTypes
<1>2. \A i \in 1 .. Len(messages) : messages'[i] = messages[i]
  BY DEF CollectorTypes
<1>3. ASSUME NEW r \in Records, Marks(r)
      PROVE  Marks(r)'
  <2>1. r.start + 1 \in 1 .. Len(messages)
    BY <1>3 DEF Marks, Records, CollectorTypes
  <2> QED BY <1>1, <1>2, <1>3, <2>1 DEF Marks, Records, CollectorTypes
<1>4. RecordsMark'
  BY <1>3 DEF RecordsMark, AllMark, CollectorTypes
<1>5. ASSUME NEW e, e.msgs \in Seq(Nat), CopyOf(e)
      PROVE  e.epoch <= epoch' /\ (e.epoch = epoch' => Begins(e.msgs)')
  BY <1>1, <1>2, <1>5 DEF CopyOf, Begins, CollectorTypes
<1>6. CopyOf(job)'
  BY <1>5 DEF CopiesAgree, CopyOf, CollectorTypes
<1>7. ASSUME NEW i \in 1 .. Len(turnEndCh)
      PROVE  CopyOf(turnEndCh[i])'
  <2>1. turnEndCh[i] \in TurnEnds
    BY DEF CollectorTypes
  <2>2. turnEndCh[i].msgs \in Seq(Nat)
    BY <2>1 DEF TurnEnds
  <2> QED BY <1>5, <2>2 DEF CopiesAgree, CopyOf
<1> QED BY <1>4, <1>6, <1>7 DEF CopiesAgree

(* A new history, later than all that is copied and without records.       *)
LEMMA HistoryBegins ==
  ASSUME SliceInv, messages' \in Seq(Nat), made' \in Nat, epoch' = epoch + 1, ResetCollector,
         turn = "run" => messages' # <<>>,
         UNCHANGED <<turn, workflowCompleted, turnEndCh, job, files>>
  PROVE  SliceInv'
<1>1. CollectorTypes'
  BY DEF SliceInv, CollectorTypes, ResetCollector
<1>2. PromptFirst'
  BY DEF PromptFirst
<1>3. RecordsMark' /\ RecordsCoherent'
  BY DEF RecordsMark, AllMark, RecordsCoherent, ResetCollector
<1>4. ASSUME NEW e, e.epoch \in Nat, CopyOf(e)
      PROVE  e.epoch <= epoch' /\ e.epoch # epoch'
  BY <1>4 DEF SliceInv, CollectorTypes, CopyOf
<1>5. CopyOf(job)'
  BY <1>4 DEF SliceInv, CollectorTypes, CopiesAgree, CopyOf
<1>6. ASSUME NEW i \in 1 .. Len(turnEndCh)
      PROVE  CopyOf(turnEndCh[i])'
  <2>1. turnEndCh[i] \in TurnEnds
    BY DEF SliceInv, CollectorTypes
  <2>2. turnEndCh[i].epoch \in Nat
    BY <2>1 DEF TurnEnds
  <2> QED BY <1>4, <2>2 DEF SliceInv, CopiesAgree, CopyOf
<1>7. SliceExact'
  BY DEF SliceInv, SliceExact
<1> QED BY <1>1, <1>2, <1>3, <1>5, <1>6, <1>7 DEF SliceInv, CopiesAgree

LEMMA StartTurnSlice ==
  ASSUME SliceInv, StartTurn PROVE SliceInv'
<1>1. \/ messages' = Append(messages, made + 1) /\ made' = made + 1
      \/ messages # <<>> /\ UNCHANGED <<messages, made>>
  BY DEF StartTurn
<1>2. /\ UNCHANGED <<epoch, pending, activeWorkflow, executions, job, turnEndCh, files>>
      /\ workflowCompleted' \in BOOLEAN
  BY DEF StartTurn, collectorVars, workerVars
<1>3. messages' \in Seq(Nat) /\ made' \in Nat /\ messages' # <<>>
  <2>1. messages \in Seq(Nat) /\ made \in Nat
    BY DEF SliceInv, CollectorTypes
  <2>2. CASE messages' = Append(messages, made + 1) /\ made' = made + 1
    BY <2>1, <2>2, GrownNotEmpty
  <2> QED BY <1>1, <2>1, <2>2
<1>4. CollectorTypes' /\ PromptFirst'
  BY <1>2, <1>3 DEF SliceInv, CollectorTypes, PromptFirst
<1>5. RecordsMark' /\ CopiesAgree'
  <2>1. CASE messages' = Append(messages, made + 1)
    BY <1>2, <2>1, HistoryGrows DEF SliceInv
  <2>2. CASE UNCHANGED messages
    BY <1>2, <2>2
       DEF SliceInv, RecordsMark, AllMark, Marks, CopiesAgree, CopyOf, Begins
  <2> QED BY <1>1, <2>1, <2>2
<1>6. RecordsCoherent' /\ SliceExact'
  BY <1>2 DEF SliceInv, RecordsCoherent, SliceExact
<1> QED BY <1>4, <1>5, <1>6 DEF SliceInv

LEMMA AddMessageSlice ==
  ASSUME SliceInv, AddMessage PROVE SliceInv'
<1>1. /\ messages' = Append(messages, made + 1) /\ made' = made + 1
      /\ UNCHANGED <<turn, workflowCompleted, epoch, pending, activeWorkflow, executions, job,
                     turnEndCh, files>>
  BY DEF AddMessage, collectorVars, workerVars
<1>2. messages' \in Seq(Nat) /\ made' \in Nat /\ messages' # <<>>
  <2>1. messages \in Seq(Nat) /\ made \in Nat
    BY DEF SliceInv, CollectorTypes
  <2> QED BY <1>1, <2>1, GrownNotEmpty
<1>3. CollectorTypes' /\ PromptFirst'
  BY <1>1, <1>2 DEF SliceInv, CollectorTypes, PromptFirst
<1>4. RecordsMark' /\ CopiesAgree'
  BY <1>1, HistoryGrows DEF SliceInv
<1>5. RecordsCoherent' /\ SliceExact'
  BY <1>1 DEF SliceInv, RecordsCoherent, SliceExact
<1> QED BY <1>3, <1>4, <1>5 DEF SliceInv

LEMMA CompactSlice ==
  ASSUME SliceInv, Compact PROVE SliceInv'
<1>1. PICK i \in 2 .. Len(messages) + 1 :
        messages' = <<made + 1>> \o SubSeq(messages, i, Len(messages))
  BY DEF Compact, Compacted
<1>2. <<made + 1>> \in Seq(Nat) /\ SubSeq(messages, i, Len(messages)) \in Seq(Nat)
  BY DEF SliceInv, CollectorTypes
<1>3. messages' \in Seq(Nat) /\ Len(messages') = 1 + Len(SubSeq(messages, i, Len(messages)))
  BY <1>1, <1>2
<1>4. messages' # <<>>
  <2>1. Len(messages') # 0
    BY <1>2, <1>3
  <2> QED BY <2>1
<1>5. made' \in Nat
  BY DEF SliceInv, CollectorTypes, Compact
<1>6. /\ epoch' = epoch + 1 /\ ResetCollector
      /\ UNCHANGED <<turn, workflowCompleted, turnEndCh, job, files>>
  BY DEF Compact, workerVars
<1> QED BY <1>3, <1>4, <1>5, <1>6, HistoryBegins

LEMMA ResetSlice ==
  ASSUME SliceInv, ResetEngine PROVE SliceInv'
<1>1. /\ messages' \in Seq(Nat) /\ made' \in Nat /\ turn # "run"
      /\ epoch' = epoch + 1 /\ ResetCollector
      /\ UNCHANGED <<turn, workflowCompleted, turnEndCh, job, files>>
  BY DEF SliceInv, CollectorTypes, ResetEngine, workerVars
<1> QED BY <1>1, HistoryBegins

LEMMA HandOverSlice ==
  ASSUME SliceInv, HandOver PROVE SliceInv'
<1>1. PICK e : e = [msgs |-> messages, completed |-> workflowCompleted, epoch |-> epoch]
  OBVIOUS
<1>2. /\ turnEndCh' = Append(turnEndCh, e)
      /\ turn' = "idle" /\ workflowCompleted' = FALSE
      /\ UNCHANGED <<messages, made, epoch, pending, activeWorkflow, executions, job, files>>
  BY <1>1 DEF HandOver, collectorVars, workerVars
<1>3. e \in TurnEnds /\ e.msgs = messages /\ e.epoch = epoch
  BY <1>1 DEF SliceInv, CollectorTypes, TurnEnds
<1>4. CollectorTypes'
  <2>1. turnEndCh' \in Seq(TurnEnds)
    BY <1>2, <1>3 DEF SliceInv, CollectorTypes
  <2> QED BY <1>2, <2>1 DEF SliceInv, CollectorTypes
<1>5. PromptFirst' /\ RecordsMark' /\ RecordsCoherent' /\ SliceExact'
  BY <1>2 DEF SliceInv, PromptFirst, RecordsMark, AllMark, Marks, RecordsCoherent, SliceExact
<1>6. CopyOf(job)'
  BY <1>2 DEF SliceInv, CopiesAgree, CopyOf, Begins
<1>7. CopyOf(e)
  BY <1>3 DEF SliceInv, CollectorTypes, CopyOf, Begins
<1>8. ASSUME NEW i \in 1 .. Len(turnEndCh')
      PROVE  CopyOf(turnEndCh'[i])
  <2>1. turnEndCh \in Seq(TurnEnds)
    BY DEF SliceInv, CollectorTypes
  <2>2. CASE i \in 1 .. Len(turnEndCh)
    BY <1>2, <2>1, <2>2 DEF SliceInv, CopiesAgree
  <2>3. CASE i = Len(turnEndCh) + 1
    BY <1>2, <1>7, <2>1, <2>3
  <2> QED BY <1>2, <2>1, <2>2, <2>3
<1>9. CopiesAgree'
  BY <1>2, <1>6, <1>8 DEF CopiesAgree, CopyOf, Begins
<1> QED BY <1>4, <1>5, <1>9 DEF SliceInv

(* The record of a call marks the message before it; it is the only one    *)
(* that is open.                                                           *)
LEMMA CallSkillSlice ==
  ASSUME SliceInv, CallSkill PROVE SliceInv'
<1>1. PICK k \in Skills : OnSkillInvocation(k)
  BY DEF CallSkill
<1>2. UNCHANGED <<messages, made, turn, workflowCompleted, epoch, job, turnEndCh, files>>
  BY DEF CallSkill, workerVars
<1>3. messages \in Seq(Nat) /\ messages # <<>>
  BY DEF CallSkill, SliceInv, CollectorTypes, PromptFirst
<1> DEFINE rec == [start |-> Len(messages) - 1, end |-> 0, completed |-> FALSE,
                   first |-> Last(messages), epoch |-> epoch]
           open == executions[k] # <<>> /\ ~Last(executions[k]).completed
<1>4. rec \in Records /\ ~rec.completed
  BY <1>3 DEF SliceInv, CollectorTypes, Records, Last
<1>5. Marks(rec)
  BY <1>3 DEF Marks, Last
<1>6. PICK kept : kept = IF open THEN <<>> ELSE executions[k]
  OBVIOUS
<1>7. executions \in [Skills -> Seq(Records)]
  BY DEF SliceInv, CollectorTypes
<1>8. kept \in Seq(Records) /\ AllMark(kept) /\ \A i \in 1 .. Len(kept) : kept[i].completed
  <2>1. CASE open
    BY <1>6, <2>1 DEF AllMark
  <2>2. CASE ~open
    BY <1>6, <1>7, <2>2 DEF SliceInv, RecordsMark, RecordsCoherent, Last
  <2> QED BY <2>1, <2>2
<1>9. PICK new : new = Append(kept, rec)
  OBVIOUS
<1>10. executions' = [executions EXCEPT ![k] = new]
  BY <1>1, <1>6, <1>9 DEF OnSkillInvocation
<1>11. /\ new \in Seq(Records) /\ AllMark(new) /\ Len(new) = Len(kept) + 1
       /\ new[Len(new)] = rec /\ \A i \in 1 .. Len(new) - 1 : new[i].completed
  <2> HIDE DEF rec
  <2>1. new \in Seq(Records) /\ Len(new) = Len(kept) + 1 /\ new[Len(new)] = rec
    BY <1>4, <1>8, <1>9
  <2>2. \A i \in 1 .. Len(kept) : new[i] = kept[i]
    BY <1>4, <1>8, <1>9
  <2>3. AllMark(new)
    BY <1>5, <1>8, <2>1, <2>2 DEF AllMark
  <2> QED BY <1>8, <2>1, <2>2, <2>3
<1>12. /\ pending' = Append(pending, k)
       /\ activeWorkflow' = IF k \in Workflows THEN k ELSE activeWorkflow
  BY <1>1 DEF OnSkillInvocation
<1> HIDE DEF rec, open
<1>13. CollectorTypes'
  BY <1>2, <1>7, <1>10, <1>11, <1>12 DEF SliceInv, CollectorTypes
<1>14. PromptFirst' /\ SliceExact'
  BY <1>2 DEF SliceInv, PromptFirst, SliceExact
<1>15. CopiesAgree'
  BY <1>2 DEF SliceInv, CopiesAgree, CopyOf, Begins
<1>16. \A j \in Skills : executions'[j] = IF j = k THEN new ELSE executions[j]
  BY <1>7, <1>10
<1>17. RecordsMark'
  BY <1>2, <1>11, <1>16 DEF SliceInv, RecordsMark, AllMark, Marks
<1>18. RecordsCoherent'
  <2>1. ASSUME activeWorkflow' # NoSkill
        PROVE  executions'[activeWorkflow'] # <<>> /\ ~Last(executions'[activeWorkflow']).completed
    <3>1. activeWorkflow' \in Skills
      BY <1>12, <2>1, MemoryAssumption DEF SliceInv, CollectorTypes
    <3>2. CASE activeWorkflow' = k
      BY <1>4, <1>11, <1>16, <3>2 DEF Last
    <3>3. CASE activeWorkflow' # k
      <4>1. activeWorkflow' = activeWorkflow
        BY <1>12, <3>3
      <4> QED BY <1>16, <2>1, <3>1, <3>3, <4>1 DEF SliceInv, RecordsCoherent
    <3> QED BY <3>2, <3>3
  <2>2. \A j \in Skills : \A i \in 1 .. Len(executions'[j]) - 1 : executions'[j][i].completed
    BY <1>11, <1>16 DEF SliceInv, RecordsCoherent
  <2> QED BY <2>1, <2>2 DEF RecordsCoherent
<1> QED BY <1>13, <1>14, <1>15, <1>17, <1>18 DEF SliceInv


LEMMA NoJobType ==
  /\ NoJob \in [msgs : Seq(Nat), epoch : Nat, skills : SUBSET (Nat \X Skills)]
  /\ NoJob.msgs = <<>> /\ NoJob.epoch = 0
<1>1. <<>> \in Seq(Nat) /\ 0 \in Nat /\ {} \in SUBSET (Nat \X Skills)
  OBVIOUS
<1> QED BY <1>1 DEF NoJob

LEMMA RangeOf ==
  ASSUME NEW s \in Seq(Nat), NEW i \in Nat, NEW j \in Nat, i < j, j <= Len(s)
  PROVE  /\ SubSeq(s, i + 1, j) \in Seq(Nat)
         /\ SubSeq(s, i + 1, j) # <<>>
         /\ Head(SubSeq(s, i + 1, j)) = s[i + 1]
<1>1. SubSeq(s, i + 1, j) \in Seq(Nat)
  OBVIOUS
<1>2. Len(SubSeq(s, i + 1, j)) = j - i
  OBVIOUS
<1>3. SubSeq(s, i + 1, j)[1] = s[i + 1]
  OBVIOUS
<1> QED BY <1>1, <1>2, <1>3

(* A turn's end, taken from the queue: it rewrites records in place and    *)
(* closes last ones, but none of a workflow that stays active.             *)
LEMMA ResultSlice ==
  ASSUME SliceInv, NEW end \in Nat, NEW ended \in BOOLEAN, OnExecutionResult(end, ended)
  PROVE  /\ executions' \in [Skills -> Seq(Records)]
         /\ \A k \in Skills : Rewritten(executions[k], executions'[k])
         /\ RecordsCoherent'
<1>1. PICK ks : /\ ks = {c[2] : c \in CompletedSkills(ended)}
                /\ executions' = Completed(Ended(end), ks)
  BY DEF OnExecutionResult
<1>2. CollectorTypes /\ executions \in [Skills -> Seq(Records)]
  BY DEF SliceInv, CollectorTypes
<1>3. ASSUME NEW k \in Skills
      PROVE  /\ Rewritten(executions[k], executions'[k])
             /\ k \notin ks => executions'[k] = Ended(end)[k]
  <2>1. Rewritten(executions[k], Ended(end)[k])
    BY <1>2, EndedRewrites
  <2>2. Ended(end)[k] \in Seq(Records)
    BY <2>1 DEF Rewritten
  <2>3. /\ Rewritten(Ended(end)[k], Completed(Ended(end), ks)[k])
        /\ k \notin ks => Completed(Ended(end), ks)[k] = Ended(end)[k]
    BY <2>2, CompletedRewrites
  <2> QED BY <1>1, <1>2, <2>1, <2>3, RewrittenTwice
<1>4. executions' \in [Skills -> Seq(Records)]
  <2>1. \A k \in Skills : executions'[k] \in Seq(Records)
    BY <1>3 DEF Rewritten
  <2>2. executions' = [k \in Skills |-> executions'[k]]
    BY <1>1 DEF Completed
  <2> QED BY <2>1, <2>2
<1>5. ASSUME activeWorkflow' # NoSkill
      PROVE  executions'[activeWorkflow'] # <<>> /\ ~Last(executions'[activeWorkflow']).completed
  <2>1. ~ended /\ activeWorkflow' = activeWorkflow
    BY <1>5 DEF OnExecutionResult
  <2>2. ks = {}
    BY <1>1, <1>5, <2>1 DEF CompletedSkills
  <2>3. activeWorkflow \in Skills
    BY <1>2, <1>5, <2>1, MemoryAssumption DEF CollectorTypes
  <2>4. executions[activeWorkflow] # <<>> /\ ~Last(executions[activeWorkflow]).completed
    BY <1>5, <2>1 DEF SliceInv, RecordsCoherent
  <2>5. executions'[activeWorkflow] = Ended(end)[activeWorkflow]
    BY <1>3, <2>2, <2>3
  <2>6. Last(Ended(end)[activeWorkflow]).completed = Last(executions[activeWorkflow]).completed
    BY <1>2, <2>3, <2>4, EndedRewrites
  <2>7. executions'[activeWorkflow] # <<>>
    <3>1. Len(executions'[activeWorkflow]) = Len(executions[activeWorkflow])
      BY <1>3, <2>3 DEF Rewritten
    <3>2. executions[activeWorkflow] \in Seq(Records)
      BY <1>2, <2>3
    <3>3. executions'[activeWorkflow] \in Seq(Records)
      BY <1>4, <2>3
    <3> QED BY <2>4, <3>1, <3>2, <3>3
  <2> QED BY <2>1, <2>4, <2>5, <2>6, <2>7
<1>6. ASSUME NEW k \in Skills, NEW i \in 1 .. Len(executions'[k]) - 1
      PROVE  executions'[k][i].completed
  <2>1. i \in 1 .. Len(executions[k]) - 1 /\ executions'[k][i] = executions[k][i]
    BY <1>3 DEF Rewritten
  <2> QED BY <2>1 DEF SliceInv, RecordsCoherent
<1> QED BY <1>3, <1>4, <1>5, <1>6 DEF RecordsCoherent

(* The worker's next job has an older copy, or none.                       *)
LEMMA CopyTaken ==
  ASSUME SliceInv, NEW e, CopyOf(e), UNCHANGED <<messages, epoch>>,
         \/ job'.msgs = <<>> /\ job'.epoch = 0
         \/ job'.msgs = e.msgs /\ job'.epoch = e.epoch
  PROVE  CopyOf(job)'
<1>1. CASE job'.msgs = <<>> /\ job'.epoch = 0
  <2>1. epoch \in Nat /\ messages \in Seq(Nat)
    BY DEF SliceInv, CollectorTypes
  <2>2. Begins(job.msgs)'
    BY <1>1, <2>1 DEF Begins
  <2> QED BY <1>1, <2>1, <2>2 DEF CopyOf
<1>2. CASE job'.msgs = e.msgs /\ job'.epoch = e.epoch
  BY <1>2 DEF CopyOf, Begins
<1> QED BY <1>1, <1>2

LEMMA TakeTurnEndSlice ==
  ASSUME SliceInv, TakeTurnEnd PROVE SliceInv'
<1>1. turnEndCh \in Seq(TurnEnds) /\ turnEndCh # <<>>
  BY DEF SliceInv, CollectorTypes, TakeTurnEnd
<1>2. PICK e : e = Head(turnEndCh)
  OBVIOUS
<1>3. e = turnEndCh[1] /\ 1 \in 1 .. Len(turnEndCh) /\ e \in TurnEnds
  BY <1>1, <1>2
<1>4. /\ e.msgs \in Seq(Nat) /\ e.epoch \in Nat /\ e.completed \in BOOLEAN
      /\ Len(e.msgs) \in Nat
  BY <1>3 DEF TurnEnds
<1>5. /\ OnExecutionResult(Len(e.msgs), e.completed)
      /\ job' = IF CompletedSkills(e.completed) = {} THEN NoJob
                ELSE [msgs |-> e.msgs, epoch |-> e.epoch, skills |-> CompletedSkills(e.completed)]
      /\ turnEndCh' = Tail(turnEndCh)
      /\ UNCHANGED <<messages, made, turn, workflowCompleted, epoch, files>>
  BY <1>2 DEF TakeTurnEnd, engineVars
<1>6. /\ executions' \in [Skills -> Seq(Records)]
      /\ \A k \in Skills : Rewritten(executions[k], executions'[k])
      /\ RecordsCoherent'
  BY <1>4, <1>5, ResultSlice
<1>7. /\ pending' = <<>>
      /\ activeWorkflow' = IF e.completed THEN NoSkill ELSE activeWorkflow
  BY <1>5 DEF OnExecutionResult
<1>8. CompletedSkills(e.completed) \subseteq Nat \X Skills
  <2>1. pending \in Seq(Skills) /\ activeWorkflow \in Skills \cup {NoSkill}
    BY MemoryAssumption DEF SliceInv, CollectorTypes
  <2> QED BY <2>1 DEF CompletedSkills
<1>9. /\ job' \in [msgs : Seq(Nat), epoch : Nat, skills : SUBSET (Nat \X Skills)]
      /\ \/ job'.msgs = <<>> /\ job'.epoch = 0
         \/ job'.msgs = e.msgs /\ job'.epoch = e.epoch
  <2>1. CASE CompletedSkills(e.completed) = {}
    BY <1>5, <2>1, NoJobType
  <2>2. CASE CompletedSkills(e.completed) # {}
    BY <1>4, <1>5, <1>8, <2>2
  <2> QED BY <2>1, <2>2
<1>10. turnEndCh' \in Seq(TurnEnds) /\ Len(turnEndCh') = Len(turnEndCh) - 1
       /\ \A i \in 1 .. Len(turnEndCh') : turnEndCh'[i] = turnEndCh[i + 1]
  BY <1>1, <1>5
<1>11. CollectorTypes'
  <2>1. activeWorkflow' \in Workflows \cup {NoSkill}
    BY <1>7 DEF SliceInv, CollectorTypes
  <2>2. pending' \in Seq(Skills)
    BY <1>7
  <2>3. /\ messages' \in Seq(Nat) /\ made' \in Nat /\ epoch' \in Nat
        /\ workflowCompleted' \in BOOLEAN /\ files' \in Seq(Files)
    BY <1>5 DEF SliceInv, CollectorTypes
  <2> QED BY <1>6, <1>9, <1>10, <2>1, <2>2, <2>3 DEF CollectorTypes
<1>12. PromptFirst' /\ SliceExact'
  BY <1>5 DEF SliceInv, PromptFirst, SliceExact
<1>13. RecordsMark'
  <2>1. ASSUME NEW k \in Skills PROVE AllMark(executions[k])'
    <3>1. executions[k] \in Seq(Records)
      BY DEF SliceInv, CollectorTypes
    <3>2. AllMark(executions[k])
      BY DEF SliceInv, RecordsMark
    <3> QED BY <1>5, <1>6, <3>1, <3>2 DEF Rewritten, AllMark, Marks
  <2> QED BY <2>1 DEF RecordsMark, AllMark, Marks
<1>14. CopiesAgree'
  <2>1. CopyOf(e)
    BY <1>3 DEF SliceInv, CopiesAgree
  <2>2. CopyOf(job)'
    BY <1>5, <1>9, <2>1, CopyTaken
  <2>3. ASSUME NEW i \in 1 .. Len(turnEndCh') PROVE CopyOf(turnEndCh[i])'
    <3>1. i + 1 \in 1 .. Len(turnEndCh) /\ turnEndCh'[i] = turnEndCh[i + 1]
      BY <1>1, <1>10
    <3> QED BY <1>5, <3>1 DEF SliceInv, CopiesAgree, CopyOf, Begins
  <2> QED BY <2>2, <2>3 DEF CopiesAgree
<1> QED BY <1>6, <1>11, <1>12, <1>13, <1>14 DEF SliceInv

(* The file cut by a record begins with the record's message, when the     *)
(* copy at hand is of the record's history or a later one: then it is of   *)
(* the present one.                                                        *)
LEMMA CutExact ==
  ASSUME SliceInv, NEW k \in Skills
  PROVE  \/ Cut(k) = <<>>
         \/ \E f \in Files : /\ Cut(k) = <<f>>
                             /\ f.seen >= f.epoch => Head(f.msgs) = f.first
<1> DEFINE closed == {i \in DOMAIN executions[k] : executions[k][i].completed}
<1>1. executions[k] \in Seq(Records)
  BY DEF SliceInv, CollectorTypes
<1>2. SUFFICES ASSUME closed # {} PROVE
         \/ Cut(k) = <<>>
         \/ \E f \in Files : /\ Cut(k) = <<f>>
                             /\ f.seen >= f.epoch => Head(f.msgs) = f.first
  BY DEF Cut
<1>3. \E m \in closed : \A i \in closed : m >= i
  <2>1. closed \subseteq 1 .. Len(executions[k])
    BY <1>1
  <2>2. 1 .. Len(executions[k]) - 1 \subseteq closed
    BY <1>1 DEF SliceInv, RecordsCoherent
  <2>3. CASE Len(executions[k]) \in closed
    BY <2>1, <2>3
  <2>4. CASE Len(executions[k]) \notin closed
    <3>1. closed = 1 .. Len(executions[k]) - 1
      BY <1>1, <2>1, <2>2, <2>4
    <3>2. Len(executions[k]) - 1 \in closed
      BY <1>1, <1>2, <3>1
    <3> QED BY <1>1, <3>1, <3>2
  <2> QED BY <2>3, <2>4
<1>4. Max(closed) \in closed
  BY <1>3 DEF Max
<1>5. PICK m : m = Max(closed)
  OBVIOUS
<1>6. m \in 1 .. Len(executions[k])
  BY <1>1, <1>4, <1>5
<1>7. Cut(k) = LET r == executions[k][m] IN
               IF r.start >= r.end \/ r.end > Len(job.msgs) THEN <<>>
               ELSE <<[skill |-> k, msgs |-> SubSeq(job.msgs, r.start + 1, r.end),
                       first |-> r.first, epoch |-> r.epoch, seen |-> job.epoch]>>
  BY <1>2, <1>5 DEF Cut
<1> HIDE DEF closed
<1>8. PICK r \in Records : r = executions[k][m]
  BY <1>1, <1>6
<1>9. Marks(r)
  BY <1>6, <1>8 DEF SliceInv, RecordsMark, AllMark
<1>10. CASE r.start < r.end /\ r.end <= Len(job.msgs)
  <2>1. r.start \in Nat /\ r.end \in Nat /\ r.first \in Nat /\ r.epoch \in Nat
    BY DEF Records
  <2>2. job.msgs \in Seq(Nat) /\ job.epoch \in Nat /\ epoch \in Nat /\ messages \in Seq(Nat)
    BY DEF SliceInv, CollectorTypes
  <2>3. PICK s : s = SubSeq(job.msgs, r.start + 1, r.end)
    OBVIOUS
  <2>4. s \in Seq(Nat)
    BY <1>10, <2>1, <2>2, <2>3, RangeOf
  <2>5. Head(s) = job.msgs[r.start + 1]
    BY <1>10, <2>1, <2>2, <2>3, RangeOf
  <2>6. PICK f : f = [skill |-> k, msgs |-> s, first |-> r.first, epoch |-> r.epoch,
                      seen |-> job.epoch]
    OBVIOUS
  <2>7. f \in Files /\ f.msgs = s /\ f.first = r.first /\ f.epoch = r.epoch /\ f.seen = job.epoch
    BY <2>1, <2>2, <2>4, <2>6 DEF Files
  <2>8. Cut(k) = <<f>>
    <3>1. ~(r.start >= r.end \/ r.end > Len(job.msgs))
      BY <1>10, <2>1, <2>2
    <3> QED BY <1>7, <1>8, <2>3, <2>6, <3>1
  <2>9. ASSUME f.seen >= f.epoch PROVE Head(f.msgs) = f.first
    <3>1. r.epoch = epoch /\ r.first = messages[r.start + 1]
      BY <1>9 DEF Marks
    <3>2. job.epoch <= epoch /\ (job.epoch = epoch => Begins(job.msgs))
      BY DEF SliceInv, CopiesAgree, CopyOf
    <3>3. Begins(job.msgs)
      BY <2>2, <2>7, <2>9, <3>1, <3>2
    <3>4. r.start + 1 \in 1 .. Len(job.msgs)
      BY <1>10, <2>1, <2>2
    <3>5. job.msgs[r.start + 1] = messages[r.start + 1]
      BY <3>3, <3>4 DEF Begins
    <3> QED BY <2>5, <2>7, <3>1, <3>5
  <2> QED BY <2>7, <2>8, <2>9
<1>11. CASE ~(r.start < r.end /\ r.end <= Len(job.msgs))
  <2>1. r.start \in Nat /\ r.end \in Nat /\ Len(job.msgs) \in Nat
    BY DEF Records, SliceInv, CollectorTypes
  <2> QED BY <1>7, <1>8, <1>11, <2>1
<1> QED BY <1>10, <1>11

LEMMA SaveSlice ==
  ASSUME SliceInv, saveSkillExecutionMD PROVE SliceInv'
<1>1. PICK c \in job.skills :
        /\ files' = files \o Cut(c[2])
        /\ job' = IF job.skills = {c} THEN NoJob ELSE [job EXCEPT !.skills = @ \ {c}]
  BY DEF saveSkillExecutionMD
<1>2. job \in [msgs : Seq(Nat), epoch : Nat, skills : SUBSET (Nat \X Skills)]
  BY DEF SliceInv, CollectorTypes
<1>3. c[2] \in Skills
  BY <1>2
<1>4. /\ UNCHANGED <<messages, made, turn, workflowCompleted, epoch, turnEndCh, pending,
                     activeWorkflow, executions>>
  BY DEF saveSkillExecutionMD, engineVars, collectorVars
<1>5. /\ job' \in [msgs : Seq(Nat), epoch : Nat, skills : SUBSET (Nat \X Skills)]
      /\ \/ job'.msgs = <<>> /\ job'.epoch = 0
         \/ job'.msgs = job.msgs /\ job'.epoch = job.epoch
  <2>1. CASE job.skills = {c}
    BY <1>1, <2>1, NoJobType
  <2>2. CASE job.skills # {c}
    BY <1>1, <1>2, <2>2
  <2> QED BY <2>1, <2>2
<1>6. files \in Seq(Files)
  BY DEF SliceInv, CollectorTypes
<1>7. files' \in Seq(Files) /\ SliceExact'
  <2>1. CASE Cut(c[2]) = <<>>
    <3>1. files' = files
      BY <1>1, <1>6, <2>1
    <3> QED BY <1>6, <3>1 DEF SliceInv, SliceExact
  <2>2. CASE Cut(c[2]) # <<>>
    <3>1. PICK f \in Files : /\ Cut(c[2]) = <<f>>
                             /\ f.seen >= f.epoch => Head(f.msgs) = f.first
      BY <1>3, <2>2, CutExact
    <3>2. files' = files \o <<f>>
      BY <1>1, <3>1
    <3>3. files' \in Seq(Files) /\ Range(files') \subseteq Range(files) \cup {f}
      <4>1. <<f>> \in Seq(Files) /\ Len(<<f>>) = 1 /\ <<f>>[1] = f
        OBVIOUS
      <4>2. files' \in Seq(Files) /\ Len(files') = Len(files) + 1
        BY <1>6, <3>2, <4>1
      <4>3. ASSUME NEW i \in 1 .. Len(files') PROVE files'[i] \in Range(files) \cup {f}
        <5>1. CASE i \in 1 .. Len(files)
          <6>1. files'[i] = files[i]
            BY <1>6, <3>2, <4>1, <5>1
          <6> QED BY <1>6, <5>1, <6>1 DEF Range
        <5>2. CASE i = Len(files) + 1
          BY <1>6, <3>2, <4>1, <5>2
        <5> QED BY <1>6, <4>2, <5>1, <5>2
      <4> QED BY <4>2, <4>3 DEF Range
    <3> QED BY <3>1, <3>3 DEF SliceInv, SliceExact
  <2> QED BY <2>1, <2>2
<1>8. CollectorTypes'
  BY <1>4, <1>5, <1>7 DEF SliceInv, CollectorTypes
<1>9. PromptFirst' /\ RecordsMark' /\ RecordsCoherent'
  BY <1>4 DEF SliceInv, PromptFirst, RecordsMark, AllMark, Marks, RecordsCoherent
<1>10. CopyOf(job)'
  BY <1>4, <1>5, CopyTaken DEF SliceInv, CopiesAgree
<1>11. CopiesAgree'
  BY <1>4, <1>10 DEF SliceInv, CopiesAgree, CopyOf, Begins
<1> QED BY <1>7, <1>8, <1>9, <1>11 DEF SliceInv

(* An analysis takes all records of its skill, and the workflow with them. *)
LEMMA TakeRecordsSlice ==
  ASSUME SliceInv, NEW k, TakeRecordsForAnalysis(k),
         UNCHANGED <<messages, made, turn, workflowCompleted, epoch, turnEndCh, job, files>>
  PROVE  SliceInv'
<1>1. executions' = [executions EXCEPT ![k] = <<>>] /\ pending' = pending
      /\ activeWorkflow' = IF activeWorkflow = k THEN NoSkill ELSE activeWorkflow
  BY DEF TakeRecordsForAnalysis
<1>2. executions \in [Skills -> Seq(Records)]
  BY DEF SliceInv, CollectorTypes
<1>3. \A j \in Skills : executions'[j] = IF j = k THEN <<>> ELSE executions[j]
  BY <1>1, <1>2
<1>4. CollectorTypes'
  <2>1. executions' \in [Skills -> Seq(Records)]
    <3>1. \A j \in Skills : executions'[j] \in Seq(Records)
      <4>1. <<>> \in Seq(Records)
        OBVIOUS
      <4> QED BY <1>2, <1>3, <4>1
    <3>2. executions' = [j \in Skills |-> executions'[j]]
      BY <1>1, <1>2
    <3> QED BY <3>1, <3>2
  <2>2. activeWorkflow' \in Workflows \cup {NoSkill}
    BY <1>1 DEF SliceInv, CollectorTypes
  <2> QED BY <1>1, <2>1, <2>2 DEF SliceInv, CollectorTypes
<1>5. PromptFirst' /\ SliceExact' /\ CopiesAgree'
  BY DEF SliceInv, PromptFirst, SliceExact, CopiesAgree, CopyOf, Begins
<1>6. RecordsMark'
  BY <1>3 DEF SliceInv, RecordsMark, AllMark, Marks
<1>7. RecordsCoherent'
  <2>1. activeWorkflow \in Skills \cup {NoSkill}
    BY MemoryAssumption DEF SliceInv, CollectorTypes
  <2> QED BY <1>1, <1>3, <2>1 DEF SliceInv, RecordsCoherent
<1> QED BY <1>4, <1>5, <1>6, <1>7 DEF SliceInv

LEMMA SliceNext == SliceInv /\ [Next]_vars => SliceInv'
<1> SUFFICES ASSUME SliceInv, [Next]_vars PROVE SliceInv'
  OBVIOUS
<1>1. ASSUME UNCHANGED <<messages, made, epoch, pending, activeWorkflow, executions, turnEndCh,
                         job, files>>,
             workflowCompleted' \in BOOLEAN, turn' = "run" => turn = "run"
      PROVE  SliceInv'
  <2>1. CollectorTypes'
    BY <1>1 DEF SliceInv, CollectorTypes
  <2>2. PromptFirst' /\ SliceExact' /\ RecordsCoherent'
    BY <1>1 DEF SliceInv, PromptFirst, SliceExact, RecordsCoherent
  <2>3. RecordsMark' /\ CopiesAgree'
    BY <1>1 DEF SliceInv, RecordsMark, AllMark, Marks, CopiesAgree, CopyOf, Begins
  <2> QED BY <2>1, <2>2, <2>3 DEF SliceInv
<1>2. workflowCompleted \in BOOLEAN
  BY DEF SliceInv, CollectorTypes
<1>3. CASE StartTurn
  BY <1>3, StartTurnSlice
<1>4. CASE CallSkill
  BY <1>4, CallSkillSlice
<1>5. CASE AddMessage
  BY <1>5, AddMessageSlice
<1>6. CASE Compact
  BY <1>6, CompactSlice
<1>7. CASE ResetEngine
  BY <1>7, ResetSlice
<1>8. CASE HandleTurnEnd
  BY <1>8, HandOverSlice DEF HandleTurnEnd
<1>9. CASE CallWorkflowComplete \/ EndTurn \/ Stop
  BY <1>1, <1>2, <1>9 DEF CallWorkflowComplete, EndTurn, Stop, collectorVars, workerVars
<1>10. CASE TakeTurnEnd
  BY <1>10, TakeTurnEndSlice
<1>11. CASE saveSkillExecutionMD
  BY <1>11, SaveSlice
<1>12. CASE Exit
  BY <1>1, <1>2, <1>12 DEF Exit, engineVars, collectorVars
<1>13. ASSUME NEW a \in Ids, Analyse(a) PROVE SliceInv'
  <2>1. CASE TriggerSkillAnalysis(a)
    <3>1. /\ TakeRecordsForAnalysis(SkillOf(a))
          /\ UNCHANGED <<messages, made, turn, workflowCompleted, epoch, turnEndCh, job, files>>
      BY <2>1 DEF TriggerSkillAnalysis, engineVars, workerVars
    <3> QED BY <3>1, TakeRecordsSlice
  <2>2. CASE ~TriggerSkillAnalysis(a)
    <3>1. UNCHANGED <<messages, made, turn, workflowCompleted, epoch, pending, activeWorkflow,
                      executions, turnEndCh, job, files>>
      BY <1>13, <2>2 DEF Analyse, checkSkillThreshold, ListFiles, Claim, ReadFiles, Query, Write,
                         RemoveBatch, engineVars, workerVars, collectorVars
    <3> QED BY <1>1, <1>2, <3>1
  <2> QED BY <2>1, <2>2
<1>14. CASE UNCHANGED vars
  BY <1>1, <1>2, <1>14 DEF vars, engineVars, workerVars, collectorVars
<1> QED BY <1>3, <1>4, <1>5, <1>6, <1>7, <1>8, <1>9, <1>10, <1>11, <1>12, <1>13, <1>14
        DEF Next, Work

(* However the engine's loop, the worker and the analyses call the         *)
(* collector (skillcollector.go:105-209): an active workflow has a last    *)
(* record that is open, and only last records are open.                    *)
THEOREM CollectorCoherent == Spec => []RecordsCoherent
<1>1. Spec => []SliceInv
  BY SliceInit, SliceNext, PTL DEF Spec
<1>2. SliceInv => RecordsCoherent
  BY DEF SliceInv
<1> QED BY <1>1, <1>2, PTL

(* An execution file (saveSkillExecutionMD, memoryworker.go) begins with   *)
(* the message its record was started at, for any lengths of history,      *)
(* turns queued, resets and compactions.                                   *)
THEOREM FilesExact == Spec => []SliceExact
<1>1. Spec => []SliceInv
  BY SliceInit, SliceNext, PTL DEF Spec
<1>2. SliceInv => SliceExact
  BY DEF SliceInv
<1> QED BY <1>1, <1>2, PTL

=================================================================================
