---------------------------- MODULE FileStateProofs ----------------------------
(***************************************************************************)
(* Proof that the shared tracker keeps unread changes of the user, for any *)
(* number of callers, files and names of them.  While a file holds a       *)
(* change that no call has read, there is a time T, that of the change,    *)
(* which tells the times recorded before it from those found since, and no *)
(* call is between a look at the file and a look at the time.              *)
(***************************************************************************)
EXTENDS FileState, TLAPS

(* Changes are numbered as they come, and what a call has read or will     *)
(* write is not unread.                                                    *)
NumberedFile(f) ==
  disk[f].text \subseteq 0 .. calls + saves /\ unread[f] \subseteq 1 .. calls + saves
NumberedCall(c) ==
  /\ call[c].data \subseteq 0 .. calls + saves /\ call[c].change \in 0 .. calls + saves
  /\ \A f \in Files : call[c].change \notin unread[f]
  /\ ~At(c, "idle") => call[c].data \cap unread[FileOf(c)] = {}
  /\ At(c, "getstate") => call[c].op \in {"write", "edit"}
Numbered ==
  (\A f \in Files : NumberedFile(f)) /\ (\A c \in Callers : NumberedCall(c))

HasUnread(f) == unread[f] \cap disk[f].text # {}

QuietCall(c, f, T) ==
  ~At(c, "idle") /\ FileOf(c) = f =>
    /\ call[c].pc \notin {"write", "restat"}
    /\ At(c, "record") => call[c].mtime < T
    /\ At(c, "check") \/ (call[c].op = "write" /\ At(c, "getstate")) => T <= call[c].mtime

Quiet(f, T) ==
  /\ T <= disk[f].mtime
  /\ \A p \in Paths : File[p] = f => states[p] < T
  /\ \A c \in Callers : QuietCall(c, f, T)

Guarded == \A f \in Files : HasUnread(f) => \E T \in Nat : Quiet(f, T)

IInv == TypeOK /\ Numbered /\ Guarded

-----------------------------------------------------------------------------
(* Types.                                                                  *)

USE PathsAssumption, BoundsAssumption

LEMMA InitTypes == Init => TypeOK
<1> SUFFICES ASSUME Init PROVE TypeOK
  OBVIOUS
<1>1. DiskOK
  <2>1. {0} \in SUBSET Changes /\ {} \in SUBSET Changes
    BY DEF Changes
  <2>2. \A f \in Files : \/ disk[f] = [exists |-> TRUE, text |-> {0}, mtime |-> 1]
                        \/ disk[f] = [exists |-> FALSE, text |-> {}, mtime |-> 0]
    BY DEF Init
  <2>3. disk \in [Files -> [exists : BOOLEAN, text : SUBSET Changes, mtime : Nat]]
    <3>1. /\ [exists |-> TRUE, text |-> {0}, mtime |-> 1]
               \in [exists : BOOLEAN, text : SUBSET Changes, mtime : Nat]
          /\ [exists |-> FALSE, text |-> {}, mtime |-> 0]
               \in [exists : BOOLEAN, text : SUBSET Changes, mtime : Nat]
      BY <2>1
    <3> QED
      BY <2>2, <3>1 DEF Init
  <2>4. clock = 1 /\ clock \in Nat \ {0}
    BY DEF Init
  <2>5. ASSUME NEW f \in Files
        PROVE  disk[f].mtime <= clock /\ (disk[f].exists <=> disk[f].mtime # 0)
               /\ (~disk[f].exists => disk[f].text = {})
    <3>1. CASE disk[f] = [exists |-> TRUE, text |-> {0}, mtime |-> 1]
      BY <3>1, <2>4
    <3>2. CASE disk[f] = [exists |-> FALSE, text |-> {}, mtime |-> 0]
      BY <3>2, <2>4
    <3> QED
      BY <3>1, <3>2, <2>2
  <2>6. \A f \in Files : disk[f].mtime <= clock
    BY <2>5
  <2>7. \A f \in Files : disk[f].exists <=> disk[f].mtime # 0
    BY <2>5
  <2>8. \A f \in Files : ~disk[f].exists => disk[f].text = {}
    BY <2>5
  <2> QED
    BY <2>3, <2>4, <2>6, <2>7, <2>8 DEF DiskOK
<1>2. TrackerOK
  BY DEF Init, TrackerOK, NotRead
<1>3. CallsOK
  <2>1. Idle \in Calls
    BY DEF Idle, Calls, Changes
  <2> QED
    BY <2>1 DEF Init, CallsOK, Idle
<1> QED
  BY <1>1, <1>2, <1>3 DEF Init, TypeOK

LEMMA StoreTypes ==
  ASSUME DiskOK, NEW f \in Files, NEW text \in SUBSET Changes, Store(f, text)
  PROVE  DiskOK' /\ clock <= clock'
<1> PICK t \in {clock, clock + 1} :
      /\ clock' = t
      /\ disk' = [disk EXCEPT ![f] = [exists |-> TRUE, text |-> text, mtime |-> t]]
  BY DEF Store
<1>1. t \in Nat \ {0} /\ clock <= t
  BY DEF DiskOK
<1>2. [exists |-> TRUE, text |-> text, mtime |-> t]
        \in [exists : BOOLEAN, text : SUBSET Changes, mtime : Nat]
  BY <1>1
<1>3. disk' \in [Files -> [exists : BOOLEAN, text : SUBSET Changes, mtime : Nat]]
  BY <1>2 DEF DiskOK
<1>4. \A g \in Files : /\ disk'[g].mtime <= clock'
                      /\ disk'[g].exists <=> disk'[g].mtime # 0
                      /\ ~disk'[g].exists => disk'[g].text = {}
  <2> SUFFICES ASSUME NEW g \in Files
               PROVE  /\ disk'[g].mtime <= clock'
                      /\ disk'[g].exists <=> disk'[g].mtime # 0
                      /\ ~disk'[g].exists => disk'[g].text = {}
    OBVIOUS
  <2>1. CASE g = f
    BY <2>1, <1>1 DEF DiskOK
  <2>2. CASE g # f
    BY <2>2, <1>1 DEF DiskOK
  <2> QED
    BY <2>1, <2>2
<1> QED
  BY <1>1, <1>3, <1>4 DEF DiskOK

LEMMA NewTexts ==
  ASSUME CallsOK, NEW c \in Callers, NEW text \in NewContents(c)
  PROVE  text \in SUBSET Changes
<1>1. call[c].data \in SUBSET Changes /\ call[c].change \in Changes
  BY DEF CallsOK, Calls
<1> QED
  BY <1>1 DEF NewContents

(* The call of c is replaced by r.                                         *)
LEMMA CallReplaced ==
  ASSUME CallsOK, clock \in Nat, clock' \in Nat, clock <= clock', NEW c \in Callers, NEW r \in Calls,
         call' = [call EXCEPT ![c] = r],
         r.mtime <= clock', r.pc # "idle" => r.path \in Paths
  PROVE  CallsOK'
<1>1. call' \in [Callers -> Calls]
  BY DEF CallsOK
<1>2. \A d \in Callers : call[d].mtime \in Nat
  BY DEF CallsOK, Calls
<1>3. \A d \in Callers : call'[d] = IF d = c THEN r ELSE call[d]
  BY DEF CallsOK
<1> QED
  BY <1>1, <1>2, <1>3 DEF CallsOK

LEMMA Returned ==
  ASSUME CallsOK, clock \in Nat, clock' = clock, NEW c \in Callers, Return(c)
  PROVE  CallsOK'
<1>1. Idle \in Calls /\ Idle.mtime = 0 /\ Idle.pc = "idle"
  BY DEF Idle, Calls, Changes
<1> QED
  BY <1>1 DEF Return, CallsOK

LEMMA WentTo ==
  ASSUME CallsOK, clock \in Nat, clock' \in Nat, clock <= clock', NEW c \in Callers, ~At(c, "idle"),
         NEW pc \in {"stat", "check", "write", "restat", "record"}, NEW t \in Nat, t <= clock',
         call' = [call EXCEPT ![c].pc = pc, ![c].mtime = t]
  PROVE  CallsOK'
<1> DEFINE r == [call[c] EXCEPT !.pc = pc, !.mtime = t]
<1>1. r \in Calls /\ r.path = call[c].path /\ r.mtime = t
  BY DEF CallsOK, Calls
<1>2. call' = [call EXCEPT ![c] = r]
  BY DEF CallsOK
<1>3. r.path = call[c].path /\ r.path \in Paths
  BY <1>1 DEF CallsOK, At
<1> HIDE DEF r
<1> QED
  BY <1>1, <1>2, <1>3, CallReplaced DEF CallsOK

LEMMA Begun ==
  ASSUME TypeOK, NEW c \in Callers, NEW op \in {"read", "write", "edit"}, NEW path \in Paths,
         NEW pc \in {"getstate", "write", "restat"}, NEW data \in SUBSET Changes,
         NEW t \in Nat, t <= clock, Begin(c, op, path, pc, data, t),
         UNCHANGED <<disk, clock, states, saves>>, unread' \in [Files -> SUBSET Changes]
  PROVE  TypeOK'
<1> DEFINE r == [op |-> op, path |-> path, pc |-> pc, data |-> data, mtime |-> t,
                 change |-> NextChange]
<1>1. calls < MaxCalls /\ calls' = calls + 1 /\ call' = [call EXCEPT ![c] = r]
  BY DEF Begin
<1>2. NextChange \in Changes /\ calls' \in 0 .. MaxCalls
  BY <1>1 DEF TypeOK, Changes, NextChange
<1>3. r \in Calls
  BY <1>2 DEF Calls
<1>4. CallsOK'
  <2>1. CallsOK /\ clock \in Nat /\ clock' = clock /\ r.mtime = t /\ r.path = path
    BY DEF TypeOK, DiskOK
  <2>2. r.pc # "idle" => r.path \in Paths
    OBVIOUS
  <2> HIDE DEF r
  <2>3. r.mtime <= clock' /\ clock' \in Nat /\ clock <= clock'
    BY <2>1
  <2> QED
    BY <1>1, <1>3, <2>1, <2>2, <2>3, CallReplaced
<1>5. DiskOK' /\ TrackerOK'
  BY DEF TypeOK, DiskOK, TrackerOK
<1> QED
  BY <1>2, <1>4, <1>5 DEF TypeOK

LEMMA ToolTypes ==
  ASSUME TypeOK, NEW c \in Callers, ToolStep(c)
  PROVE  TypeOK'
<1>0. /\ DiskOK /\ TrackerOK /\ CallsOK /\ clock \in Nat
      /\ unread \in [Files -> SUBSET Changes]
  BY DEF TypeOK, DiskOK
<1>1. ASSUME NEW p \in Paths, NEW op \in {"read", "edit"}, NEW pc \in {"restat", "getstate"},
             ReadFile(c, op, p, pc)
      PROVE  TypeOK'
  <2>1. File[p] \in Files /\ disk[File[p]].text \in SUBSET Changes
    BY <1>0 DEF DiskOK
  <2> DEFINE data == disk[File[p]].text
  <2>2. Begin(c, op, p, pc, data, 0) /\ UNCHANGED <<disk, clock, states, saves>>
    BY <1>1 DEF ReadFile
  <2>3. unread' \in [Files -> SUBSET Changes]
    BY <1>0, <1>1, <2>1 DEF ReadFile
  <2>4. 0 <= clock /\ data \in SUBSET Changes
    BY <1>0, <2>1
  <2> HIDE DEF data
  <2> QED
    BY <2>2, <2>3, <2>4, Begun
<1>2. ASSUME NEW p \in Paths, FileWrite(c, p) PROVE TypeOK'
  <2> DEFINE path == Clean[p]
             t    == getFileMtime(File[path])
             pc   == IF disk[File[path]].exists THEN "getstate" ELSE "write"
  <2>1. path \in Paths /\ File[path] \in Files /\ pc \in {"getstate", "write"}
    OBVIOUS
  <2>2. t \in Nat /\ t <= clock
    BY <1>0, <2>1 DEF DiskOK, getFileMtime
  <2>3. Begin(c, "write", path, pc, {}, t) /\ UNCHANGED <<disk, clock, states, saves, unread>>
    BY <1>2 DEF FileWrite
  <2>4. {} \in SUBSET Changes
    OBVIOUS
  <2> HIDE DEF path, t, pc
  <2> QED
    BY <1>0, <2>1, <2>2, <2>3, <2>4, Begun
<1>3. ASSUME Return(c), UNCHANGED <<disk, clock, states, calls, saves, unread>> PROVE TypeOK'
  <2>1. CallsOK'
    BY <1>0, <1>3, Returned
  <2> QED
    BY <1>3, <2>1 DEF TypeOK, DiskOK, TrackerOK
<1>4. ASSUME NEW pc \in {"stat", "check", "write", "restat", "record"}, ~At(c, "idle"),
             NEW t \in Nat, t <= clock, call' = [call EXCEPT ![c].pc = pc, ![c].mtime = t],
             UNCHANGED <<disk, clock, states, calls, saves, unread>>
      PROVE  TypeOK'
  <2>0. clock' = clock /\ clock' \in Nat /\ clock <= clock' /\ t <= clock'
    BY <1>0, <1>4
  <2>1. CallsOK'
    BY <1>0, <1>4, <2>0, WentTo
  <2> QED
    BY <1>4, <2>1 DEF TypeOK, DiskOK, TrackerOK
<1>5. ASSUME NEW pc \in {"stat", "check", "write", "restat", "record"}, ~At(c, "idle"), Goto(c, pc),
             UNCHANGED <<disk, clock, states, calls, saves, unread>>
      PROVE  TypeOK'
  <2>1. call[c].mtime \in Nat /\ call[c].mtime <= clock
    BY <1>0 DEF CallsOK, Calls
  <2>2. call' = [call EXCEPT ![c].pc = pc, ![c].mtime = call[c].mtime]
    BY <1>0, <1>5 DEF Goto, CallsOK, Calls
  <2> QED
    BY <1>4, <1>5, <2>1, <2>2
<1>6. ASSUME ~At(c, "idle")
      PROVE  FileOf(c) \in Files /\ getFileMtime(FileOf(c)) \in Nat /\ getFileMtime(FileOf(c)) <= clock
  BY <1>0, <1>6 DEF CallsOK, DiskOK, FileOf, At, getFileMtime
<1>7. CASE GetState(c)
  BY <1>3, <1>5, <1>7 DEF GetState, At
<1>8. CASE EditStat(c)
  <2> DEFINE t  == getFileMtime(FileOf(c))
             pc == IF disk[FileOf(c)].exists THEN "check" ELSE "write"
  <2>1. /\ ~At(c, "idle") /\ call' = [call EXCEPT ![c].pc = pc, ![c].mtime = t]
        /\ UNCHANGED <<disk, clock, states, calls, saves, unread>>
    BY <1>8 DEF EditStat, At
  <2>2. t \in Nat /\ t <= clock
    BY <1>6, <2>1
  <2>3. pc \in {"check", "write"}
    OBVIOUS
  <2> HIDE DEF t, pc
  <2> QED
    BY <1>4, <2>1, <2>2, <2>3
<1>9. CASE Check(c)
  BY <1>3, <1>5, <1>9 DEF Check, At
<1>10. CASE WriteFile(c)
  <2>1. PICK text \in NewContents(c) : Store(FileOf(c), text)
    BY <1>10 DEF WriteFile
  <2>2. ~At(c, "idle") /\ Goto(c, "restat") /\ UNCHANGED <<states, calls, saves, unread>>
    BY <1>10 DEF WriteFile, At
  <2>3. text \in SUBSET Changes
    BY <1>0, NewTexts
  <2>4. DiskOK' /\ clock <= clock'
    BY <1>0, <1>6, <2>1, <2>2, <2>3, StoreTypes
  <2>5. clock' \in Nat
    BY <2>4 DEF DiskOK
  <2>6. call[c].mtime \in Nat /\ call[c].mtime <= clock'
    BY <1>0, <2>4, <2>5 DEF CallsOK, Calls
  <2>7. call' = [call EXCEPT ![c].pc = "restat", ![c].mtime = call[c].mtime]
    BY <1>0, <2>2 DEF Goto, CallsOK, Calls
  <2>8. CallsOK'
    BY <1>0, <2>2, <2>4, <2>5, <2>6, <2>7, WentTo
  <2>9. TrackerOK'
    BY <1>0, <2>2, <2>4, <2>5 DEF TrackerOK, NotRead
  <2> QED
    BY <2>2, <2>4, <2>8, <2>9 DEF TypeOK
<1>11. CASE Fail(c)
  BY <1>3, <1>11 DEF Fail
<1>12. CASE Restat(c)
  <2> DEFINE t == getFileMtime(FileOf(c))
  <2>1. /\ ~At(c, "idle") /\ call' = [call EXCEPT ![c].pc = "record", ![c].mtime = t]
        /\ UNCHANGED <<disk, clock, states, calls, saves, unread>>
    BY <1>12 DEF Restat, At
  <2>2. t \in Nat /\ t <= clock
    BY <1>6, <2>1
  <2> HIDE DEF t
  <2> QED
    BY <1>4, <2>1, <2>2
<1>13. CASE RecordRead(c)
  <2>1. CallsOK'
    BY <1>0, <1>13, Returned DEF RecordRead
  <2>2. call[c].mtime \in Nat /\ call[c].mtime <= clock
    BY <1>0 DEF CallsOK, Calls
  <2>3. TrackerOK'
    BY <1>0, <1>13, <2>2 DEF RecordRead, TrackerOK
  <2> QED
    BY <1>13, <2>1, <2>3 DEF RecordRead, TypeOK, DiskOK
<1>14. CASE \E p \in Paths : FileRead(c, p) \/ FileEdit(c, p)
  BY <1>1, <1>14 DEF FileRead, FileEdit
<1> QED
  BY <1>2, <1>7, <1>8, <1>9, <1>10, <1>11, <1>12, <1>13, <1>14 DEF ToolStep

LEMMA StepTypes == TypeOK /\ [Next]_vars => TypeOK'
<1> SUFFICES ASSUME TypeOK, [Next]_vars PROVE TypeOK'
  OBVIOUS
<1>0. /\ DiskOK /\ TrackerOK /\ CallsOK /\ clock \in Nat
      /\ unread \in [Files -> SUBSET Changes]
  BY DEF TypeOK, DiskOK
<1>1. ASSUME NEW f \in Files, Save(f) PROVE TypeOK'
  <2>1. PICK text \in {disk[f].text \cup {NextChange}, {NextChange}} : Store(f, text)
    BY <1>1 DEF Save
  <2>2. NextChange \in Changes /\ saves' \in 0 .. MaxSaves
    BY <1>1 DEF Save, TypeOK, Changes, NextChange
  <2>3. text \in SUBSET Changes
    BY <1>0, <2>2 DEF DiskOK
  <2>4. DiskOK' /\ clock <= clock'
    BY <1>0, <2>1, <2>3, StoreTypes
  <2>5. clock' \in Nat /\ UNCHANGED <<states, call, calls>>
    BY <1>1, <2>4 DEF DiskOK, Save
  <2>6. CallsOK' /\ TrackerOK'
    BY <1>0, <2>4, <2>5 DEF CallsOK, Calls, TrackerOK, NotRead
  <2>7. unread' \in [Files -> SUBSET Changes]
    BY <1>0, <1>1, <2>2 DEF Save
  <2> QED
    BY <2>2, <2>4, <2>5, <2>6, <2>7 DEF TypeOK
<1>2. ASSUME NEW f \in Files, Delete(f) PROVE TypeOK'
  <2> DEFINE gone == [exists |-> FALSE, text |-> {}, mtime |-> 0]
  <2>1. disk' = [disk EXCEPT ![f] = gone] /\ UNCHANGED <<clock, states, call, calls, unread>>
    BY <1>2 DEF Delete
  <2>2. gone \in [exists : BOOLEAN, text : SUBSET Changes, mtime : Nat]
    OBVIOUS
  <2>3. disk' \in [Files -> [exists : BOOLEAN, text : SUBSET Changes, mtime : Nat]]
    BY <1>0, <2>1, <2>2 DEF DiskOK
  <2>4. \A g \in Files : disk'[g] = IF g = f THEN gone ELSE disk[g]
    BY <1>0, <2>1 DEF DiskOK
  <2>5. DiskOK'
    BY <1>0, <2>1, <2>3, <2>4 DEF DiskOK
  <2>6. saves' \in 0 .. MaxSaves
    BY <1>2 DEF Delete, TypeOK
  <2>7. CallsOK' /\ TrackerOK'
    BY <1>0, <2>1 DEF CallsOK, TrackerOK
  <2> QED
    BY <2>1, <2>5, <2>6, <2>7 DEF TypeOK
<1>3. CASE UNCHANGED vars
  BY <1>3 DEF vars, TypeOK, DiskOK, TrackerOK, CallsOK
<1> QED
  BY <1>1, <1>2, <1>3, ToolTypes DEF Next

(* The tracker, the files and the calls keep their types; in particular no *)
(* recorded time is ahead of the clock.                                    *)
THEOREM TypeCorrect == Spec => []TypeOK
BY InitTypes, StepTypes, PTL DEF Spec

-----------------------------------------------------------------------------
(* Numbers.                                                                *)

LEMMA InitNumbered == Init => Numbered
<1> SUFFICES ASSUME Init PROVE Numbered
  OBVIOUS
<1>1. ASSUME NEW f \in Files PROVE NumberedFile(f)
  BY DEF Init, NumberedFile
<1>2. ASSUME NEW c \in Callers PROVE NumberedCall(c)
  BY DEF Init, Idle, NumberedCall, At
<1> QED
  BY <1>1, <1>2 DEF Numbered

(* A step that makes no change and adds nothing to what is unread.         *)
LEMMA NumbersKept ==
  ASSUME TypeOK, Numbered, NEW c \in Callers,
         calls' = calls \/ calls' = calls + 1, saves' = saves,
         \A f \in Files : disk'[f].text \subseteq 0 .. calls' + saves' /\ unread'[f] \subseteq unread[f],
         \A d \in Callers \ {c} : call'[d] = call[d],
         NumberedCall(c)'
  PROVE  Numbered'
<1>0. calls \in Nat /\ saves \in Nat
  BY DEF TypeOK
<1>1. ASSUME NEW f \in Files PROVE NumberedFile(f)'
  BY <1>0 DEF Numbered, NumberedFile
<1>2. ASSUME NEW d \in Callers, d # c PROVE NumberedCall(d)'
  <2>1. NumberedCall(d) /\ call'[d] = call[d]
    BY <1>2 DEF Numbered
  <2>2. ~At(d, "idle") => FileOf(d) \in Files
    BY <1>2 DEF TypeOK, CallsOK, At, FileOf
  <2> QED
    BY <1>0, <2>1, <2>2 DEF NumberedCall, At, FileOf
<1> QED
  BY <1>1, <1>2 DEF Numbered

(* A call that ends or goes on with what it has read.                      *)
LEMMA NumbersOfCall ==
  ASSUME TypeOK, Numbered, NEW c \in Callers, UNCHANGED <<calls, saves, unread>>,
         \A f \in Files : disk'[f].text \subseteq 0 .. calls' + saves',
         \/ Return(c)
         \/ /\ ~At(c, "idle") /\ \A d \in Callers \ {c} : call'[d] = call[d]
            /\ call'[c].data = call[c].data /\ call'[c].change = call[c].change
            /\ call'[c].path = call[c].path /\ call'[c].pc # "getstate"
  PROVE  Numbered'
<1>0. calls \in Nat /\ saves \in Nat
  BY DEF TypeOK
<1>1. \A d \in Callers \ {c} : call'[d] = call[d]
  BY DEF Return, TypeOK, CallsOK
<1>2. NumberedCall(c)'
  <2>1. CASE Return(c)
    <3>1. call'[c] = Idle
      BY <2>1 DEF Return, TypeOK, CallsOK
    <3>2. \A f \in Files : 0 \notin unread'[f]
      BY <1>0 DEF Numbered, NumberedFile
    <3> QED
      BY <1>0, <3>1, <3>2 DEF NumberedCall, Idle, At
  <2>2. CASE ~Return(c)
    BY <2>2 DEF Numbered, NumberedCall, At, FileOf
  <2> QED
    BY <2>1, <2>2
<1> QED
  BY <1>0, <1>1, <1>2, NumbersKept

LEMMA ToolNumbers ==
  ASSUME TypeOK, Numbered, NEW c \in Callers, ToolStep(c)
  PROVE  Numbered'
<1>0. /\ calls \in Nat /\ saves \in Nat /\ call \in [Callers -> Calls]
      /\ \A f \in Files : disk[f].text \subseteq 0 .. calls + saves
      /\ \A f \in Files : unread[f] \subseteq 1 .. calls + saves
  BY DEF TypeOK, CallsOK, Numbered, NumberedFile
<1>1. ASSUME NEW p \in Paths, NEW op \in {"read", "edit"}, NEW pc \in {"restat", "getstate"},
             pc = "getstate" => op = "edit", ReadFile(c, op, p, pc)
      PROVE  Numbered'
  <2> DEFINE f == File[p]
             r == [op |-> op, path |-> p, pc |-> pc, data |-> disk[f].text, mtime |-> 0,
                   change |-> NextChange]
  <2>1. /\ f \in Files /\ calls' = calls + 1 /\ UNCHANGED <<disk, saves>>
        /\ call' = [call EXCEPT ![c] = r]
        /\ unread' = [unread EXCEPT ![f] = @ \ disk[f].text]
    BY <1>1 DEF ReadFile, Begin
  <2>2. \A g \in Files : unread'[g] \subseteq unread[g] /\ disk'[g].text \subseteq 0 .. calls' + saves'
    BY <1>0, <2>1 DEF TypeOK
  <2>3. call'[c] = r /\ \A d \in Callers \ {c} : call'[d] = call[d]
    BY <1>0, <2>1
  <2>4. NumberedCall(c)'
    <3>1. r.data \subseteq 0 .. calls' + saves' /\ r.change \in 0 .. calls' + saves'
      BY <1>0, <2>1 DEF NextChange
    <3>2. \A g \in Files : r.change \notin unread'[g]
      BY <1>0, <2>2 DEF NextChange
    <3>3. r.data \cap unread'[f] = {}
      BY <2>1 DEF TypeOK
    <3>4. r.path = p /\ r.op = op /\ r.pc = pc
      OBVIOUS
    <3> HIDE DEF r
    <3> QED
      BY <1>1, <2>3, <3>1, <3>2, <3>3, <3>4 DEF NumberedCall, At, FileOf
  <2> HIDE DEF f, r
  <2> QED
    BY <2>1, <2>2, <2>3, <2>4, NumbersKept
<1>2. ASSUME NEW p \in Paths, FileWrite(c, p) PROVE Numbered'
  <2> DEFINE path == Clean[p]
             r == [op |-> "write", path |-> path,
                   pc |-> IF disk[File[path]].exists THEN "getstate" ELSE "write",
                   data |-> {}, mtime |-> getFileMtime(File[path]), change |-> NextChange]
  <2>1. /\ calls' = calls + 1 /\ UNCHANGED <<disk, saves, unread>>
        /\ call' = [call EXCEPT ![c] = r]
    BY <1>2 DEF FileWrite, Begin
  <2>2. call'[c] = r /\ \A d \in Callers \ {c} : call'[d] = call[d]
    BY <1>0, <2>1
  <2>3. /\ r.data = {} /\ r.op = "write" /\ r.change \in 0 .. calls' + saves'
        /\ \A g \in Files : r.change \notin unread'[g]
    BY <1>0, <2>1 DEF NextChange
  <2>4. \A g \in Files : disk'[g].text \subseteq 0 .. calls' + saves' /\ unread'[g] \subseteq unread[g]
    BY <1>0, <2>1
  <2> HIDE DEF path, r
  <2>5. NumberedCall(c)'
    BY <2>2, <2>3 DEF NumberedCall
  <2> QED
    BY <2>1, <2>2, <2>4, <2>5, NumbersKept
<1>3. ASSUME NEW pc \in {"stat", "check", "write", "restat", "record"}, ~At(c, "idle"), Goto(c, pc)
      PROVE  /\ \A d \in Callers \ {c} : call'[d] = call[d]
             /\ call'[c].data = call[c].data /\ call'[c].change = call[c].change
             /\ call'[c].path = call[c].path /\ call'[c].pc # "getstate"
  BY <1>0, <1>3 DEF Goto, Calls
<1>4. ASSUME NEW pc \in {"check", "write", "record"}, NEW t,
             call' = [call EXCEPT ![c].pc = pc, ![c].mtime = t]
      PROVE  /\ \A d \in Callers \ {c} : call'[d] = call[d]
             /\ call'[c].data = call[c].data /\ call'[c].change = call[c].change
             /\ call'[c].path = call[c].path /\ call'[c].pc # "getstate"
  BY <1>0, <1>4 DEF Calls
<1>5. ASSUME UNCHANGED <<disk, calls, saves>>
      PROVE  \A f \in Files : disk'[f].text \subseteq 0 .. calls' + saves'
  BY <1>0, <1>5
<1>6. CASE GetState(c)
  <2>1. UNCHANGED <<disk, calls, saves, unread>> /\ ~At(c, "idle")
    BY <1>6 DEF GetState, At
  <2>2. Return(c) \/ \E pc \in {"stat", "check"} : Goto(c, pc)
    BY <1>6 DEF GetState
  <2> QED
    BY <1>3, <1>5, <2>1, <2>2, NumbersOfCall
<1>7. CASE EditStat(c)
  <2>1. UNCHANGED <<disk, calls, saves, unread>> /\ ~At(c, "idle")
    BY <1>7 DEF EditStat, At
  <2>2. \E pc \in {"check", "write"} :
          call' = [call EXCEPT ![c].pc = pc, ![c].mtime = getFileMtime(FileOf(c))]
    BY <1>7 DEF EditStat
  <2> QED
    BY <1>4, <1>5, <2>1, <2>2, NumbersOfCall
<1>8. CASE Check(c)
  <2>1. UNCHANGED <<disk, calls, saves, unread>> /\ ~At(c, "idle") /\ (Return(c) \/ Goto(c, "write"))
    BY <1>8 DEF Check, At
  <2> QED
    BY <1>3, <1>5, <2>1, NumbersOfCall
<1>9. CASE WriteFile(c)
  <2>1. UNCHANGED <<calls, saves, unread>> /\ ~At(c, "idle") /\ Goto(c, "restat")
    BY <1>9 DEF WriteFile, At
  <2>2. PICK text \in NewContents(c) : Store(FileOf(c), text)
    BY <1>9 DEF WriteFile
  <2>3. text \subseteq 0 .. calls + saves
    BY <2>2 DEF NewContents, Numbered, NumberedCall
  <2>4. \A f \in Files : disk'[f].text = IF f = FileOf(c) THEN text ELSE disk[f].text
    BY <2>2 DEF Store, TypeOK, DiskOK
  <2>5. \A f \in Files : disk'[f].text \subseteq 0 .. calls' + saves'
    BY <1>0, <2>1, <2>3, <2>4
  <2> QED
    BY <1>3, <2>1, <2>5, NumbersOfCall
<1>10. CASE Fail(c)
  BY <1>5, <1>10, NumbersOfCall DEF Fail
<1>11. CASE Restat(c)
  <2>1. UNCHANGED <<disk, calls, saves, unread>> /\ ~At(c, "idle")
    BY <1>11 DEF Restat, At
  <2>2. call' = [call EXCEPT ![c].pc = "record", ![c].mtime = getFileMtime(FileOf(c))]
    BY <1>11 DEF Restat
  <2> QED
    BY <1>4, <1>5, <2>1, <2>2, NumbersOfCall
<1>12. CASE RecordRead(c)
  BY <1>5, <1>12, NumbersOfCall DEF RecordRead
<1>13. CASE \E p \in Paths : FileRead(c, p) \/ FileEdit(c, p)
  BY <1>1, <1>13 DEF FileRead, FileEdit
<1> QED
  BY <1>2, <1>6, <1>7, <1>8, <1>9, <1>10, <1>11, <1>12, <1>13 DEF ToolStep

LEMMA StepNumbers == TypeOK /\ Numbered /\ [Next]_vars => Numbered'
<1> SUFFICES ASSUME TypeOK, Numbered, [Next]_vars PROVE Numbered'
  OBVIOUS
<1>0. calls \in Nat /\ saves \in Nat
  BY DEF TypeOK
<1>1. ASSUME NEW g \in Files, NEW m \in {NextChange}, NEW text \in SUBSET (disk[g].text \cup {m}),
             UNCHANGED <<call, calls>>, saves' = saves + 1,
             \A f \in Files : disk'[f].text \in {disk[f].text, disk[g].text \cup {m}, text}
                                /\ (f # g => disk'[f].text = disk[f].text),
             \A f \in Files : unread'[f] \subseteq unread[f] \cup {m}
      PROVE  Numbered'
  <2>1. m = calls + saves + 1
    BY DEF NextChange
  <2>2. ASSUME NEW f \in Files PROVE NumberedFile(f)'
    <3>1. disk[f].text \subseteq 0 .. calls + saves /\ unread[f] \subseteq 1 .. calls + saves
      BY DEF Numbered, NumberedFile
    <3>2. disk[g].text \subseteq 0 .. calls + saves
      BY DEF Numbered, NumberedFile
    <3> QED
      BY <1>0, <1>1, <2>1, <3>1, <3>2 DEF NumberedFile
  <2>3. ASSUME NEW c \in Callers PROVE NumberedCall(c)'
    <3>1. NumberedCall(c) /\ (~At(c, "idle") => FileOf(c) \in Files)
      BY DEF Numbered, TypeOK, CallsOK, At, FileOf
    <3>2. m \notin call[c].data /\ m # call[c].change
      BY <1>0, <2>1, <3>1 DEF NumberedCall
    <3> QED
      BY <1>0, <1>1, <3>1, <3>2 DEF NumberedCall, At, FileOf
  <2> QED
    BY <2>2, <2>3 DEF Numbered
<1>2. ASSUME NEW g \in Files, Save(g) PROVE Numbered'
  <2>1. PICK text \in {disk[g].text \cup {NextChange}, {NextChange}} : Store(g, text)
    BY <1>2 DEF Save
  <2>2. text \in SUBSET (disk[g].text \cup {NextChange})
    OBVIOUS
  <2>3. UNCHANGED <<call, calls>> /\ saves' = saves + 1
    BY <1>2 DEF Save
  <2>4. \A f \in Files : disk'[f].text = IF f = g THEN text ELSE disk[f].text
    BY <2>1 DEF Store, TypeOK, DiskOK
  <2>5. \A f \in Files : unread'[f] \subseteq unread[f] \cup {NextChange}
    BY <1>2 DEF Save, TypeOK
  <2> QED
    BY <1>1, <2>2, <2>3, <2>4, <2>5
<1>3. ASSUME NEW g \in Files, Delete(g) PROVE Numbered'
  <2>1. {} \in SUBSET (disk[g].text \cup {NextChange})
    OBVIOUS
  <2>2. UNCHANGED <<call, calls, unread>> /\ saves' = saves + 1
    BY <1>3 DEF Delete
  <2>3. \A f \in Files : disk'[f].text = IF f = g THEN {} ELSE disk[f].text
    BY <1>3 DEF Delete, TypeOK, DiskOK
  <2> QED
    BY <1>1, <2>1, <2>2, <2>3
<1>4. CASE UNCHANGED vars
  BY <1>4 DEF vars, Numbered, NumberedFile, NumberedCall, At, FileOf
<1> QED
  BY <1>2, <1>3, <1>4, ToolNumbers DEF Next

-----------------------------------------------------------------------------
(* The time that guards an unread change.                                  *)

LEMMA InitGuarded == Init => Guarded
BY DEF Init, Guarded, HasUnread

(* No call brings an unread change back.                                   *)
LEMMA ToolUnread ==
  ASSUME TypeOK, Numbered, NEW c \in Callers, ToolStep(c), NEW f \in Files, HasUnread(f)'
  PROVE  HasUnread(f)
<1>1. ASSUME UNCHANGED disk, unread'[f] \subseteq unread[f] PROVE HasUnread(f)
  BY <1>1 DEF HasUnread
<1>2. CASE WriteFile(c)
  <2>1. unread' = unread
    BY <1>2 DEF WriteFile
  <2>2. PICK text \in NewContents(c) : Store(FileOf(c), text)
    BY <1>2 DEF WriteFile
  <2>3. disk'[f].text = IF f = FileOf(c) THEN text ELSE disk[f].text
    BY <2>2 DEF Store, TypeOK, DiskOK
  <2>4. CASE f = FileOf(c)
    <3>1. text \subseteq call[c].data \cup {call[c].change}
      BY DEF NewContents
    <3>2. call[c].data \cap unread[f] = {} /\ call[c].change \notin unread[f]
      BY <1>2, <2>4 DEF WriteFile, At, Numbered, NumberedCall
    <3> QED
      BY <2>1, <2>3, <2>4, <3>1, <3>2 DEF HasUnread
  <2> QED
    BY <2>1, <2>3, <2>4 DEF HasUnread
<1>3. CASE \E p \in Paths : FileRead(c, p) \/ FileEdit(c, p)
  BY <1>1, <1>3 DEF FileRead, FileEdit, ReadFile, TypeOK
<1> QED
  BY <1>1, <1>2, <1>3
     DEF ToolStep, FileWrite, GetState, EditStat, Check, Fail, Restat, RecordRead

(* A file with an unread change is written by no call.                     *)
LEMMA ToolLeaves ==
  ASSUME TypeOK, NEW c \in Callers, ToolStep(c), NEW f \in Files, NEW T \in Nat, Quiet(f, T)
  PROVE  disk'[f] = disk[f]
<1>1. CASE WriteFile(c)
  <2>1. PICK text \in NewContents(c) : Store(FileOf(c), text)
    BY <1>1 DEF WriteFile
  <2>2. f # FileOf(c)
    BY <1>1 DEF WriteFile, At, Quiet, QuietCall
  <2> QED
    BY <2>1, <2>2 DEF Store, TypeOK, DiskOK
<1> QED
  BY <1>1 DEF ToolStep, FileRead, FileEdit, ReadFile, FileWrite, GetState, EditStat, Check, Fail,
              Restat, RecordRead

LEMMA QuietKept ==
  ASSUME NEW c \in Callers, NEW f \in Files, NEW T \in Nat, Quiet(f, T), disk'[f] = disk[f],
         \A p \in Paths : File[p] = f => states'[p] = states[p] \/ states'[p] < T,
         \A d \in Callers \ {c} : call'[d] = call[d],
         QuietCall(c, f, T)'
  PROVE  Quiet(f, T)'
BY DEF Quiet, QuietCall, At, FileOf

LEMMA ToolGuarded ==
  ASSUME TypeOK, Numbered, Guarded, NEW c \in Callers, ToolStep(c)
  PROVE  Guarded'
<1> SUFFICES ASSUME NEW f \in Files, HasUnread(f)'
             PROVE  \E T \in Nat : Quiet(f, T)'
  BY DEF Guarded
<1>1. HasUnread(f)
  BY ToolUnread
<1>2. PICK T \in Nat : Quiet(f, T)
  BY <1>1 DEF Guarded
<1>3. disk'[f] = disk[f]
  BY <1>2, ToolLeaves
<1>4. disk[f].exists /\ T <= disk[f].mtime /\ getFileMtime(f) = disk[f].mtime
  BY <1>1, <1>2 DEF HasUnread, TypeOK, DiskOK, Quiet, getFileMtime
<1>5. /\ call \in [Callers -> Calls] /\ QuietCall(c, f, T)
      /\ \A p \in Paths : File[p] = f => states[p] < T
  BY <1>2 DEF TypeOK, CallsOK, Quiet
<1>6. ASSUME UNCHANGED states, \A d \in Callers \ {c} : call'[d] = call[d], QuietCall(c, f, T)'
      PROVE  Quiet(f, T)'
  BY <1>2, <1>3, <1>6, QuietKept
<1>7. ASSUME Return(c)
      PROVE  (\A d \in Callers \ {c} : call'[d] = call[d]) /\ QuietCall(c, f, T)'
  BY <1>5, <1>7 DEF Return, QuietCall, At, Idle
<1>8. ASSUME NEW p \in Paths, NEW op, NEW pc, ReadFile(c, op, p, pc) PROVE Quiet(f, T)'
  <2>1. UNCHANGED <<disk, states>> /\ unread' = [unread EXCEPT ![File[p]] = @ \ disk[File[p]].text]
    BY <1>8 DEF ReadFile
  <2>2. f # File[p]
    BY <2>1 DEF HasUnread, TypeOK
  <2>3. (\A d \in Callers \ {c} : call'[d] = call[d]) /\ call'[c].path = p
    BY <1>5, <1>8 DEF ReadFile, Begin
  <2> QED
    BY <1>6, <2>1, <2>2, <2>3 DEF QuietCall, FileOf
<1>9. ASSUME NEW p \in Paths, FileWrite(c, p) PROVE Quiet(f, T)'
  <2> DEFINE path == Clean[p]
  <2>1. UNCHANGED states /\ \A d \in Callers \ {c} : call'[d] = call[d]
    BY <1>5, <1>9 DEF FileWrite, Begin
  <2>2. /\ call'[c].path = path /\ call'[c].mtime = getFileMtime(File[path])
        /\ call'[c].pc = IF disk[File[path]].exists THEN "getstate" ELSE "write"
    BY <1>5, <1>9 DEF FileWrite, Begin
  <2> HIDE DEF path
  <2>3. QuietCall(c, f, T)'
    BY <1>4, <2>2 DEF QuietCall, At, FileOf
  <2> QED
    BY <1>6, <2>1, <2>3
<1>10. ASSUME NEW pc, Goto(c, pc)
       PROVE  /\ \A d \in Callers \ {c} : call'[d] = call[d]
              /\ call'[c].pc = pc /\ call'[c].path = call[c].path
              /\ call'[c].op = call[c].op /\ call'[c].mtime = call[c].mtime
  BY <1>5, <1>10 DEF Goto, Calls
<1>11. CASE GetState(c)
  <2>1. UNCHANGED states /\ At(c, "getstate")
        /\ (Return(c) \/ Goto(c, IF call[c].op = "edit" THEN "stat" ELSE "check"))
    BY <1>11 DEF GetState
  <2>2. call[c].op \in {"write", "edit"}
    BY <2>1 DEF Numbered, NumberedCall
  <2>3. CASE Return(c)
    BY <1>6, <1>7, <2>1, <2>3
  <2>4. CASE Goto(c, "stat")
    BY <1>6, <1>10, <2>1, <2>4 DEF QuietCall, At, FileOf
  <2>5. CASE call[c].op = "write" /\ Goto(c, "check")
    <3>1. FileOf(c) = f => T <= call[c].mtime
      BY <1>5, <2>1, <2>5 DEF QuietCall, At
    <3> QED
      BY <1>6, <1>10, <2>1, <2>5, <3>1 DEF QuietCall, At, FileOf
  <2> QED
    BY <2>1, <2>2, <2>3, <2>4, <2>5
<1>12. ASSUME NEW pc, NEW t, call' = [call EXCEPT ![c].pc = pc, ![c].mtime = t]
       PROVE  /\ \A d \in Callers \ {c} : call'[d] = call[d]
              /\ call'[c].pc = pc /\ call'[c].mtime = t
              /\ call'[c].path = call[c].path /\ call'[c].op = call[c].op
  BY <1>5, <1>12 DEF Calls
<1>13. CASE EditStat(c)
  <2>1. /\ UNCHANGED states /\ At(c, "stat")
        /\ call' = [call EXCEPT ![c].pc = IF disk[FileOf(c)].exists THEN "check" ELSE "write",
                                ![c].mtime = getFileMtime(FileOf(c))]
    BY <1>13 DEF EditStat
  <2> DEFINE pc == IF disk[FileOf(c)].exists THEN "check" ELSE "write"
  <2>2. /\ \A d \in Callers \ {c} : call'[d] = call[d]
        /\ call'[c].pc = pc /\ call'[c].mtime = getFileMtime(FileOf(c))
        /\ call'[c].path = call[c].path /\ call'[c].op = call[c].op
    BY <1>12, <2>1
  <2>3. FileOf(c) = f => pc = "check" /\ T <= getFileMtime(FileOf(c))
    BY <1>4
  <2> HIDE DEF pc
  <2>4. QuietCall(c, f, T)'
    BY <2>2, <2>3 DEF QuietCall, At, FileOf
  <2> QED
    BY <1>6, <2>1, <2>2, <2>4
<1>14. CASE Check(c)
  <2>1. UNCHANGED states /\ At(c, "check")
    BY <1>14 DEF Check
  <2>2. CASE Return(c)
    BY <1>6, <1>7, <2>1, <2>2
  <2>3. CASE ~Return(c)
    <3>1. Goto(c, "write") /\ states[call[c].path] = call[c].mtime
      BY <1>14, <2>3 DEF Check, WasReadSince
    <3>2. call[c].path \in Paths /\ call[c].mtime \in Nat
      BY <2>1 DEF TypeOK, CallsOK, At, Calls
    <3>3. FileOf(c) # f
      BY <1>5, <2>1, <3>1, <3>2 DEF QuietCall, At, FileOf
    <3> QED
      BY <1>6, <1>10, <2>1, <3>1, <3>3 DEF QuietCall, FileOf
  <2> QED
    BY <2>2, <2>3
<1>15. CASE WriteFile(c)
  <2>1. UNCHANGED states /\ At(c, "write") /\ Goto(c, "restat")
    BY <1>15 DEF WriteFile
  <2>2. FileOf(c) # f
    BY <1>5, <2>1 DEF QuietCall, At
  <2> QED
    BY <1>6, <1>10, <2>1, <2>2 DEF QuietCall, FileOf
<1>16. CASE Fail(c)
  BY <1>6, <1>7, <1>16 DEF Fail
<1>17. CASE Restat(c)
  <2>1. UNCHANGED states /\ At(c, "restat")
        /\ call' = [call EXCEPT ![c].pc = "record", ![c].mtime = getFileMtime(FileOf(c))]
    BY <1>17 DEF Restat
  <2>2. FileOf(c) # f
    BY <1>5, <2>1 DEF QuietCall, At
  <2> QED
    BY <1>6, <1>12, <2>1, <2>2 DEF QuietCall, FileOf
<1>18. CASE RecordRead(c)
  <2>1. /\ At(c, "record") /\ Return(c)
        /\ states' = [states EXCEPT ![call[c].path] = call[c].mtime]
    BY <1>18 DEF RecordRead
  <2>2. \A p \in Paths : File[p] = f => states'[p] = states[p] \/ states'[p] < T
    BY <1>5, <2>1 DEF QuietCall, At, FileOf, TypeOK, TrackerOK
  <2> QED
    BY <1>2, <1>3, <1>7, <2>1, <2>2, QuietKept
<1>19. CASE \E p \in Paths : FileRead(c, p) \/ FileEdit(c, p)
  BY <1>8, <1>19 DEF FileRead, FileEdit
<1> QED
  BY <1>9, <1>11, <1>13, <1>14, <1>15, <1>16, <1>17, <1>18, <1>19 DEF ToolStep

LEMMA SaveGuarded ==
  ASSUME TypeOK, Numbered, Guarded, NEW g \in Files, Save(g)
  PROVE  Guarded'
<1> SUFFICES ASSUME NEW f \in Files, HasUnread(f)'
             PROVE  \E T \in Nat : Quiet(f, T)'
  BY DEF Guarded
<1>1. PICK text \in {disk[g].text \cup {NextChange}, {NextChange}} : Store(g, text)
  BY DEF Save
<1>2. PICK t \in {clock, clock + 1} :
        clock' = t /\ disk' = [disk EXCEPT ![g] = [exists |-> TRUE, text |-> text, mtime |-> t]]
  BY <1>1 DEF Store
<1>3. UNCHANGED <<states, call, calls>>
  BY DEF Save
<1>4. /\ clock \in Nat /\ t \in Nat /\ clock <= t /\ disk[f].mtime \in Nat /\ disk[f].mtime <= clock
      /\ \A p \in Paths : states[p] \in Int /\ states[p] <= clock
      /\ \A c \in Callers : call[c].mtime \in Nat /\ call[c].mtime <= clock
  BY <1>2 DEF TypeOK, DiskOK, TrackerOK, CallsOK, Calls, NotRead
<1>5. disk'[f].mtime = IF f = g THEN t ELSE disk[f].mtime
  BY <1>2 DEF TypeOK, DiskOK
<1>6. disk'[f].text = IF f = g THEN text ELSE disk[f].text
  BY <1>2 DEF TypeOK, DiskOK
<1>7. CASE HasUnread(f)
  <2>1. PICK T \in Nat : Quiet(f, T)
    BY <1>7 DEF Guarded
  <2>2. T <= disk'[f].mtime
    BY <1>4, <1>5, <2>1 DEF Quiet
  <2>3. Quiet(f, T)'
    BY <1>3, <2>1, <2>2 DEF Quiet, QuietCall, At, FileOf
  <2> QED
    BY <2>3
<1>8. CASE ~HasUnread(f)
  <2>1. f = g /\ clock < t /\ \A c \in Callers : FileOf(c) = f => ~AtRisk(c)
    <3>1. PICK m \in unread'[f] : m \in disk'[f].text
      BY DEF HasUnread
    <3>2. unread'[f] = unread[f] => m = NextChange
      BY <1>1, <1>6, <1>8, <3>1 DEF HasUnread
    <3>3. NextChange \notin unread[f]
      BY DEF Numbered, NumberedFile, NextChange, TypeOK
    <3>4. unread'[f] # unread[f]
      BY <3>1, <3>2, <3>3
    <3> QED
      BY <1>2, <3>4 DEF Save, TypeOK
  <2>2. t <= disk'[f].mtime
    BY <1>4, <1>5, <2>1
  <2>3. \A p \in Paths : states'[p] < t
    BY <1>3, <1>4, <2>1
  <2>4. ASSUME NEW c \in Callers PROVE QuietCall(c, f, t)'
    <3>1. call' = call /\ call[c].mtime < t
      BY <1>3, <1>4, <2>1
    <3> QED
      BY <2>1, <3>1 DEF QuietCall, AtRisk, At, FileOf
  <2>5. Quiet(f, t)'
    BY <2>2, <2>3, <2>4 DEF Quiet
  <2> QED
    BY <1>4, <2>5
<1> QED
  BY <1>7, <1>8

LEMMA StepGuarded == TypeOK /\ Numbered /\ Guarded /\ [Next]_vars => Guarded'
<1> SUFFICES ASSUME TypeOK, Numbered, Guarded, [Next]_vars PROVE Guarded'
  OBVIOUS
<1>1. ASSUME NEW g \in Files, Delete(g) PROVE Guarded'
  <2> SUFFICES ASSUME NEW f \in Files, HasUnread(f)'
               PROVE  \E T \in Nat : Quiet(f, T)'
    BY DEF Guarded
  <2>1. UNCHANGED <<states, call, unread>>
        /\ disk' = [disk EXCEPT ![g] = [exists |-> FALSE, text |-> {}, mtime |-> 0]]
    BY <1>1 DEF Delete
  <2>2. f # g /\ disk'[f] = disk[f]
    BY <2>1 DEF HasUnread, TypeOK, DiskOK
  <2>3. PICK T \in Nat : Quiet(f, T)
    BY <2>1, <2>2 DEF HasUnread, Guarded
  <2>4. Quiet(f, T)'
    BY <2>1, <2>2, <2>3 DEF Quiet, QuietCall, At, FileOf
  <2> QED
    BY <2>4
<1>2. CASE UNCHANGED vars
  BY <1>2 DEF vars, Guarded, HasUnread, Quiet, QuietCall, At, FileOf
<1> QED
  BY <1>1, <1>2, SaveGuarded, ToolGuarded DEF Next

(* No call, of any caller and under any name of the file, drops a change   *)
(* of the user that no call has read, whatever the tracker has recorded.   *)
THEOREM UnreadKept == Spec => UnreadChangesKept
<1>1. Init => IInv
  BY InitTypes, InitNumbered, InitGuarded DEF IInv
<1>2. IInv /\ [Next]_vars => IInv'
  BY StepTypes, StepNumbers, StepGuarded DEF IInv
<1>3. IInv /\ [Next]_vars =>
        [\A f \in Files :
           (\E c \in Callers : ToolStep(c)) => unread'[f] \cap disk[f].text \subseteq disk'[f].text]_vars
  <2> SUFFICES ASSUME IInv, NEW c \in Callers, ToolStep(c), NEW f \in Files
               PROVE  unread'[f] \cap disk[f].text \subseteq disk'[f].text
    OBVIOUS
  <2>1. unread'[f] \subseteq unread[f]
    BY DEF ToolStep, FileRead, FileEdit, ReadFile, FileWrite, GetState, EditStat, Check, WriteFile,
           Fail, Restat, RecordRead, IInv, TypeOK
  <2>2. CASE HasUnread(f)
    <3>1. PICK T \in Nat : Quiet(f, T)
      BY <2>2 DEF IInv, Guarded
    <3>2. disk'[f] = disk[f]
      BY <3>1, ToolLeaves DEF IInv
    <3> QED
      BY <3>2
  <2> QED
    BY <2>1, <2>2 DEF HasUnread
<1> QED
  BY <1>1, <1>2, <1>3, PTL DEF Spec, UnreadChangesKept

=================================================================================
