------------------------------- MODULE FileState -------------------------------
(***************************************************************************)
(* The file tools (tool/fileread.go, filewrite.go, fileedit.go) and the    *)
(* FileStateTracker they share (filestate.go).  There is one tracker for   *)
(* the engine, its sub-agents and the memory worker (main.go:668), and the *)
(* tool calls of one message run in parallel, so calls of several callers  *)
(* interleave between any two system calls.  The user's editor, external,  *)
(* saves and deletes the same files.                                       *)
(*                                                                         *)
(* A text is the set of changes it contains: a save and an edit add one to *)
(* what their author has seen, a write replaces them all.  Reading and     *)
(* writing a file is one step each.  The clock of modification times may   *)
(* be too coarse to tell one change from the one before.                   *)
(***************************************************************************)
EXTENDS Integers

CONSTANTS
  Callers,    \* goroutines that call tools
  Files,
  Paths,      \* names the model gives to files
  File,       \* the file a name denotes
  Clean,      \* filepath.Clean of a name
  MaxCalls,   \* bound: tool calls
  MaxSaves    \* bound: changes and removals by the editor

ASSUME PathsAssumption ==
  /\ File \in [Paths -> Files] /\ Clean \in [Paths -> Paths]
  /\ \A p \in Paths : File[Clean[p]] = File[p] /\ Clean[Clean[p]] = Clean[p]
ASSUME BoundsAssumption == MaxCalls \in Nat /\ MaxSaves \in Nat

VARIABLES
  disk,     \* the files: [exists, text, mtime]
  clock,    \* modification time of the last change of any file
  states,   \* of the tracker: path -> time of the content read last, 0 for the zero time
  call,     \* the call of each caller: [op, path, pc, data, mtime, change]
  calls, saves,
  unread    \* history: changes saved with no call at risk, that no call has read

vars == <<disk, clock, states, call, calls, saves, unread>>

Changes  == 0 .. MaxCalls + MaxSaves
NotRead  == -1   \* no entry in the tracker
Idle     == [op |-> "none", path |-> "none", pc |-> "idle", data |-> {}, mtime |-> 0, change |-> 0]

Init ==
  /\ disk \in [Files -> {[exists |-> TRUE, text |-> {0}, mtime |-> 1],
                         [exists |-> FALSE, text |-> {}, mtime |-> 0]}]
  /\ clock = 1
  /\ states = [p \in Paths |-> NotRead]
  /\ call = [c \in Callers |-> Idle]
  /\ calls = 0 /\ saves = 0
  /\ unread = [f \in Files |-> {}]

-----------------------------------------------------------------------------
(* System calls.                                                           *)

(* Each change has a number of its own; a call gets that of its new text   *)
(* when it begins.                                                         *)
NextChange == calls + saves + 1

(* A change of f is stamped with a time not before the last one.           *)
Store(f, text) ==
  \E t \in {clock, clock + 1} :
    /\ clock' = t
    /\ disk' = [disk EXCEPT ![f] = [exists |-> TRUE, text |-> text, mtime |-> t]]

\* Mutant: a file that is gone was changed now.
MtimeOrNow(f) == IF disk[f].exists THEN disk[f].mtime ELSE clock + 1

getFileMtime(f) == IF disk[f].exists THEN disk[f].mtime ELSE 0

FileOf(c) == File[call[c].path]
At(c, pc) == call[c].pc = pc
Goto(c, pc) == call' = [call EXCEPT ![c].pc = pc]
Return(c)   == call' = [call EXCEPT ![c] = Idle]

Begin(c, op, path, pc, data, mtime) ==
  /\ At(c, "idle") /\ calls < MaxCalls /\ calls' = calls + 1
  /\ call' = [call EXCEPT ![c] =
       [op |-> op, path |-> path, pc |-> pc, data |-> data, mtime |-> mtime,
        change |-> NextChange]]

-----------------------------------------------------------------------------
(* file_read goes by the name as given; the others clean it first.         *)

ReadFile(c, op, path, pc) ==
  LET f == File[path] IN
  /\ disk[f].exists
  /\ Begin(c, op, path, pc, disk[f].text, 0)
  /\ unread' = [unread EXCEPT ![f] = @ \ disk[f].text]
  /\ UNCHANGED <<disk, clock, states, saves>>

FileRead(c, p) == ReadFile(c, "read", p, "restat")
FileEdit(c, p) == ReadFile(c, "edit", Clean[p], "getstate")

(* A file that does not exist is written without a check.                  *)
FileWrite(c, p) ==
  LET path == Clean[p] IN
  /\ Begin(c, "write", path, IF disk[File[path]].exists THEN "getstate" ELSE "write",
           {}, getFileMtime(File[path]))
  /\ UNCHANGED <<disk, clock, states, saves, unread>>

(* "file has not been read yet"                                            *)
GetState(c) ==
  /\ At(c, "getstate")
  /\ IF states[call[c].path] = NotRead THEN Return(c)
     ELSE Goto(c, IF call[c].op = "edit" THEN "stat" ELSE "check")
  /\ UNCHANGED <<disk, clock, states, calls, saves, unread>>

(* file_edit looks at the time after it has read the file, and goes on     *)
(* unchecked when the file is gone.                                        *)
EditStat(c) ==
  LET f == FileOf(c) IN
  /\ At(c, "stat")
  /\ call' = [call EXCEPT ![c].pc = IF disk[f].exists THEN "check" ELSE "write",
                          ![c].mtime = getFileMtime(f)]
  /\ UNCHANGED <<disk, clock, states, calls, saves, unread>>

\* Mutant: any earlier read will do.
WasReadEver(path, mtime) == states[path] # NotRead

(* "file has been modified since read"                                     *)
WasReadSince(path, mtime) == states[path] = mtime

Check(c) ==
  /\ At(c, "check")
  /\ IF WasReadSince(call[c].path, call[c].mtime) THEN Goto(c, "write") ELSE Return(c)
  /\ UNCHANGED <<disk, clock, states, calls, saves, unread>>

(* What file_edit makes of what it read: old_string is a change of it, or  *)
(* none that was marked as one; new_string is a new change.                *)
NewContents(c) ==
  IF call[c].op = "write" THEN {{call[c].change}}
  ELSE {(call[c].data \ old) \cup {call[c].change} : old \in {{}} \cup {{m} : m \in call[c].data}}

WriteFile(c) ==
  /\ At(c, "write")
  /\ \E text \in NewContents(c) : Store(FileOf(c), text)
  /\ Goto(c, "restat")
  /\ UNCHANGED <<states, calls, saves, unread>>

(* old_string not found or not unique, or the directory or the file cannot *)
(* be written.                                                             *)
Fail(c) ==
  /\ At(c, "write") /\ Return(c)
  /\ UNCHANGED <<disk, clock, states, calls, saves, unread>>

Restat(c) ==
  /\ At(c, "restat")
  /\ call' = [call EXCEPT ![c].pc = "record", ![c].mtime = getFileMtime(FileOf(c))]
  /\ UNCHANGED <<disk, clock, states, calls, saves, unread>>

RecordRead(c) ==
  /\ At(c, "record") /\ Return(c)
  /\ states' = [states EXCEPT ![call[c].path] = call[c].mtime]
  /\ UNCHANGED <<disk, clock, calls, saves, unread>>

-----------------------------------------------------------------------------
(* The editor.                                                             *)

(* Steps of a call between which a change escapes it: after it has looked  *)
(* at the time and until it has written, and after it has read or written  *)
(* the text and until it has looked at the time.                           *)
AtRisk(c) ==
  \/ call[c].pc \in {"check", "write", "restat"}
  \/ call[c].op = "write" /\ At(c, "getstate")

(* The user saves what the file held and a change, or only the change; a   *)
(* file that is gone is made anew.                                         *)
Save(f) ==
  LET m == NextChange IN
  /\ saves < MaxSaves /\ saves' = saves + 1
  /\ \E text \in {disk[f].text \cup {m}, {m}} : Store(f, text)
  /\ unread' = [unread EXCEPT ![f] =
       IF clock' > clock /\ ~\E c \in Callers : AtRisk(c) /\ FileOf(c) = f
       THEN @ \cup {m} ELSE @]
  /\ UNCHANGED <<states, call, calls>>

Delete(f) ==
  /\ disk[f].exists /\ saves < MaxSaves /\ saves' = saves + 1
  /\ disk' = [disk EXCEPT ![f] = [exists |-> FALSE, text |-> {}, mtime |-> 0]]
  /\ UNCHANGED <<clock, states, call, calls, unread>>

ToolStep(c) ==
  \/ \E p \in Paths : FileRead(c, p) \/ FileEdit(c, p) \/ FileWrite(c, p)
  \/ GetState(c) \/ EditStat(c) \/ Check(c) \/ WriteFile(c) \/ Fail(c)
  \/ Restat(c) \/ RecordRead(c)

Next == (\E c \in Callers : ToolStep(c)) \/ (\E f \in Files : Save(f) \/ Delete(f))

Spec == Init /\ [][Next]_vars

-----------------------------------------------------------------------------
(* Properties.                                                             *)

DiskOK ==
  /\ clock \in Nat \ {0}
  /\ disk \in [Files -> [exists : BOOLEAN, text : SUBSET Changes, mtime : Nat]]
  /\ \A f \in Files : disk[f].mtime <= clock
  /\ \A f \in Files : disk[f].exists <=> disk[f].mtime # 0
  /\ \A f \in Files : ~disk[f].exists => disk[f].text = {}
TrackerOK ==
  /\ states \in [Paths -> Nat \cup {NotRead}]
  /\ \A p \in Paths : states[p] <= clock
Calls ==
  [op : {"none", "read", "write", "edit"}, path : Paths \cup {"none"},
   pc : {"idle", "getstate", "stat", "check", "write", "restat", "record"},
   data : SUBSET Changes, mtime : Nat, change : Changes]
CallsOK ==
  /\ call \in [Callers -> Calls]
  /\ \A c \in Callers : call[c].mtime <= clock
  /\ \A c \in Callers : call[c].pc # "idle" => call[c].path \in Paths
TypeOK ==
  /\ DiskOK /\ TrackerOK /\ CallsOK
  /\ calls \in 0 .. MaxCalls /\ saves \in 0 .. MaxSaves
  /\ unread \in [Files -> SUBSET Changes]

(* What the tracker is for: a change that the user saves at a new time,    *)
(* while no call on the file is at risk, stays in the file until a call    *)
(* has read it or the user takes it out, whatever calls of all callers     *)
(* have recorded since, under whatever names.                              *)
UnreadChangesKept ==
  [][\A f \in Files :
       (\E c \in Callers : ToolStep(c)) => unread'[f] \cap disk[f].text \subseteq disk'[f].text]_vars

================================================================================
