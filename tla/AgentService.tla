---------------------------- MODULE AgentService ----------------------------
(***************************************************************************)
(* What the coordinator promises to those who spawn agents and wait for    *)
(* them (the AgentSpawner interface of spawner.go): ids are handed out in  *)
(* order, an agent ends once with one outcome, every Wait answered with a  *)
(* result is answered with that outcome after the end, and one copy of the *)
(* outcome is kept for a Wait that comes late.                             *)
(***************************************************************************)
EXTENDS Naturals

CONSTANTS Callers, MaxSpawns

Agents == 0 .. (MaxSpawns - 1)
Ids    == 0 .. MaxSpawns
Outcomes == {"completed", "error", "killed"}

VARIABLES
  phase,    \* per agent: "unborn", "running" or "done"
  result,   \* its outcome once done
  kept,     \* agents whose outcome is kept for a late Wait
  wait      \* per caller: the Wait it is in, or the answer it got

vars == <<phase, result, kept, wait>>

Idle == [st |-> "idle", id |-> 0, val |-> "none"]
On(c, a) == wait[c] = [st |-> "wait", id |-> a, val |-> "none"]
Answered(a, val) == [st |-> "done", id |-> a, val |-> val]

Init ==
  /\ phase = [a \in Agents |-> "unborn"] /\ result = [a \in Agents |-> "none"]
  /\ kept = {} /\ wait = [c \in Callers |-> Idle]

(* A caller starts a Wait, or turns to another method.                     *)
Begin(c, id) ==
  /\ wait[c].st # "wait"
  /\ wait' = [wait EXCEPT ![c] = [st |-> "wait", id |-> id, val |-> "none"]]
  /\ UNCHANGED <<phase, result, kept>>

Leave(c) ==
  /\ wait[c].st # "wait"
  /\ wait' = [wait EXCEPT ![c] = Idle]
  /\ UNCHANGED <<phase, result, kept>>

Spawn(a) ==
  /\ phase[a] = "unborn" /\ \A b \in Agents : b < a => phase[b] # "unborn"
  /\ phase' = [phase EXCEPT ![a] = "running"]
  /\ UNCHANGED <<result, kept, wait>>

(* The end of an agent answers the waiters W registered for it.            *)
Finish(a, o, W) ==
  /\ phase[a] = "running" /\ \A c \in W : On(c, a)
  /\ phase' = [phase EXCEPT ![a] = "done"]
  /\ result' = [result EXCEPT ![a] = o]
  /\ kept' = kept \cup {a}
  /\ wait' = [c \in Callers |-> IF c \in W THEN Answered(a, o) ELSE wait[c]]

(* A late Wait takes the copy ...                                          *)
Collect(c, a) ==
  /\ On(c, a) /\ a \in kept
  /\ kept' = kept \ {a}
  /\ wait' = [wait EXCEPT ![c] = Answered(a, result[a])]
  /\ UNCHANGED <<phase, result>>

(* ... and gets nil when there is none, which is never so for an agent     *)
(* that still runs.                                                        *)
GetNil(c, id) ==
  /\ On(c, id) /\ id \notin kept
  /\ id \in Agents => phase[id] # "running"
  /\ wait' = [wait EXCEPT ![c] = Answered(id, "nil")]
  /\ UNCHANGED <<phase, result, kept>>

Next ==
  \/ \E c \in Callers, id \in Ids : Begin(c, id) \/ GetNil(c, id)
  \/ \E c \in Callers : Leave(c)
  \/ \E a \in Agents : Spawn(a)
  \/ \E a \in Agents, o \in Outcomes, W \in SUBSET Callers : Finish(a, o, W)
  \/ \E c \in Callers, a \in Agents : Collect(c, a)

Spec == Init /\ [][Next]_vars

=============================================================================
