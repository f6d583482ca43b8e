------------------------ MODULE CoordinatorREPLProofs ------------------------
(***************************************************************************)
(* Theorems about CoordinatorREPL, for any number of agents and of callers *)
(* of EngineDriver.Stop, and any capacities of the channels.               *)
(***************************************************************************)
EXTENDS CoordinatorREPL, TLAPS

USE DEF mainVars, driverVars, replVars, engVars, agentVars,
        Others, NotDriver, NotRepl, NotEngine, NotAgents, NotHelpers

(* The queue of approvals stays a sequence of agents when an id is taken   *)
(* out of it, and what is left was in it (removePendingConfirmOrder).      *)
LEMMA WithoutType ==
  ASSUME NEW S, NEW s \in Seq(S), NEW e
  PROVE  Without(s, e) \in Seq(S)
<1> DEFINE n == CHOOSE i \in DOMAIN s : FirstAt(s, i, e)
<1>1. CASE ~ \E i \in DOMAIN s : FirstAt(s, i, e)
  BY <1>1 DEF Without
<1>2. CASE \E i \in DOMAIN s : FirstAt(s, i, e)
  <2>1. n \in 1 .. Len(s)
    BY <1>2
  <2>2. RemoveAt(s, n) \in Seq(S)
    <3> HIDE DEF n
    <3>1. QED
      BY <2>1 DEF RemoveAt
  <2>3. QED
    BY <1>2, <2>2 DEF Without
<1>3. QED
  BY <1>1, <1>2

-----------------------------------------------------------------------------
(* Type correctness, one lemma for each goroutine.                         *)

LEMMA TypeInit == Init => Types
<1> SUFFICES ASSUME Init PROVE Types
  OBVIOUS
<1>1. line \in AllLines \ Words
  BY DEF Init, AllLines, Words
<1>2. driverEvents \in Seq(Requests) /\ cmdCh \in Seq(Commands) /\ turnEvents \in Seq(Events)
  <2>1. driverEvents = <<>> /\ cmdCh = <<>> /\ turnEvents = <<>>
    BY DEF Init
  <2>2. QED
    BY <2>1
<1>3. /\ stopper \in [Stoppers -> {"idle", "sending", "waiting", "done"}]
      /\ agent \in [Agents -> {"unborn", "running", "asking", "over", "gone"}]
  BY DEF Init
<1>4. output \in 0 .. OutCap /\ notices \in 0 .. NoticeCap /\ text \in Events
  <2>1. output = 0 /\ notices = 0 /\ text = "text"
    BY DEF Init
  <2>2. QED
    BY <2>1, REPLAssumption DEF Events
<1>5. /\ main = "start" /\ target = "nobody" /\ driverLoop = "select"
      /\ serving = "nobody" /\ repl = "none" /\ eng = "idle" /\ panicked = "none"
      /\ requested = {} /\ pending = <<>> /\ cancelled = {} /\ thisTurn = {}
  BY DEF Init
<1>6. QED
  BY <1>1, <1>2, <1>3, <1>4, <1>5 DEF Types

LEMMA AppendType ==
  ASSUME NEW S, NEW s \in Seq(S), NEW e \in S
  PROVE  Append(s, e) \in Seq(S)
OBVIOUS

LEMMA OfferType ==
  ASSUME Types, NEW who \in {"repl", "forwarder", "signal", "coordinator"},
         NEW cmd \in Commands, Offer(who, cmd)
  PROVE  /\ panicked' \in {"none", "repl", "forwarder", "signal", "coordinator"}
         /\ cmdCh' \in Seq(Commands)
BY DEF Types, Offer

LEMMA NotifyType ==
  ASSUME NoticeCap \in Nat, notices \in 0 .. NoticeCap, notify
  PROVE  notices' \in 0 .. NoticeCap
BY DEF notify

LEMMA MainType ==
  ASSUME Types, MainStep \/ Readline \/ EndOfInput
  PROVE  Types'
<1> USE REPLAssumption DEF Types, MainGoes, Prompt
<1>1. CASE Start
  BY <1>1 DEF Start, Requests
<1>2. CASE StopAgent
  BY <1>2 DEF StopAgent
<1>3. CASE ReadWord
  BY <1>3 DEF ReadWord, HasPendingConfirm
<1>4. CASE ReadLine
  <2>1. line' \in AllLines \ Words
    BY <1>4 DEF ReadLine, AllLines, Words
  <2>2. QED
    BY <1>4, <2>1 DEF ReadLine
<1>5. CASE Confirm
  <2>1. pending' \in Seq(Agents)
    BY <1>5, WithoutType DEF Confirm
  <2>2. QED
    BY <1>5, <2>1 DEF Confirm, AllLines, Words
<1>6. CASE Send
  BY <1>6 DEF Send, Received, AllLines, Words
<1>7. CASE EndOfInput
  BY <1>7 DEF EndOfInput
<1>8. CASE StopEngine
  BY <1>8 DEF StopEngine
<1>9. CASE EngineStopped
  BY <1>9 DEF EngineStopped
<1>10. CASE StopCoordinator
  BY <1>10 DEF StopCoordinator
<1>11. QED
  BY <1>1, <1>2, <1>3, <1>4, <1>5, <1>6, <1>7, <1>8, <1>9, <1>10 DEF MainStep, Readline

LEMMA ServeType ==
  ASSUME Types, NEW op, Serve(op)
  PROVE  /\ driverEvents' \in Seq(Requests)
         /\ Head(driverEvents) \in Requests /\ Head(driverEvents).op = op
BY DEF Types, Serve

LEMMA DriverType ==
  ASSUME Types, DriverStep \/ \E s \in Stoppers : CallStop(s)
  PROVE  Types'
<1> USE REPLAssumption DEF Types
<1>1. CASE StartEngine
  <2>1. driverEvents' \in Seq(Requests)
    BY <1>1, ServeType DEF StartEngine
  <2>2. QED
    BY <1>1, <2>1 DEF StartEngine
<1>2. CASE ServeStop
  <2>1. driverEvents' \in Seq(Requests) /\ Head(driverEvents).who \in Stoppers
    BY <1>2, ServeType DEF ServeStop, Requests
  <2>2. QED
    BY <1>2, <2>1 DEF ServeStop
<1>3. CASE StopServed
  BY <1>3 DEF StopServed
<1>4. ASSUME NEW s \in Stoppers, CallStop(s)
      PROVE  Types'
  BY <1>4 DEF CallStop
<1>5. ASSUME NEW s \in Stoppers, SendStop(s)
      PROVE  Types'
  <2>1. [op |-> "stop", who |-> s] \in Requests
    BY DEF Requests
  <2>2. \/ driverEvents' = driverEvents
        \/ driverEvents' = Append(driverEvents, [op |-> "stop", who |-> s])
    BY <1>5 DEF SendStop
  <2>3. driverEvents' \in Seq(Requests)
    <3>1. driverEvents \in Seq(Requests)
      OBVIOUS
    <3>2. Append(driverEvents, [op |-> "stop", who |-> s]) \in Seq(Requests)
      BY <2>1, <3>1, AppendType
    <3>3. QED
      BY <2>2, <3>1, <3>2
  <2>4. stopper' \in [Stoppers -> {"idle", "sending", "waiting", "done"}]
    BY <1>5 DEF SendStop
  <2>5. QED
    BY <1>5, <2>3, <2>4 DEF SendStop
<1>6. QED
  BY <1>1, <1>2, <1>3, <1>4, <1>5 DEF DriverStep

LEMMA ReplType ==
  ASSUME Types, ReplStep
  PROVE  Types'
<1> USE REPLAssumption DEF Types, ReplGoes
<1>1. CASE ReadEOF
  BY <1>1 DEF ReadEOF
<1>2. CASE Turn
  BY <1>2 DEF Turn, Commands
<1>3. CASE ReplCommand
  <2>1. cmdCh' \in Seq(Commands) /\ panicked' \in {"none", "repl"}
    BY <1>3 DEF ReplCommand, Offer, Commands
  <2>2. QED
    BY <1>3, <2>1 DEF ReplCommand, Offer, Events
<1>4. CASE TakeTurnEvent
  BY <1>4 DEF TakeTurnEvent
<1>5. CASE onOutput
  BY <1>5 DEF onOutput, Events
<1>6. CASE TotalUsage
  <2>1. cmdCh' \in Seq(Commands) /\ panicked' \in {"none", "repl"}
    BY <1>6 DEF TotalUsage, Offer, Commands
  <2>2. QED
    BY <1>6, <2>1 DEF TotalUsage, Offer
<1>7. CASE TurnOver
  BY <1>7 DEF TurnOver
<1>8. CASE ReplEnds
  BY <1>8 DEF ReplEnds
<1>9. QED
  BY <1>1, <1>2, <1>3, <1>4, <1>5, <1>6, <1>7, <1>8 DEF ReplStep

LEMMA EngineType ==
  ASSUME Types, EngineStep
  PROVE  Types'
<1> USE REPLAssumption DEF Types, Take
<1>1. CASE StartTurn
  BY <1>1 DEF StartTurn
<1>2. CASE Interrupt
  BY <1>2 DEF Interrupt, InTurn
<1>3. CASE Notified
  <2>1. turnEvents' = turnEvents \/ turnEvents' = Append(turnEvents, "text")
    BY <1>3 DEF Notified
  <2>2. "text" \in Events
    BY DEF Events
  <2>3. turnEvents' \in Seq(Events)
    <3>1. turnEvents \in Seq(Events)
      OBVIOUS
    <3>2. Append(turnEvents, "text") \in Seq(Events)
      BY <2>2, <3>1, AppendType
    <3>3. QED
      BY <2>1, <3>1, <3>2
  <2>4. QED
    BY <1>3, <2>3 DEF Notified
<1>4. CASE AnswerUsage
  BY <1>4 DEF AnswerUsage, Events
<1>5. CASE OtherCommand
  BY <1>5 DEF OtherCommand
<1>6. CASE QueryEnds
  BY <1>6 DEF QueryEnds, Events
<1>7. CASE EndTurn
  BY <1>7 DEF EndTurn
<1>8. CASE TurnStopped
  BY <1>8 DEF TurnStopped
<1>9. CASE LoopEnds
  BY <1>9 DEF LoopEnds
<1>10. QED
  BY <1>1, <1>2, <1>3, <1>4, <1>5, <1>6, <1>7, <1>8, <1>9 DEF EngineStep

LEMMA AgentType ==
  ASSUME Types, NEW a \in Agents, AgentStep(a) \/ CoordinatorStep(a)
  PROVE  Types'
<1> USE REPLAssumption DEF Types
<1>1. CASE Spawn(a)
  <2>1. notices' \in 0 .. NoticeCap
    BY <1>1, NotifyType DEF Spawn
  <2>2. QED
    BY <1>1, <2>1 DEF Spawn
<1>2. CASE Ask(a)
  BY <1>2 DEF Ask
<1>3. CASE AgentEnds(a)
  BY <1>3 DEF AgentEnds
<1>4. CASE handleAgentConfirm(a)
  <2>1. notices' \in 0 .. NoticeCap
    BY <1>4, NotifyType DEF handleAgentConfirm
  <2>2. QED
    BY <1>4, <2>1 DEF handleAgentConfirm
<1>5. CASE handleAgentDone(a)
  <2>1. notices' \in 0 .. NoticeCap
    BY <1>5, NotifyType DEF handleAgentDone
  <2>2. pending' \in Seq(Agents)
    BY <1>5, WithoutType DEF handleAgentDone
  <2>3. /\ cmdCh' \in Seq(Commands) /\ panicked' \in {"none", "coordinator", panicked}
        /\ UNCHANGED <<eng, turnEvents>>
    <3>1. CASE Offer("coordinator", "usage")
      BY <3>1 DEF Offer, Commands
    <3>2. CASE UNCHANGED <<engVars, panicked>>
      BY <3>2
    <3>3. QED
      BY <1>5, <3>1, <3>2 DEF handleAgentDone
  <2>4. QED
    BY <1>5, <2>1, <2>2, <2>3 DEF handleAgentDone
<1>6. QED
  BY <1>1, <1>2, <1>3, <1>4, <1>5 DEF AgentStep, CoordinatorStep

LEMMA HelperType ==
  ASSUME Types, HelperStep \/ Signal
  PROVE  Types'
<1> USE REPLAssumption DEF Types
<1>1. CASE Drain
  BY <1>1 DEF Drain
<1>2. CASE CloseReadline
  BY <1>2 DEF CloseReadline
<1>3. CASE Notify
  <2>1. cmdCh' \in Seq(Commands) /\ panicked' \in {"none", "forwarder"}
    BY <1>3 DEF Notify, Offer, Commands
  <2>2. QED
    BY <1>3, <2>1 DEF Notify, Offer
<1>4. CASE Signal
  <2>1. cmdCh' \in Seq(Commands) /\ panicked' \in {"none", "signal"}
    BY <1>4 DEF Signal, Offer, Commands
  <2>2. QED
    BY <1>4, <2>1 DEF Signal, Offer
<1>5. QED
  BY <1>1, <1>2, <1>3, <1>4 DEF HelperStep

LEMMA TypeNext == Types /\ [Next]_vars => Types'
<1> SUFFICES ASSUME Types, [Next]_vars PROVE Types'
  OBVIOUS
<1>1. CASE Next
  BY <1>1, MainType, DriverType, ReplType, EngineType, AgentType, HelperType DEF Next
<1>2. CASE UNCHANGED vars
  BY <1>2 DEF vars, Types
<1>3. QED
  BY <1>1, <1>2

LEMMA FlagsNext == Flags /\ [Next]_vars => Flags'
<1> SUFFICES ASSUME Flags, [Next]_vars PROVE Flags'
  OBVIOUS
<1> USE DEF Flags
<1>1. CASE MainStep \/ Readline \/ EndOfInput
  BY <1>1 DEF MainStep, Readline, Start, StopAgent, ReadWord, ReadLine, Confirm, Send,
     EndOfInput, StopEngine, EngineStopped, StopCoordinator
<1>2. CASE DriverStep
  BY <1>2 DEF DriverStep, StartEngine, ServeStop, StopServed, SendStop
<1>3. ASSUME NEW s \in Stoppers, CallStop(s)
      PROVE  Flags'
  BY <1>3 DEF CallStop
<1>4. CASE ReplStep
  BY <1>4 DEF ReplStep, ReadEOF, Turn, ReplCommand, TakeTurnEvent, onOutput, TotalUsage,
     TurnOver, ReplEnds, Offer
<1>5. CASE EngineStep
  BY <1>5 DEF EngineStep, StartTurn, Interrupt, Notified, AnswerUsage, OtherCommand,
     QueryEnds, EndTurn, TurnStopped, LoopEnds
<1>6. ASSUME NEW a \in Agents, AgentStep(a) \/ CoordinatorStep(a)
      PROVE  Flags'
  BY <1>6 DEF AgentStep, CoordinatorStep, Spawn, Ask, AgentEnds, handleAgentConfirm,
     handleAgentDone, Offer
<1>7. CASE HelperStep \/ Signal
  BY <1>7 DEF HelperStep, Signal, Drain, CloseReadline, Notify, Offer
<1>8. CASE UNCHANGED vars
  BY <1>8 DEF vars
<1>9. QED
  BY <1>1, <1>2, <1>3, <1>4, <1>5, <1>6, <1>7, <1>8 DEF Next

(* Every variable keeps its type; in particular only those who call Stop   *)
(* are ever served by the driver's loop.                                   *)
THEOREM TypeCorrect == Spec => []TypeOK
<1>1. Init => Flags
  BY DEF Init, Flags
<1>2. Init => TypeOK
  BY TypeInit, <1>1 DEF TypeOK
<1>3. TypeOK /\ [Next]_vars => TypeOK'
  BY TypeNext, FlagsNext DEF TypeOK
<1>4. QED
  BY <1>2, <1>3, PTL DEF Spec

-----------------------------------------------------------------------------
(* Approvals. Taking an id out of a queue in which it occurs at most once  *)
(* leaves all the others, once each.                                       *)

Once(s) == \A i, j \in DOMAIN s : s[i] = s[j] => i = j

LEMMA RemoveAtFacts ==
  ASSUME NEW S, NEW s \in Seq(S), NEW n \in 1 .. Len(s)
  PROVE  /\ RemoveAt(s, n) \in Seq(S)
         /\ Len(RemoveAt(s, n)) = Len(s) - 1
         /\ \A i \in 1 .. (Len(s) - 1) : RemoveAt(s, n)[i] = IF i < n THEN s[i] ELSE s[i + 1]
<1> DEFINE u == SubSeq(s, 1, n - 1)
           v == SubSeq(s, n + 1, Len(s))
<1>1. u \in Seq(S) /\ Len(u) = n - 1 /\ \A i \in 1 .. (n - 1) : u[i] = s[i]
  OBVIOUS
<1>2. v \in Seq(S) /\ Len(v) = Len(s) - n /\ \A i \in 1 .. (Len(s) - n) : v[i] = s[n + i]
  OBVIOUS
<1>3. RemoveAt(s, n) = u \o v
  BY DEF RemoveAt
<1> HIDE DEF u, v
<1>4. ASSUME NEW i \in 1 .. (Len(s) - 1)
      PROVE  (u \o v)[i] = IF i < n THEN s[i] ELSE s[i + 1]
  <2>1. CASE i < n
    BY <1>1, <1>2, <2>1
  <2>2. CASE ~ i < n
    <3>1. (u \o v)[i] = v[i - (n - 1)] /\ i - (n - 1) \in 1 .. (Len(s) - n)
      BY <1>1, <1>2, <2>2
    <3>2. v[i - (n - 1)] = s[n + (i - (n - 1))] /\ n + (i - (n - 1)) = i + 1
      BY <1>2, <3>1
    <3>3. QED
      BY <2>2, <3>1, <3>2
  <2>3. QED
    BY <2>1, <2>2
<1>5. u \o v \in Seq(S) /\ Len(u \o v) = Len(s) - 1
  BY <1>1, <1>2
<1>6. QED
  BY <1>3, <1>4, <1>5

LEMMA WithoutRemoves ==
  ASSUME NEW S, NEW s \in Seq(S), NEW e, Once(s)
  PROVE  /\ Once(Without(s, e))
         /\ \A x : Contains(Without(s, e), x) <=> Contains(s, x) /\ x # e
<1> DEFINE n == CHOOSE i \in DOMAIN s : FirstAt(s, i, e)
<1>1. CASE ~ Contains(s, e)
  <2>1. Without(s, e) = s
    BY <1>1 DEF Without, FirstAt, Contains
  <2>2. QED
    BY <1>1, <2>1
<1>2. CASE Contains(s, e)
  <2>1. \E i \in DOMAIN s : FirstAt(s, i, e)
    BY <1>2 DEF Once, Contains, FirstAt
  <2>2. n \in 1 .. Len(s) /\ s[n] = e
    BY <2>1 DEF FirstAt
  <2>3. Without(s, e) = RemoveAt(s, n)
    BY <2>1 DEF Without
  <2> DEFINE t == RemoveAt(s, n)
  <2> HIDE DEF n
  <2>4. /\ Len(t) = Len(s) - 1
        /\ \A i \in 1 .. Len(t) : t[i] = IF i < n THEN s[i] ELSE s[i + 1]
    BY <2>2, RemoveAtFacts
  <2>5. t \in Seq(S)
    BY <2>2, RemoveAtFacts
  <2> HIDE DEF t
  <2>6. Once(t)
    <3>1. SUFFICES ASSUME NEW i \in 1 .. Len(t), NEW j \in 1 .. Len(t), t[i] = t[j]
                   PROVE  i = j
      BY <2>5 DEF Once
    <3> DEFINE at(k) == IF k < n THEN k ELSE k + 1
    <3>2. ASSUME NEW k \in 1 .. Len(t)
          PROVE  t[k] = s[at(k)] /\ at(k) \in 1 .. Len(s)
      BY <2>2, <2>4
    <3>3. s[at(i)] = s[at(j)] /\ at(i) \in 1 .. Len(s) /\ at(j) \in 1 .. Len(s)
      BY <3>1, <3>2
    <3>4. at(i) = at(j)
      <4> HIDE DEF at
      <4>1. QED
        BY <3>3 DEF Once
    <3>5. QED
      BY <2>2, <2>4, <3>4
  <2>7. ASSUME NEW x, Contains(t, x)
        PROVE  Contains(s, x) /\ x # e
    <3>1. PICK i \in 1 .. Len(t) : t[i] = x
      BY <2>7 DEF Contains
    <3>2. CASE i < n
      BY <2>2, <2>4, <3>1, <3>2 DEF Once, Contains
    <3>3. CASE ~ i < n
      BY <2>2, <2>4, <2>5, <3>1, <3>3 DEF Once, Contains
    <3>4. QED
      BY <3>2, <3>3
  <2>8. ASSUME NEW x, Contains(s, x), x # e
        PROVE  Contains(t, x)
    <3>1. PICK i \in 1 .. Len(s) : s[i] = x
      BY <2>8 DEF Contains
    <3>2. i # n
      BY <2>2, <2>8, <3>1
    <3>3. CASE i < n
      BY <2>2, <2>4, <3>1, <3>3 DEF Contains
    <3>4. CASE i > n
      <4>1. i - 1 \in 1 .. Len(t) /\ t[i - 1] = s[i]
        BY <2>2, <2>4, <3>1, <3>4
      <4>2. QED
        BY <3>1, <4>1 DEF Contains
    <3>5. QED
      BY <2>2, <3>1, <3>2, <3>3, <3>4
  <2>9. QED
    BY <2>3, <2>6, <2>7, <2>8 DEF t
<1>3. QED
  BY <1>1, <1>2

LEMMA AppendOnce ==
  ASSUME NEW S, NEW s \in Seq(S), NEW e \in S, Once(s), ~ Contains(s, e)
  PROVE  /\ Once(Append(s, e))
         /\ \A x : Contains(Append(s, e), x) <=> Contains(s, x) \/ x = e
BY DEF Once, Contains

(* The driver is asked to start once, and main waits until it has.         *)
Starts == {i \in DOMAIN driverEvents : driverEvents[i].op = "start"}

StartOnce ==
  /\ main # "starting" => Starts = {}
  /\ \A i, j \in Starts : i = j

(* Who is in the queue, or on its way to it, has asked and was not         *)
(* answered; and so has the agent that main is about to answer.            *)
HasAsked(a) == agent[a] \in {"asking", "over", "gone"}

Approvals ==
  /\ Once(pending)
  /\ \A a \in Agents : Contains(pending, a) \/ a \in requested => HasAsked(a)
  /\ \A a \in requested : ~ Contains(pending, a)
  /\ main = "confirm" => /\ target \in Agents /\ HasAsked(target)
                         /\ agent[target] = "asking" => Contains(pending, target)

LEMMA ApprovalsInit == Init => StartOnce /\ Approvals
<1> SUFFICES ASSUME Init PROVE StartOnce /\ Approvals
  OBVIOUS
<1>1. driverEvents = <<>> /\ pending = <<>> /\ requested = {} /\ main = "start"
  BY DEF Init
<1>2. StartOnce
  BY <1>1 DEF StartOnce, Starts
<1>3. Approvals
  BY <1>1 DEF Approvals, Once, Contains
<1>4. QED
  BY <1>2, <1>3

LEMMA StartOnceNext ==
  ASSUME Types, StartOnce, [Next]_vars
  PROVE  StartOnce'
<1> USE DEF StartOnce, Starts
<1>1. CASE UNCHANGED <<main, driverEvents>>
  BY <1>1
<1>2. CASE UNCHANGED driverEvents /\ main # "starting" /\ main' # "starting"
  BY <1>2
<1>3. CASE Start
  <2>1. driverEvents \in Seq(Requests) /\ main = "start" /\ main' = "starting"
    BY <1>3 DEF Start, MainGoes, Types
  <2>2. driverEvents' = Append(driverEvents, [op |-> "start", who |-> "main"])
    BY <1>3 DEF Start
  <2>3. \A i \in DOMAIN driverEvents' : i # Len(driverEvents) + 1 =>
          i \in DOMAIN driverEvents /\ driverEvents'[i] = driverEvents[i]
    BY <2>1, <2>2
  <2>4. QED
    BY <2>1, <2>3
<1>4. ASSUME NEW s \in Stoppers, SendStop(s)
      PROVE  StartOnce'
  <2>1. driverEvents \in Seq(Requests) /\ main' = main
    BY <1>4 DEF SendStop, Types
  <2>2. CASE driverEvents' = Append(driverEvents, [op |-> "stop", who |-> s])
    <3>1. /\ DOMAIN driverEvents' = DOMAIN driverEvents \cup {Len(driverEvents) + 1}
          /\ \A i \in DOMAIN driverEvents : driverEvents'[i] = driverEvents[i]
          /\ driverEvents'[Len(driverEvents) + 1] = [op |-> "stop", who |-> s]
      BY <2>1, <2>2
    <3>2. Starts' = Starts
      BY <3>1
    <3>3. QED
      BY <2>1, <3>2
  <2>3. QED
    BY <1>4, <2>1, <2>2 DEF SendStop
<1>5. ASSUME NEW op, Serve(op)
      PROVE  /\ driverEvents \in Seq(Requests) /\ driverEvents # <<>>
             /\ driverEvents[1].op = op
             /\ \A i \in DOMAIN driverEvents' :
                  i + 1 \in DOMAIN driverEvents /\ driverEvents'[i] = driverEvents[i + 1]
             /\ DOMAIN driverEvents' \subseteq Nat
  BY <1>5 DEF Serve, Types
<1>6. CASE StartEngine
  <2>1. Serve("start") /\ main' = "read"
    BY <1>6 DEF StartEngine
  <2>2. 1 \in Starts
    BY <1>5, <2>1
  <2>3. Starts' = {}
    BY <1>5, <2>1, <2>2
  <2>4. QED
    BY <2>3
<1>7. CASE ServeStop
  <2>1. Serve("stop") /\ main' = main
    BY <1>7 DEF ServeStop
  <2>2. \A i \in Starts' : i + 1 \in Starts /\ i \in Nat
    BY <1>5, <2>1
  <2>3. QED
    BY <2>1, <2>2
<1>8. QED
  <2>1. CASE MainStep \/ Readline \/ EndOfInput
    BY <1>2, <1>3, <1>1, <2>1 DEF MainStep, Readline, StopAgent, ReadWord, ReadLine, Confirm, Send,
       EndOfInput, StopEngine, EngineStopped, StopCoordinator, MainGoes, Prompt
  <2>2. CASE DriverStep
    BY <1>1, <1>4, <1>6, <1>7, <2>2 DEF DriverStep, StopServed
  <2>3. CASE \E s \in Stoppers : CallStop(s)
    BY <1>1, <2>3 DEF CallStop
  <2>4. CASE ReplStep
    BY <1>1, <2>4 DEF ReplStep, ReadEOF, Turn, ReplCommand, TakeTurnEvent, onOutput,
       TotalUsage, TurnOver, ReplEnds
  <2>5. CASE EngineStep
    BY <1>1, <2>5 DEF EngineStep, StartTurn, Interrupt, Notified, AnswerUsage, OtherCommand,
       QueryEnds, EndTurn, TurnStopped, LoopEnds
  <2>6. CASE \E a \in Agents : AgentStep(a) \/ CoordinatorStep(a)
    BY <1>1, <2>6 DEF AgentStep, CoordinatorStep, Spawn, Ask, AgentEnds, handleAgentConfirm,
       handleAgentDone
  <2>7. CASE HelperStep \/ Signal
    BY <1>1, <2>7 DEF HelperStep, Signal, Drain, CloseReadline, Notify
  <2>8. CASE UNCHANGED vars
    BY <1>1, <2>8 DEF vars
  <2>9. QED
    BY <2>1, <2>2, <2>3, <2>4, <2>5, <2>6, <2>7, <2>8 DEF Next

LEMMA StartWaited ==
  ASSUME Types, StartOnce, StartEngine
  PROVE  main = "starting"
<1>1. /\ driverEvents \in Seq(Requests) /\ driverEvents # <<>>
      /\ Head(driverEvents).op = "start"
  BY DEF StartEngine, Serve, Types
<1>2. 1 \in Starts
  BY <1>1 DEF Starts
<1>3. QED
  BY <1>2 DEF StartOnce

LEMMA ApprovalsNext ==
  ASSUME Types, Approvals, [Next]_vars
  PROVE  Approvals'
<1> USE DEF Approvals, HasAsked
<1>0. /\ pending \in Seq(Agents) /\ requested \subseteq Agents
      /\ agent \in [Agents -> {"unborn", "running", "asking", "over", "gone"}]
  BY DEF Types
<1>1. CASE /\ UNCHANGED <<agent, pending, requested>>
           /\ UNCHANGED <<main, target>> \/ main' # "confirm"
  BY <1>1 DEF Contains, Once
<1>2. CASE ReadWord
  <2>1. /\ UNCHANGED <<agent, pending, requested>> /\ pending # <<>>
        /\ target' = Head(pending)
    BY <1>2 DEF ReadWord, HasPendingConfirm
  <2>2. Contains(pending, target') /\ target' \in Agents
    BY <1>0, <2>1 DEF Contains
  <2>3. QED
    BY <2>1, <2>2 DEF Once, Contains
<1>3. CASE Confirm
  <2>1. /\ main = "confirm" /\ main' = "read" /\ UNCHANGED requested
        /\ pending' = Without(pending, target)
        /\ agent' = IF Contains(pending, target) /\ agent[target] = "asking"
                    THEN [agent EXCEPT ![target] = "running"] ELSE agent
    BY <1>3 DEF Confirm, Prompt, MainGoes
  <2>2. /\ Once(pending')
        /\ \A x : Contains(pending', x) <=> Contains(pending, x) /\ x # target
    BY <1>0, <2>1, WithoutRemoves
  <2>3. QED
    BY <1>0, <2>1, <2>2
<1>4. ASSUME NEW a \in Agents, Spawn(a) \/ Ask(a) \/ AgentEnds(a)
      PROVE  Approvals'
  <2>1. UNCHANGED <<main, target, pending>>
    BY <1>4 DEF Spawn, Ask, AgentEnds
  <2>2. (Once(pending) => Once(pending')) /\ \A x : Contains(pending', x) <=> Contains(pending, x)
    BY <2>1 DEF Once, Contains
  <2>3. CASE Spawn(a)
    BY <1>0, <2>1, <2>2, <2>3 DEF Spawn
  <2>4. CASE Ask(a)
    BY <1>0, <2>1, <2>2, <2>4 DEF Ask
  <2>5. CASE AgentEnds(a)
    BY <1>0, <2>1, <2>2, <2>5 DEF AgentEnds
  <2>6. QED
    BY <1>4, <2>3, <2>4, <2>5
<1>5. ASSUME NEW a \in Agents, handleAgentConfirm(a)
      PROVE  Approvals'
  <2>1. /\ a \in requested /\ requested' = requested \ {a} /\ pending' = Append(pending, a)
        /\ UNCHANGED <<main, target, agent>>
    BY <1>5 DEF handleAgentConfirm
  <2>2. /\ Once(pending')
        /\ \A x : Contains(pending', x) <=> Contains(pending, x) \/ x = a
    BY <1>0, <2>1, AppendOnce
  <2>3. QED
    BY <1>0, <2>1, <2>2
<1>6. ASSUME NEW a \in Agents, handleAgentDone(a)
      PROVE  Approvals'
  <2>1. /\ agent[a] = "over" /\ agent' = [agent EXCEPT ![a] = "gone"]
        /\ pending' = Without(pending, a) /\ UNCHANGED <<main, target, requested>>
    BY <1>6 DEF handleAgentDone
  <2>2. /\ Once(pending')
        /\ \A x : Contains(pending', x) <=> Contains(pending, x) /\ x # a
    BY <1>0, <2>1, WithoutRemoves
  <2>3. QED
    BY <1>0, <2>1, <2>2
<1>7. QED
  <2>1. CASE MainStep \/ Readline \/ EndOfInput
    BY <1>1, <1>2, <1>3, <2>1 DEF MainStep, Readline, Start, StopAgent, ReadLine, Send,
       EndOfInput, StopEngine, EngineStopped, StopCoordinator, MainGoes, Prompt
  <2>2. CASE DriverStep
    BY <1>1, <2>2 DEF DriverStep, StopServed, StartEngine, ServeStop, SendStop
  <2>3. CASE \E s \in Stoppers : CallStop(s)
    BY <1>1, <2>3 DEF CallStop
  <2>4. CASE ReplStep
    BY <1>1, <2>4 DEF ReplStep, ReadEOF, Turn, ReplCommand, TakeTurnEvent, onOutput,
       TotalUsage, TurnOver, ReplEnds
  <2>5. CASE EngineStep
    BY <1>1, <2>5 DEF EngineStep, StartTurn, Interrupt, Notified, AnswerUsage, OtherCommand,
       QueryEnds, EndTurn, TurnStopped, LoopEnds
  <2>6. CASE \E a \in Agents : AgentStep(a) \/ CoordinatorStep(a)
    BY <1>4, <1>5, <1>6, <2>6 DEF AgentStep, CoordinatorStep
  <2>7. CASE HelperStep \/ Signal
    BY <1>1, <2>7 DEF HelperStep, Signal, Drain, CloseReadline, Notify
  <2>8. CASE UNCHANGED vars
    BY <1>1, <2>8 DEF vars
  <2>9. QED
    BY <2>1, <2>2, <2>3, <2>4, <2>5, <2>6, <2>7, <2>8 DEF Next

LEMMA OtherStepsKeepMain ==
  ASSUME Next, main = "confirm"
  PROVE  Confirm \/ StartEngine \/ UNCHANGED main
<1>1. CASE MainStep \/ Readline \/ EndOfInput
  BY <1>1 DEF MainStep, Readline, Start, StopAgent, ReadWord, ReadLine, Send,
     EndOfInput, StopEngine, EngineStopped, StopCoordinator, MainGoes, Prompt
<1>2. CASE DriverStep
  BY <1>2 DEF DriverStep, StopServed, ServeStop, SendStop
<1>3. CASE \E s \in Stoppers : CallStop(s)
  BY <1>3 DEF CallStop
<1>4. CASE ReplStep
  BY <1>4 DEF ReplStep, ReadEOF, Turn, ReplCommand, TakeTurnEvent, onOutput,
     TotalUsage, TurnOver, ReplEnds
<1>5. CASE EngineStep
  BY <1>5 DEF EngineStep, StartTurn, Interrupt, Notified, AnswerUsage, OtherCommand,
     QueryEnds, EndTurn, TurnStopped, LoopEnds
<1>6. CASE \E a \in Agents : AgentStep(a) \/ CoordinatorStep(a)
  BY <1>6 DEF AgentStep, CoordinatorStep, Spawn, Ask, AgentEnds, handleAgentConfirm,
     handleAgentDone
<1>7. CASE HelperStep \/ Signal
  BY <1>7 DEF HelperStep, Signal, Drain, CloseReadline, Notify
<1>8. QED
  BY <1>1, <1>2, <1>3, <1>4, <1>5, <1>6, <1>7 DEF Next

(* The word that main takes from the prompt answers the call that asked    *)
(* first, or one whose agent has ended: nothing between the look at the    *)
(* queue and the answer can give the call to another.                      *)
THEOREM WordsReach == Spec => WordReachesAsker
<1> DEFINE Reaches == main = "confirm" /\ main' = "read" =>
                        \/ agent[target] = "asking" /\ agent'[target] = "running"
                        \/ agent[target] \in {"over", "gone"}
           IInv == Types /\ StartOnce /\ Approvals
<1>1. Init => IInv
  BY TypeInit, ApprovalsInit
<1>2. IInv /\ [Next]_vars => IInv'
  BY TypeNext, StartOnceNext, ApprovalsNext
<1>3. IInv /\ [Next]_vars => [Reaches]_vars
  <2> SUFFICES ASSUME IInv, Next, main = "confirm", main' = "read" PROVE Reaches
    BY DEF vars
  <2>1. CASE Confirm
    <3>1. /\ target \in Agents /\ HasAsked(target)
          /\ agent[target] = "asking" => Contains(pending, target)
      BY DEF Approvals
    <3>2. agent \in [Agents -> {"unborn", "running", "asking", "over", "gone"}]
      BY DEF Types
    <3>3. QED
      BY <2>1, <3>1, <3>2 DEF Confirm, HasAsked
  <2>2. ~ StartEngine
    BY StartWaited
  <2>3. CASE UNCHANGED main
    BY <2>3
  <2>4. QED
    BY <2>1, <2>2, <2>3, OtherStepsKeepMain
<1>4. QED
  BY <1>1, <1>2, <1>3, PTL DEF Spec, WordReachesAsker

-----------------------------------------------------------------------------
(* Panics. The REPL asks for the usage once at a time, so an answer comes  *)
(* only to a REPL that waits for it, and never revives one that has ended. *)

Totals == {i \in DOMAIN cmdCh : cmdCh[i] = "total"}

AskOnce ==
  /\ main \in {"start", "starting"} => repl = "none"
  /\ repl # "usage" => Totals = {}
  /\ \A i, j \in Totals : i = j

LEMMA AppendFacts ==
  ASSUME NEW S, NEW s \in Seq(S), NEW e \in S
  PROVE  /\ DOMAIN Append(s, e) = DOMAIN s \cup {Len(s) + 1}
         /\ \A i \in DOMAIN s : Append(s, e)[i] = s[i]
         /\ Append(s, e)[Len(s) + 1] = e
OBVIOUS

LEMMA TailFacts ==
  ASSUME NEW S, NEW s \in Seq(S), s # <<>>
  PROVE  /\ 1 \in DOMAIN s /\ Head(s) = s[1]
         /\ \A i \in DOMAIN Tail(s) : /\ i \in Nat \ {0} /\ i + 1 \in DOMAIN s
                                      /\ Tail(s)[i] = s[i + 1]
OBVIOUS

LEMMA TotalsAppend ==
  ASSUME cmdCh \in Seq(Commands), NEW c \in Commands, c # "total", cmdCh' = Append(cmdCh, c)
  PROVE  Totals' = Totals
<1>1. /\ DOMAIN cmdCh' = DOMAIN cmdCh \cup {Len(cmdCh) + 1}
      /\ \A i \in DOMAIN cmdCh : cmdCh'[i] = cmdCh[i]
      /\ cmdCh'[Len(cmdCh) + 1] = c
  BY AppendFacts
<1>2. QED
  BY <1>1 DEF Totals

LEMMA TotalsTake ==
  ASSUME cmdCh \in Seq(Commands), NEW kind, Take(kind), \A i, j \in Totals : i = j
  PROVE  /\ Totals = {} => Totals' = {}
         /\ \A i, j \in Totals' : i = j
         /\ kind = "total" => Totals # {} /\ Totals' = {}
<1>1. /\ 1 \in DOMAIN cmdCh /\ cmdCh[1] = kind
      /\ \A i \in DOMAIN cmdCh' : /\ i \in Nat \ {0} /\ i + 1 \in DOMAIN cmdCh
                                  /\ cmdCh'[i] = cmdCh[i + 1]
  BY TailFacts DEF Take
<1>2. \A i \in Totals' : i \in Nat \ {0} /\ i + 1 \in Totals
  BY <1>1 DEF Totals
<1>3. kind = "total" => 1 \in Totals
  BY <1>1 DEF Totals
<1>4. QED
  BY <1>2, <1>3

LEMMA AskOnceNext ==
  ASSUME Types, StartOnce, AskOnce, [Next]_vars
  PROVE  AskOnce'
<1> DEFINE Early == main \in {"start", "starting"} => repl = "none"
           Once1 == /\ repl # "usage" => Totals = {}
                    /\ \A i, j \in Totals : i = j
<1>0. Early /\ Once1 /\ cmdCh \in Seq(Commands)
  BY DEF AskOnce, Types
<1>1. ASSUME UNCHANGED cmdCh, repl' = repl \/ repl # "usage"
      PROVE  Once1'
  BY <1>0, <1>1 DEF Totals
<1>2. ASSUME NEW c \in Commands, c # "total", cmdCh' = Append(cmdCh, c),
             repl' = repl \/ repl # "usage"
      PROVE  Once1'
  BY <1>0, <1>2, TotalsAppend
<1>3. ASSUME NEW kind, Take(kind), repl' = repl \/ kind = "total"
      PROVE  Once1'
  BY <1>0, <1>3, TotalsTake
<1>4. ASSUME NEW who, NEW cmd \in Commands, cmd # "total", Offer(who, cmd),
             repl' = repl \/ repl # "usage"
      PROVE  Once1'
  <2>1. CASE UNCHANGED cmdCh
    BY <1>1, <1>4, <2>1
  <2>2. CASE cmdCh' = Append(cmdCh, cmd)
    BY <1>2, <1>4, <2>2
  <2>3. QED
    BY <1>4, <2>1, <2>2 DEF Offer
<1>5. {"turn", "notify", "interrupt", "reset", "usage"} \subseteq Commands
  BY DEF Commands
<1>6. CASE MainStep \/ Readline \/ EndOfInput
  <2>1. Early'
    BY <1>0, <1>6 DEF MainStep, Readline, Start, StopAgent, ReadWord, ReadLine, Confirm, Send,
       EndOfInput, StopEngine, EngineStopped, StopCoordinator, MainGoes, Prompt
  <2>2. UNCHANGED cmdCh /\ (repl' = repl \/ repl # "usage")
    BY <1>6 DEF MainStep, Readline, Start, StopAgent, ReadWord, ReadLine, Confirm, Send,
       EndOfInput, StopEngine, EngineStopped, StopCoordinator, MainGoes, Prompt
  <2>3. QED
    BY <1>1, <2>1, <2>2 DEF AskOnce
<1>7. CASE DriverStep \/ \E s \in Stoppers : CallStop(s)
  <2>1. CASE StartEngine
    <3>1. UNCHANGED cmdCh /\ main' = "read"
      BY <2>1 DEF StartEngine
    <3>2. repl = "none"
      BY <1>0, <2>1, StartWaited
    <3>3. QED
      BY <1>1, <3>1, <3>2 DEF AskOnce
  <2>2. CASE ServeStop \/ StopServed \/ \E s \in Stoppers : SendStop(s) \/ CallStop(s)
    <3>1. UNCHANGED <<cmdCh, main, repl>>
      BY <2>2 DEF ServeStop, StopServed, SendStop, CallStop
    <3>2. QED
      BY <1>0, <1>1, <3>1 DEF AskOnce
  <2>3. QED
    BY <1>7, <2>1, <2>2 DEF DriverStep
<1>8. CASE ReplStep
  <2>1. UNCHANGED main /\ repl # "none"
    BY <1>8 DEF ReplStep, ReplGoes, ReadEOF, Turn, ReplCommand, TakeTurnEvent, onOutput,
       TotalUsage, TurnOver, ReplEnds
  <2>2. Early'
    BY <1>0, <2>1
  <2>3. CASE Turn
    <3>1. repl # "usage" /\ (UNCHANGED cmdCh \/ cmdCh' = Append(cmdCh, "turn"))
      BY <2>3 DEF Turn, ReplGoes
    <3>2. QED
      BY <1>1, <1>2, <1>5, <2>2, <3>1 DEF AskOnce
  <2>4. CASE ReplCommand
    <3>1. PICK kind \in {"interrupt", "reset"} : ReplGoes(kind, "say") /\ Offer("repl", kind)
      BY <2>4 DEF ReplCommand
    <3>2. QED
      BY <1>4, <1>5, <2>2, <3>1 DEF ReplGoes, AskOnce
  <2>5. CASE TotalUsage
    <3>1. /\ repl = "ask" /\ repl' = "usage"
          /\ UNCHANGED cmdCh \/ cmdCh' = Append(cmdCh, "total")
      BY <2>5 DEF TotalUsage, ReplGoes, Offer
    <3>2. Totals = {}
      BY <1>0, <3>1
    <3>3. CASE UNCHANGED cmdCh
      BY <1>1, <2>2, <3>1, <3>3 DEF AskOnce
    <3>4. CASE cmdCh' = Append(cmdCh, "total")
      <4>1. /\ DOMAIN cmdCh' = DOMAIN cmdCh \cup {Len(cmdCh) + 1}
            /\ \A i \in DOMAIN cmdCh : cmdCh'[i] = cmdCh[i]
        BY <1>0, <3>4, AppendFacts DEF Commands
      <4>2. Totals' \subseteq {Len(cmdCh) + 1}
        BY <3>2, <4>1 DEF Totals
      <4>3. QED
        BY <2>2, <3>1, <4>2 DEF AskOnce
    <3>5. QED
      BY <3>1, <3>3, <3>4
  <2>6. CASE ReadEOF \/ TakeTurnEvent \/ onOutput \/ TurnOver \/ ReplEnds
    <3>1. UNCHANGED cmdCh /\ repl # "usage"
      BY <2>6 DEF ReadEOF, TakeTurnEvent, onOutput, TurnOver, ReplEnds, ReplGoes
    <3>2. QED
      BY <1>1, <2>2, <3>1 DEF AskOnce
  <2>7. QED
    BY <1>8, <2>3, <2>4, <2>5, <2>6 DEF ReplStep
<1>9. CASE EngineStep
  <2>1. CASE AnswerUsage
    <3>1. Take("total") /\ UNCHANGED main
      BY <2>1 DEF AnswerUsage
    <3>2. repl = "usage"
      BY <1>0, <3>1, TotalsTake
    <3>3. QED
      BY <1>0, <1>3, <3>1, <3>2 DEF AskOnce
  <2>2. CASE StartTurn \/ Interrupt \/ Notified \/ OtherCommand
    <3>1. (\E kind : Take(kind)) /\ UNCHANGED <<main, repl>>
      BY <2>2 DEF StartTurn, Interrupt, Notified, OtherCommand
    <3>2. QED
      BY <1>0, <1>3, <3>1 DEF AskOnce
  <2>3. CASE QueryEnds \/ EndTurn \/ TurnStopped \/ LoopEnds
    <3>1. UNCHANGED <<main, repl, cmdCh>>
      BY <2>3 DEF QueryEnds, EndTurn, TurnStopped, LoopEnds
    <3>2. QED
      BY <1>0, <1>1, <3>1 DEF AskOnce
  <2>4. QED
    BY <1>9, <2>1, <2>2, <2>3 DEF EngineStep
<1>10. CASE \E a \in Agents : AgentStep(a) \/ CoordinatorStep(a)
  <2>1. UNCHANGED <<main, repl>> /\ (UNCHANGED cmdCh \/ Offer("coordinator", "usage"))
    BY <1>10 DEF AgentStep, CoordinatorStep, Spawn, Ask, AgentEnds, handleAgentConfirm,
       handleAgentDone
  <2>2. QED
    BY <1>0, <1>1, <1>4, <1>5, <2>1 DEF AskOnce
<1>11. CASE HelperStep \/ Signal
  <2>1. /\ UNCHANGED <<main, repl>>
        /\ \/ UNCHANGED cmdCh
           \/ Offer("forwarder", "notify")
           \/ Offer("signal", "interrupt")
    BY <1>11 DEF HelperStep, Signal, Drain, CloseReadline, Notify
  <2>2. QED
    BY <1>0, <1>1, <1>4, <1>5, <2>1 DEF AskOnce
<1>12. CASE UNCHANGED vars
  <2>1. UNCHANGED <<main, repl, cmdCh>>
    BY <1>12 DEF vars
  <2>2. QED
    BY <1>0, <1>1, <2>1 DEF AskOnce
<1>13. QED
  BY <1>6, <1>7, <1>8, <1>9, <1>10, <1>11, <1>12 DEF Next

(* Who closes what when nobody has called Stop: the end of runEngineLoop   *)
(* the output, and main, which waits for it, the engine's commands.        *)
Closing == main \in {"stopping", "stopped", "exited"}

ClosedInOrder ==
  /\ \A i \in DOMAIN driverEvents : driverEvents[i].op # "stop"
  /\ driverLoop # "stopping"
  /\ done => repl = "gone"
  /\ closed => Closing
  /\ Closing => done
  /\ panicked # "none" => panicked # "repl" /\ main \in {"stopping", "stopped"}

LEMMA ClosedInit == Init => AskOnce /\ ClosedInOrder
<1> SUFFICES ASSUME Init PROVE AskOnce /\ ClosedInOrder
  OBVIOUS
<1>1. /\ driverEvents = <<>> /\ cmdCh = <<>> /\ main = "start" /\ repl = "none"
      /\ driverLoop = "select" /\ panicked = "none" /\ ~ done /\ ~ closed
  BY DEF Init
<1>2. QED
  BY <1>1 DEF AskOnce, Totals, ClosedInOrder, Closing

(* A Stop that has begun is not undone.                                    *)
LEMMA StoppingStays ==
  ASSUME Types, Stopping, [Next]_vars
  PROVE  Stopping'
<1>1. CASE UNCHANGED stopper
  BY <1>1 DEF Stopping
<1>2. ASSUME NEW s \in Stoppers, NEW v \in {"sending", "waiting", "done"},
             stopper' = [stopper EXCEPT ![s] = v]
      PROVE  Stopping'
  BY <1>2 DEF Stopping, Types
<1>3. CASE MainStep \/ Readline \/ EndOfInput
  BY <1>1, <1>3 DEF MainStep, Readline, Start, StopAgent, ReadWord, ReadLine, Confirm, Send,
     EndOfInput, StopEngine, EngineStopped, StopCoordinator
<1>4. CASE DriverStep
  <2>1. CASE StartEngine \/ ServeStop
    BY <1>1, <2>1 DEF StartEngine, ServeStop
  <2>2. CASE StopServed
    BY <2>2 DEF StopServed, Stopping, Types
  <2>3. CASE \E s \in Stoppers : SendStop(s)
    BY <1>2, <2>3 DEF SendStop
  <2>4. QED
    BY <1>4, <2>1, <2>2, <2>3 DEF DriverStep
<1>5. CASE \E s \in Stoppers : CallStop(s)
  BY <1>2, <1>5 DEF CallStop
<1>6. CASE ReplStep
  BY <1>1, <1>6 DEF ReplStep, ReadEOF, Turn, ReplCommand, TakeTurnEvent, onOutput,
     TotalUsage, TurnOver, ReplEnds
<1>7. CASE EngineStep
  BY <1>1, <1>7 DEF EngineStep, StartTurn, Interrupt, Notified, AnswerUsage, OtherCommand,
     QueryEnds, EndTurn, TurnStopped, LoopEnds
<1>8. CASE \E a \in Agents : AgentStep(a) \/ CoordinatorStep(a)
  BY <1>1, <1>8 DEF AgentStep, CoordinatorStep, Spawn, Ask, AgentEnds, handleAgentConfirm,
     handleAgentDone
<1>9. CASE HelperStep \/ Signal
  BY <1>1, <1>9 DEF HelperStep, Signal, Drain, CloseReadline, Notify
<1>10. CASE UNCHANGED vars
  BY <1>1, <1>10 DEF vars
<1>11. QED
  BY <1>3, <1>4, <1>5, <1>6, <1>7, <1>8, <1>9, <1>10 DEF Next

LEMMA ClosedNext ==
  ASSUME Types, StartOnce, AskOnce, ClosedInOrder, ~ Stopping, [Next]_vars
  PROVE  Stopping' \/ ClosedInOrder'
<1> USE DEF ClosedInOrder, Closing
<1>1. CASE Start
  <2>1. driverEvents \in Seq(Requests) /\ main = "start" /\ main' = "starting"
    BY <1>1 DEF Start, MainGoes, Types
  <2>2. driverEvents' = Append(driverEvents, [op |-> "start", who |-> "main"])
    BY <1>1 DEF Start
  <2>3. \A i \in DOMAIN driverEvents' : driverEvents'[i].op # "stop"
    BY <2>1, <2>2
  <2>4. QED
    BY <1>1, <2>1, <2>3 DEF Start
<1>2. CASE StopAgent \/ ReadWord \/ ReadLine \/ EndOfInput \/ Confirm
  BY <1>2 DEF StopAgent, ReadWord, ReadLine, EndOfInput, Confirm, MainGoes, Prompt, Alive
<1>3. CASE Send
  BY <1>3 DEF Send, MainGoes, Prompt, Alive
<1>4. CASE StopEngine \/ EngineStopped \/ StopCoordinator
  BY <1>4 DEF StopEngine, EngineStopped, StopCoordinator, MainGoes, Alive
<1>5. CASE StartEngine
  <2>1. main = "starting" /\ repl = "none"
    BY <1>5, StartWaited DEF AskOnce
  <2>2. ~ done /\ ~ closed /\ panicked = "none"
    BY <1>5, <2>1 DEF StartEngine, Serve, Alive
  <2>3. \A i \in DOMAIN driverEvents' : driverEvents'[i].op # "stop"
    BY <1>5, TailFacts DEF StartEngine, Serve, Types
  <2>4. QED
    BY <1>5, <2>2, <2>3 DEF StartEngine
<1>6. CASE \E s \in Stoppers : CallStop(s)
  BY <1>6 DEF CallStop, Stopping, Types
<1>7. ~ (ServeStop \/ StopServed \/ \E s \in Stoppers : SendStop(s))
  <2>1. ~ ServeStop
    BY TailFacts DEF ServeStop, Serve, Types
  <2>2. ~ StopServed
    BY DEF StopServed
  <2>3. ~ \E s \in Stoppers : SendStop(s)
    BY DEF SendStop, Stopping
  <2>4. QED
    BY <2>1, <2>2, <2>3
<1>8. CASE ReplStep
  <2>1. repl # "gone" /\ panicked = "none"
    BY <1>8 DEF ReplStep, ReplGoes, ReadEOF, Turn, ReplCommand, TakeTurnEvent, onOutput,
       TotalUsage, TurnOver, ReplEnds, Alive
  <2>2. ~ done /\ ~ closed /\ ~ Closing
    BY <2>1
  <2>3. /\ UNCHANGED <<main, driverEvents, driverLoop, closed>>
        /\ panicked' = "none" /\ (UNCHANGED done \/ repl' = "gone")
    BY <1>8, <2>1, <2>2 DEF ReplStep, ReplGoes, ReadEOF, Turn, ReplCommand, TakeTurnEvent,
       onOutput, TotalUsage, TurnOver, ReplEnds, Offer
  <2>4. QED
    BY <2>2, <2>3
<1>9. CASE EngineStep
  <2>1. UNCHANGED <<main, driverEvents, driverLoop, closed, done, panicked>>
    BY <1>9 DEF EngineStep, StartTurn, Interrupt, Notified, AnswerUsage, OtherCommand,
       QueryEnds, EndTurn, TurnStopped, LoopEnds
  <2>2. CASE AnswerUsage
    <3>1. repl = "usage"
      BY <2>2, TotalsTake DEF AnswerUsage, AskOnce, Types
    <3>2. QED
      BY <2>1, <3>1
  <2>3. CASE ~ AnswerUsage
    <3>1. UNCHANGED repl
      BY <1>9, <2>3 DEF EngineStep, StartTurn, Interrupt, Notified, OtherCommand,
         QueryEnds, EndTurn, TurnStopped, LoopEnds
    <3>2. QED
      BY <2>1, <3>1
  <2>4. QED
    BY <2>2, <2>3
<1>10. ASSUME NEW who, NEW cmd, Alive, who # "repl",
              Offer(who, cmd) \/ UNCHANGED <<engVars, panicked>>,
              UNCHANGED <<main, driverEvents, driverLoop, done, repl>>
       PROVE  ClosedInOrder'
  BY <1>10 DEF Offer, Alive
<1>11. CASE \E a \in Agents : AgentStep(a) \/ CoordinatorStep(a)
  <2>1. /\ Alive
        /\ Offer("coordinator", "usage") \/ UNCHANGED <<engVars, panicked>>
        /\ UNCHANGED <<main, driverEvents, driverLoop, done, repl>>
    BY <1>11 DEF AgentStep, CoordinatorStep, Spawn, Ask, AgentEnds, handleAgentConfirm,
       handleAgentDone
  <2>2. QED
    BY <1>10, <2>1
<1>12. CASE HelperStep \/ Signal
  <2>1. /\ Alive /\ UNCHANGED <<main, driverEvents, driverLoop, done, repl>>
        /\ \/ UNCHANGED <<engVars, panicked>>
           \/ Offer("forwarder", "notify")
           \/ Offer("signal", "interrupt")
    BY <1>12 DEF HelperStep, Signal, Drain, CloseReadline, Notify
  <2>2. QED
    BY <1>10, <2>1
<1>13. CASE UNCHANGED vars
  BY <1>13 DEF vars
<1>14. QED
  BY <1>1, <1>2, <1>3, <1>4, <1>5, <1>6, <1>7, <1>8, <1>9, <1>11, <1>12, <1>13
     DEF Next, MainStep, Readline, DriverStep

(* No goroutine sends on a closed channel before main has begun to stop    *)
(* the engine, and the REPL's never does, unless a goroutine other than    *)
(* main has called EngineDriver.Stop.                                      *)
THEOREM NoPanic == Spec => []PanicOnlyWhenStopped
<1> DEFINE IInv == /\ Types /\ StartOnce /\ AskOnce
                   /\ Stopping \/ ClosedInOrder
<1>1. Init => IInv
  BY TypeInit, ApprovalsInit, ClosedInit
<1>2. IInv /\ [Next]_vars => IInv'
  BY TypeNext, StartOnceNext, AskOnceNext, StoppingStays, ClosedNext
<1>3. IInv => PanicOnlyWhenStopped
  BY DEF ClosedInOrder, PanicOnlyWhenStopped
<1>4. QED
  BY <1>1, <1>2, <1>3, PTL DEF Spec

=============================================================================
