--------------------------- MODULE StreamParserProofs ---------------------------
(***************************************************************************)
(* Theorems about StreamParser, for answers with any number of events and  *)
(* blocks: the message is the answer, at every event where it may end.     *)
(***************************************************************************)
EXTENDS StreamParser, FiniteSetTheorems, SequenceTheorems, WellFoundedInduction, TLAPS

JSONs      == {"", "{", "}", "{}"}
Usages     == [in : {0, 2}, out : {0, 1, 2}]
EventTypes ==
  {"message_start", "content_block_start", "content_block_delta", "content_block_stop",
   "assistant_text", "assistant_tool_use", "message_delta", "message_stop", "usage", "error"}
EventKinds == BlockKinds \cup {"none", "plain", "prompt_too_long"}
Event      == [type : EventTypes, kind : EventKinds, index : Nat, id : Nat, text : Nat,
               json : JSONs, usage : Usages]
Content    == [kind : BlockKinds, parts : Seq(Nat), id : Nat,
               input : {"none", "nil", "start", "{}"}]
Tools      == [id : Nat, input : {"nil", "start"}]
Parsers    ==
  [currentText : Seq(Nat), currentToolUse : Seq(Tools),
   currentToolInputJSON : JSONs \cup {"bad"}, currentThinking : Seq(Nat),
   currentRedacted : Nat, currentBlockType : BlockKinds \cup {"none"},
   currentUsage : Usages, content : Seq(Content), hasToolUse : BOOLEAN, out : Seq(Content)]

(* How many blocks have events, what has come of the input of block i, and *)
(* whether the last block is still open.                                   *)
Indices(es) == {e.index : e \in ToSet(es)} \ {0}
Count(es)   == Cardinality(Indices(es))
Read(es, i) == IF InputOf(es, i, "nil") = "{}" THEN "{}"
               ELSE IF "{" \in Pieces(es, i) THEN "{" ELSE ""
Opened(es)  == Count(es) > 0 /\ ~IsClosed(es, Count(es))

(* The events of an answer so far: its blocks are numbered, and those of   *)
(* Anthropic have one start, and an end before the next one starts.        *)
Formed(es) ==
  /\ es \in Seq(Event)
  /\ Count(es) \in Nat /\ Indices(es) = 1 .. Count(es)
  /\ \A i \in 1 .. Count(es) : "}" \in Pieces(es, i) => "{" \in Pieces(es, i)
Bracketed(es) ==
  /\ \A i \in 1 .. Count(es) :
       \E e \in EventsOf(es, i) : e.type = "content_block_start" /\ e.kind \in BlockKinds
  /\ \A d, e \in ToSet(es) :
       d.type = "content_block_start" /\ e.type = "content_block_start" /\ d.index = e.index
         => d = e
  /\ \A i \in 1 .. Count(es) : i # Count(es) => IsClosed(es, i)
Sound(es) == Formed(es) /\ (dialect = "anthropic" => Bracketed(es))

(* The events that may come next.                                          *)
Started(es) == \E e \in ToSet(es) : e.type = "message_start"
InNoBlock(es, e) ==
  /\ e.index = 0 /\ e.json = "" /\ (e.text # 0 <=> e.type = "assistant_text")
  /\ e.type \in {"assistant_text", "message_start", "message_delta", "message_stop", "usage",
                 "error"}
  /\ e.type = "assistant_text" => dialect # "anthropic"
  /\ e.type = "message_start" => es = <<>> /\ e.usage.in = 2 /\ e.usage.out # 2
  /\ e.type # "message_start" /\ e.usage # NoUsage =>
       e.usage.out = 2 /\ (e.usage.in = 2 \/ (dialect = "anthropic" /\ Started(es)))
  /\ e.type \in {"error", "assistant_text"} => e.usage = NoUsage
InBlock(es, e) ==
  LET n == Count(es) IN
  /\ dialect = "anthropic" /\ e.usage = NoUsage
  /\ \/ /\ e.type = "content_block_start" /\ ~Opened(es) /\ e.index = n + 1
        /\ e.kind \in BlockKinds /\ e.json = ""
        /\ e.kind = "tool_use" => e.id = e.index
        /\ e.text # 0 <=> e.kind = "redacted_thinking"
     \/ /\ e.type = "content_block_delta" /\ Opened(es) /\ e.index = n
        /\ e.kind = KindOf(es, n)
        /\ \/ e.kind \in {"text", "thinking"} /\ e.text # 0 /\ e.json = ""
           \/ e.kind \in {"tool_use", "other"} /\ e.text = 0 /\ e.json \in NextJSON(Read(es, n))
     \/ /\ e.type = "content_block_stop" /\ Opened(es) /\ e.index = n
        /\ e.text = 0 /\ e.json = ""
InCall(es, e) ==
  LET n == Count(es) IN
  /\ dialect # "anthropic" /\ e.type = "assistant_tool_use" /\ e.text = 0 /\ e.usage = NoUsage
  /\ \/ e.index = n + 1 /\ e.id = n + 1 /\ e.json \in {""} \cup NextJSON("")
     \/ /\ n > 0 /\ e.index = n /\ e.json \in NextJSON(Read(es, n))
        /\ dialect = "openai_ids" => e.id = n
Follows(es, e) == e \in Event /\ (InNoBlock(es, e) \/ InBlock(es, e) \/ InCall(es, e))

-----------------------------------------------------------------------------
(* What the parser p knows when it has seen the events es.                 *)

Reported(p) ==
  /\ Calls(p.out) = Calls(p.content)
  /\ TextOf(p.out) = TextOf(p.content) \o p.currentText
  /\ p.hasToolUse <=> Calls(p.content) # <<>>
Counted(es, p) ==
  /\ Started(es) => p.currentUsage.in = 2
  /\ \A e \in ToSet(es) : e.usage.out = 2 => p.currentUsage = [in |-> 2, out |-> 2]
TextRead(es, p) == TextOf(p.content) = <<>> /\ p.currentText = TextsOf(es, 0)
CallsRead(es, p) ==
  LET n == Count(es) IN
  IF n = 0 THEN p.currentToolUse = <<>> /\ Calls(p.content) = <<>>
  ELSE /\ p.currentToolUse = <<[id |-> n, input |-> "nil"]>>
       /\ p.currentToolInputJSON = Read(es, n)
       /\ Calls(p.content) = CallsOfAnswer(es, n - 1)
BlocksRead(es, p) ==
  LET n == Count(es)
      Under(kind) == Opened(es) /\ KindOf(es, n) = kind IN
  /\ p.content = BlocksOfAnswer(es, IF Opened(es) THEN n - 1 ELSE n)
  /\ p.currentBlockType = IF Opened(es) THEN KindOf(es, n) ELSE "none"
  /\ p.currentText = IF Under("text") THEN TextsOf(es, n) ELSE <<>>
  /\ p.currentToolUse =
       IF Under("tool_use") THEN <<[id |-> n, input |-> "start"]>> ELSE <<>>
  /\ Under("tool_use") => p.currentToolInputJSON = Read(es, n)
  /\ Under("thinking") => p.currentThinking = TextsOf(es, n)
  /\ Under("redacted_thinking") => <<p.currentRedacted>> = TextsOf(es, n)
Parsed(es, p) ==
  /\ p \in Parsers /\ Reported(p) /\ Counted(es, p)
  /\ dialect # "anthropic" => TextRead(es, p)
  /\ dialect = "openai_ids" => CallsRead(es, p)
  /\ dialect = "anthropic" => BlocksRead(es, p)

-----------------------------------------------------------------------------
(* The invariant: the events sent make sense, and the parser knows all of  *)
(* them but the one on the channel.                                        *)

Done == IF ch = <<>> THEN sent ELSE Front(sent)
OpenIs ==
  /\ dialect = "anthropic" => (open # NoBlock <=> Opened(sent))
  /\ open # NoBlock =>
       /\ Count(sent) > 0 /\ open.index = Count(sent)
       /\ open.json = Read(sent, Count(sent))
       /\ dialect = "anthropic" => open.kind = KindOf(sent, Count(sent))
AnswerInv ==
  /\ dialect \in {"anthropic", "openai", "openai_ids"}
  /\ open = NoBlock \/ open \in [kind : BlockKinds, index : Nat, json : JSONs]
  /\ answer \in {"none", "start"} => sent = <<>> /\ ch = <<>> /\ open = NoBlock
  /\ answer \in {"blocks", "tail"} /\ dialect = "anthropic" => Started(sent)
  /\ OpenIs
ChannelInv ==
  /\ Sound(sent)
  /\ ch # <<>> => /\ sent # <<>> /\ ch = <<Last(sent)>>
                  /\ Sound(Done) /\ Follows(Done, Last(sent))
ParserInv ==
  /\ outcome = "reading" => Parsed(Done, sp)
  /\ outcome = "message" => answer = "closed" /\ ch = <<>>
  /\ MessageFaithful
Inv == AnswerInv /\ ChannelInv /\ ParserInv

-----------------------------------------------------------------------------
(* Induction over the natural numbers up to n, as a fact about sets.       *)

LEMMA Least ==
  ASSUME NEW T, T \subseteq Nat, T # {}
  PROVE  \E x \in T : \A y \in T : x <= y
<1> DEFINE R == {ss \in Nat \X Nat : ss[1] < ss[2]}
<1>1. IsWellFoundedOn(R, Nat)
  BY NatLessThanWellFounded DEF OpToRel
<1>2. PICK x \in T : \A y \in T : ~ (<<y, x>> \in R)
  BY <1>1, WFMin
<1>3. ASSUME NEW y \in T PROVE x <= y
  <2>1. ~ (<<y, x>> \in R)
    BY <1>2
  <2> QED BY <2>1
<1> QED BY <1>3

LEMMA Induct ==
  ASSUME NEW n \in Nat, NEW T, 0 \in T, \A i \in 1 .. n : i - 1 \in T => i \in T
  PROVE  \A i \in 0 .. n : i \in T
<1> DEFINE Bad == {i \in 0 .. n : i \notin T}
<1>1. Bad \subseteq Nat
  OBVIOUS
<1>2. SUFFICES ASSUME Bad # {} PROVE FALSE
  OBVIOUS
<1>3. PICK i \in Bad : \A j \in Bad : i <= j
  <2> HIDE DEF Bad
  <2> QED BY <1>1, <1>2, Least
<1>4. i \in 1 .. n /\ i - 1 \in 0 .. n /\ i \notin T
  BY <1>3
<1>5. i - 1 \notin Bad
  BY <1>1, <1>3, <1>4
<1> QED BY <1>4, <1>5

(* A function defined by recursion over 0 .. n exists.                     *)
Recurs(f, n, b, G) == f[0] = b /\ \A i \in 1 .. n : f[i] = G[<<f[i - 1], i>>]

LEMMA Recursion ==
  ASSUME NEW S, NEW b \in S, NEW n \in Nat, NEW G \in [S \X (1 .. n) -> S]
  PROVE  \E f \in [0 .. n -> S] : Recurs(f, n, b, G)
<1> DEFINE T == {m \in 0 .. n : \E f \in [0 .. m -> S] : Recurs(f, m, b, G)}
<1>1. 0 \in T
  <2>1. 0 \in 0 .. n
    OBVIOUS
  <2>2. PICK f : f = [i \in 0 .. 0 |-> b]
    OBVIOUS
  <2>3. f \in [0 .. 0 -> S] /\ Recurs(f, 0, b, G)
    BY <2>2 DEF Recurs
  <2> QED BY <2>1, <2>3, Zenon
<1>2. ASSUME NEW m \in 1 .. n, m - 1 \in T
      PROVE  m \in T
  <2>1. PICK f \in [0 .. m - 1 -> S] : Recurs(f, m - 1, b, G)
    BY <1>2
  <2> DEFINE g == [i \in 0 .. m |-> IF i = m THEN G[<<f[m - 1], m>>] ELSE f[i]]
  <2>2. m - 1 \in 0 .. m - 1 /\ f[m - 1] \in S
    OBVIOUS
  <2>3. <<f[m - 1], m>> \in S \X (1 .. n)
    BY <2>2
  <2>4. g \in [0 .. m -> S]
    <3>1. ASSUME NEW i \in 0 .. m
          PROVE  (IF i = m THEN G[<<f[m - 1], m>>] ELSE f[i]) \in S
      <4>1. CASE i = m
        BY <2>3, <4>1
      <4>2. CASE i # m
        BY <4>2
      <4> QED BY <4>1, <4>2
    <3> QED BY <3>1
  <2>5. g[0] = b
    BY <2>1 DEF Recurs
  <2>6. ASSUME NEW i \in 1 .. m
        PROVE  g[i] = G[<<g[i - 1], i>>]
    <3>1. CASE i = m
      <4>1. g[m] = G[<<f[m - 1], m>>]
        OBVIOUS
      <4>2. g[m - 1] = f[m - 1]
        OBVIOUS
      <4> QED BY <3>1, <4>1, <4>2
    <3>2. CASE i # m
      <4>1. i \in 1 .. m - 1 /\ i - 1 \in 0 .. m - 1
        BY <3>2
      <4>2. g[i] = f[i] /\ g[i - 1] = f[i - 1]
        BY <4>1
      <4> QED BY <2>1, <4>1, <4>2 DEF Recurs
    <3> QED BY <3>1, <3>2
  <2> HIDE DEF g
  <2>7. Recurs(g, m, b, G)
    BY <2>5, <2>6 DEF Recurs
  <2> QED BY <2>4, <2>7
<1> HIDE DEF T
<1>3. n \in T
  BY <1>1, <1>2, Induct
<1> QED BY <1>3 DEF T
(* FlattenSeq, one sequence after the other.                               *)

FlattenedBy(f, F) ==
  f = [i \in 1 .. Len(F) |-> IF i = 1 THEN F[i] ELSE f[i - 1] \o F[i]]

LEMMA FlattenExists ==
  ASSUME NEW S, NEW F \in Seq(Seq(S))
  PROVE  \E f : FlattenedBy(f, F)
<1>1. PICK n \in Nat : n = Len(F)
  OBVIOUS
<1> DEFINE G == [p \in Seq(S) \X (1 .. n) |-> p[1] \o F[p[2]]]
<1>2. G \in [Seq(S) \X (1 .. n) -> Seq(S)]
  <2>1. ASSUME NEW p \in Seq(S) \X (1 .. n)
        PROVE  p[1] \o F[p[2]] \in Seq(S)
    <3>1. p[1] \in Seq(S) /\ F[p[2]] \in Seq(S)
      BY <1>1
    <3> QED BY <3>1, ConcatProperties
  <2> QED BY <2>1
<1>3. PICK f \in [0 .. n -> Seq(S)] :
        f[0] = <<>> /\ \A i \in 1 .. n : f[i] = G[<<f[i - 1], i>>]
  <2>1. PICK SS, b : SS = Seq(S) /\ b = <<>>
    OBVIOUS
  <2>2. b \in SS /\ G \in [SS \X (1 .. n) -> SS]
    BY <1>2, <2>1
  <2> HIDE DEF G
  <2>3. \E f \in [0 .. n -> SS] : Recurs(f, n, b, G)
    BY <2>2, Recursion
  <2> QED BY <2>1, <2>3 DEF Recurs
<1>4. ASSUME NEW i \in 1 .. n
      PROVE  f[i] = f[i - 1] \o F[i]
  <2>1. i - 1 \in 0 .. n /\ f[i - 1] \in Seq(S)
    OBVIOUS
  <2> QED BY <1>3, <2>1
<1> HIDE DEF G
<1>5. PICK g : g = [i \in 1 .. n |-> f[i]]
  OBVIOUS
<1>6. ASSUME NEW i \in 1 .. n
      PROVE  f[i] = IF i = 1 THEN F[i] ELSE g[i - 1] \o F[i]
  <2>1. CASE i = 1
    <3>1. F[i] \in Seq(S)
      BY <1>1
    <3>2. i - 1 = 0
      BY <2>1
    <3>3. f[i] = <<>> \o F[i]
      BY <1>3, <1>4, <3>2
    <3>4. f[i] = F[i]
      BY <3>1, <3>3, ConcatEmptySeq
    <3> QED BY <2>1, <3>4
  <2>2. CASE i # 1
    <3>1. i - 1 \in 1 .. n
      BY <2>2
    <3>2. g[i - 1] = f[i - 1]
      BY <1>5, <3>1
    <3> QED BY <1>4, <2>2, <3>2
  <2> QED BY <2>1, <2>2
<1>7. g = [i \in 1 .. n |-> IF i = 1 THEN F[i] ELSE g[i - 1] \o F[i]]
  BY <1>5, <1>6
<1> QED BY <1>1, <1>7 DEF FlattenedBy

LEMMA FlattenSteps ==
  ASSUME NEW S, NEW F \in Seq(Seq(S)), F # <<>>
  PROVE  \E g : /\ FlattenSeq(F) = g[Len(F)] /\ g[1] = F[1]
                /\ \A i \in 1 .. Len(F) : g[i] \in Seq(S)
                /\ \A i \in 2 .. Len(F) : g[i] = g[i - 1] \o F[i]
<1> DEFINE g == CHOOSE g : FlattenedBy(g, F)
<1>1. FlattenedBy(g, F)
  BY FlattenExists
<1>2. FlattenSeq(F) = g[Len(F)]
  BY DEF FlattenSeq, FlattenedBy
<1> HIDE DEF g
<1>3. PICK n \in Nat : n = Len(F) /\ n >= 1
  OBVIOUS
<1>4. \A i \in 1 .. n : g[i] = IF i = 1 THEN F[i] ELSE g[i - 1] \o F[i]
  BY <1>1, <1>3 DEF FlattenedBy
<1>5. g[1] = F[1] /\ \A i \in 2 .. n : g[i] = g[i - 1] \o F[i]
  <2>1. 1 \in 1 .. n /\ \A i \in 2 .. n : i \in 1 .. n /\ i # 1
    BY <1>3
  <2> QED BY <1>4, <2>1
<1> DEFINE T == {i \in 0 .. n : i > 0 => g[i] \in Seq(S)}
<1>6. 0 \in T
  OBVIOUS
<1>7. ASSUME NEW i \in 1 .. n, i - 1 \in T
      PROVE  i \in T
  <2>1. F[i] \in Seq(S)
    BY <1>3
  <2>2. CASE i = 1
    BY <1>5, <2>1, <2>2
  <2>3. CASE i # 1
    <3>1. i \in 2 .. n /\ i - 1 > 0
      BY <2>3
    <3>2. g[i - 1] \in Seq(S)
      BY <1>7, <3>1
    <3>3. g[i - 1] \o F[i] \in Seq(S)
      BY <2>1, <3>2, ConcatProperties
    <3>4. g[i] = g[i - 1] \o F[i]
      BY <1>5, <3>1, Zenon
    <3>5. g[i] \in Seq(S)
      BY <3>3, <3>4, Zenon
    <3> QED BY <3>5
  <2> QED BY <2>2, <2>3
<1> HIDE DEF T
<1>8. \A i \in 0 .. n : i \in T
  <2>1. \A i \in 1 .. n : i - 1 \in T => i \in T
    BY <1>7
  <2> QED BY <1>6, <2>1, Induct
<1>9. \A i \in 1 .. n : g[i] \in Seq(S)
  <2>1. ASSUME NEW i \in 1 .. n PROVE g[i] \in Seq(S)
    <3>1. i \in 0 .. n /\ i > 0
      OBVIOUS
    <3> QED BY <1>8, <3>1 DEF T
  <2> QED BY <2>1
<1> QED BY <1>2, <1>3, <1>5, <1>9

LEMMA FlattenTyped ==
  ASSUME NEW S, NEW F \in Seq(Seq(S))
  PROVE  FlattenSeq(F) \in Seq(S)
<1>1. CASE F = <<>>
  <2>1. FlattenSeq(F) = <<>>
    BY <1>1 DEF FlattenSeq
  <2> QED BY <2>1
<1>2. CASE F # <<>>
  <2>1. Len(F) \in 1 .. Len(F)
    BY <1>2
  <2> QED BY <1>2, <2>1, FlattenSteps
<1> QED BY <1>1, <1>2

LEMMA FlattenAppend ==
  ASSUME NEW S, NEW F \in Seq(Seq(S)), NEW s \in Seq(S)
  PROVE  FlattenSeq(Append(F, s)) = FlattenSeq(F) \o s
<1>0. PICK n \in Nat : n = Len(F)
  OBVIOUS
<1>1. PICK H : n = Len(F) /\ H = Append(F, s)
  BY <1>0
<1>2. /\ H \in Seq(Seq(S)) /\ H # <<>> /\ Len(H) = n + 1 /\ H[n + 1] = s
      /\ \A i \in 1 .. n : H[i] = F[i]
  BY <1>1, AppendProperties
<1>3. PICK h : /\ FlattenSeq(H) = h[n + 1] /\ h[1] = H[1]
               /\ \A i \in 1 .. n + 1 : h[i] \in Seq(S)
               /\ \A i \in 2 .. n + 1 : h[i] = h[i - 1] \o H[i]
  <2>1. PICK h : /\ FlattenSeq(H) = h[Len(H)] /\ h[1] = H[1]
                 /\ \A i \in 1 .. Len(H) : h[i] \in Seq(S)
                 /\ \A i \in 2 .. Len(H) : h[i] = h[i - 1] \o H[i]
    BY <1>2, FlattenSteps
  <2> QED BY <1>2, <2>1
<1>4. CASE n = 0
  <2>1. F = <<>>
    BY <1>0, <1>4, EmptySeq
  <2>2. FlattenSeq(F) = <<>>
    BY <2>1 DEF FlattenSeq
  <2>3. FlattenSeq(H) = s
    BY <1>2, <1>3, <1>4
  <2> QED BY <1>1, <2>2, <2>3, ConcatEmptySeq
<1>5. CASE n > 0
  <2>1. F # <<>>
    BY <1>1, <1>5
  <2>2. PICK f : /\ FlattenSeq(F) = f[n] /\ f[1] = F[1]
                 /\ \A i \in 1 .. n : f[i] \in Seq(S)
                 /\ \A i \in 2 .. n : f[i] = f[i - 1] \o F[i]
    <3>1. PICK f : /\ FlattenSeq(F) = f[Len(F)] /\ f[1] = F[1]
                   /\ \A i \in 1 .. Len(F) : f[i] \in Seq(S)
                   /\ \A i \in 2 .. Len(F) : f[i] = f[i - 1] \o F[i]
      BY <2>1, FlattenSteps
    <3> QED BY <1>1, <3>1
  <2> DEFINE T == {i \in 0 .. n : i > 0 => h[i] = f[i]}
  <2>3. 0 \in T
    OBVIOUS
  <2>4. ASSUME NEW i \in 1 .. n, i - 1 \in T
        PROVE  i \in T
    <3>1. H[i] = F[i]
      BY <1>2
    <3>2. CASE i = 1
      BY <1>3, <2>2, <3>1, <3>2
    <3>3. CASE i # 1
      <4>1. i \in 2 .. n /\ i \in 2 .. n + 1 /\ i - 1 > 0
        BY <3>3
      <4>2. h[i - 1] = f[i - 1]
        BY <2>4, <4>1
      <4>3. h[i] = h[i - 1] \o H[i] /\ f[i] = f[i - 1] \o F[i]
        BY <1>3, <2>2, <4>1, Zenon
      <4>4. h[i] = f[i]
        BY <3>1, <4>2, <4>3, Zenon
      <4> QED BY <4>4
    <3> QED BY <3>2, <3>3
  <2> HIDE DEF T
  <2>5. n \in T
    <3>1. \A i \in 1 .. n : i - 1 \in T => i \in T
      BY <2>4
    <3>2. \A i \in 0 .. n : i \in T
      BY <2>3, <3>1, Induct
    <3> QED BY <3>2
  <2>6. h[n] = f[n]
    BY <1>5, <2>5 DEF T
  <2>7. n + 1 \in 2 .. n + 1 /\ (n + 1) - 1 = n
    BY <1>5
  <2>8. h[n + 1] = h[n] \o s
    BY <1>2, <1>3, <2>7
  <2> QED BY <1>1, <1>3, <2>2, <2>6, <2>8
<1> QED BY <1>4, <1>5

LEMMA Extended ==
  ASSUME NEW S, NEW n \in Nat, NEW M \in [1 .. n -> Seq(S)], NEW N \in [1 .. n + 1 -> Seq(S)],
         \A i \in 1 .. n : N[i] = M[i]
  PROVE  /\ FlattenSeq(M) \in Seq(S) /\ FlattenSeq(N) \in Seq(S)
         /\ FlattenSeq(N) = FlattenSeq(M) \o N[n + 1]
<1>1. PICK SS : SS = Seq(S)
  OBVIOUS
<1>2. M \in Seq(SS) /\ Len(M) = n /\ N \in Seq(SS) /\ Len(N) = n + 1
  BY <1>1, IsASeq
<1>3. PICK x \in SS : x = N[n + 1]
  BY <1>1
<1>4. N = Append(M, x)
  <2>1. /\ Append(M, x) \in Seq(SS) /\ Len(Append(M, x)) = n + 1 /\ Append(M, x)[n + 1] = x
        /\ \A i \in 1 .. n : Append(M, x)[i] = M[i]
    BY <1>2, AppendProperties
  <2>2. \A i \in 1 .. n + 1 : N[i] = Append(M, x)[i]
    BY <1>3, <2>1
  <2> QED BY <1>2, <2>1, <2>2, SeqEqual
<1>5. FlattenSeq(N) = FlattenSeq(M) \o x
  BY <1>1, <1>2, <1>4, FlattenAppend
<1> QED BY <1>1, <1>2, <1>3, <1>5, FlattenTyped

LEMMA FlattenEmpty == FlattenSeq(<<>>) = <<>>
BY DEF FlattenSeq

(* The texts of a block, the calls and the texts of a message, when one    *)
(* event or one block is added.                                            *)
LEMMA TextsEmpty == \A i : TextsOf(<<>>, i) = <<>>
<1>1. ASSUME NEW i PROVE TextsOf(<<>>, i) = <<>>
  <2>1. [n \in DOMAIN <<>> |-> IF <<>>[n].index = i /\ <<>>[n].text # 0
                               THEN <<(<<>>[n]).text>> ELSE <<>>] = <<>>
    OBVIOUS
  <2> QED BY <2>1, FlattenEmpty DEF TextsOf
<1> QED BY <1>1

TextOfEvent(e, i) == IF e.index = i /\ e.text # 0 THEN <<e.text>> ELSE <<>>

LEMMA TextsAppend ==
  ASSUME NEW es \in Seq(Event), NEW e \in Event, NEW i
  PROVE  /\ TextsOf(es, i) \in Seq(Nat)
         /\ TextsOf(Append(es, e), i) = TextsOf(es, i) \o TextOfEvent(e, i)
<1>1. PICK n \in Nat : n = Len(es)
  OBVIOUS
<1>2. PICK fs, S : fs = Append(es, e) /\ S = Nat
  OBVIOUS
<1>3. /\ DOMAIN es = 1 .. n /\ DOMAIN fs = 1 .. n + 1 /\ fs[n + 1] = e
      /\ \A k \in 1 .. n : fs[k] = es[k] /\ es[k] \in Event
  BY <1>1, <1>2, AppendProperties
<1>4. \A d \in Event : TextOfEvent(d, i) \in Seq(S)
  <2>1. \A d \in Event : d.text \in S
    BY <1>2 DEF Event
  <2> QED BY <2>1 DEF TextOfEvent
<1>5. PICK M, N : /\ M = [k \in 1 .. n |-> TextOfEvent(es[k], i)]
                  /\ N = [k \in 1 .. n + 1 |-> TextOfEvent(fs[k], i)]
  OBVIOUS
<1>6. TextsOf(es, i) = FlattenSeq(M) /\ TextsOf(fs, i) = FlattenSeq(N)
  BY <1>3, <1>5 DEF TextsOf, TextOfEvent
<1>7. \A k \in 1 .. n + 1 : fs[k] \in Event
  BY <1>3
<1>8. M \in [1 .. n -> Seq(S)] /\ N \in [1 .. n + 1 -> Seq(S)]
  BY <1>3, <1>4, <1>5, <1>7
<1>9. N[n + 1] = TextOfEvent(e, i) /\ \A k \in 1 .. n : N[k] = M[k]
  BY <1>3, <1>5
<1>10. FlattenSeq(M) \in Seq(S) /\ FlattenSeq(N) = FlattenSeq(M) \o N[n + 1]
  BY <1>8, <1>9, Extended
<1> QED BY <1>2, <1>6, <1>9, <1>10

CallOf(b)      == IF b.kind = "tool_use" THEN <<b>> ELSE <<>>
TextOfBlock(b) == IF b.kind = "text" THEN b.parts ELSE <<>>

LEMMA ContentEmpty == Calls(<<>>) = <<>> /\ TextOf(<<>>) = <<>>
<1>1. PICK c : c = <<>>
  OBVIOUS
<1>2. DOMAIN c = {}
  BY <1>1
<1>3. [j \in DOMAIN c |-> IF c[j].kind = "tool_use" THEN <<c[j]>> ELSE <<>>] = <<>>
  BY <1>2
<1>4. [j \in DOMAIN c |-> IF c[j].kind = "text" THEN c[j].parts ELSE <<>>] = <<>>
  BY <1>2
<1> QED BY <1>1, <1>3, <1>4, FlattenEmpty DEF Calls, TextOf

LEMMA CallsAppend ==
  ASSUME NEW c \in Seq(Content), NEW b \in Content
  PROVE  /\ Calls(c) \in Seq(Content)
         /\ Calls(Append(c, b)) = Calls(c) \o CallOf(b)
<1>1. PICK n \in Nat : n = Len(c)
  OBVIOUS
<1>2. PICK d, K : d = Append(c, b) /\ K = Content
  OBVIOUS
<1>3. /\ DOMAIN c = 1 .. n /\ DOMAIN d = 1 .. n + 1 /\ d[n + 1] = b
      /\ \A k \in 1 .. n : d[k] = c[k] /\ c[k] \in K
  BY <1>1, <1>2, AppendProperties
<1>4. \A x \in K : CallOf(x) \in Seq(K)
  BY DEF CallOf
<1>5. PICK M, N : /\ M = [k \in 1 .. n |-> CallOf(c[k])]
                  /\ N = [k \in 1 .. n + 1 |-> CallOf(d[k])]
  OBVIOUS
<1>6. Calls(c) = FlattenSeq(M) /\ Calls(d) = FlattenSeq(N)
  BY <1>3, <1>5 DEF Calls, CallOf
<1>7. \A k \in 1 .. n + 1 : d[k] \in K
  BY <1>2, <1>3
<1>8. M \in [1 .. n -> Seq(K)] /\ N \in [1 .. n + 1 -> Seq(K)]
  BY <1>3, <1>4, <1>5, <1>7
<1>9. N[n + 1] = CallOf(b) /\ \A k \in 1 .. n : N[k] = M[k]
  BY <1>3, <1>5
<1>10. FlattenSeq(M) \in Seq(K) /\ FlattenSeq(N) = FlattenSeq(M) \o N[n + 1]
  BY <1>8, <1>9, Extended
<1> QED BY <1>2, <1>6, <1>9, <1>10

LEMMA TextAppend ==
  ASSUME NEW c \in Seq(Content), NEW b \in Content
  PROVE  /\ TextOf(c) \in Seq(Nat)
         /\ TextOf(Append(c, b)) = TextOf(c) \o TextOfBlock(b)
<1>1. PICK n \in Nat : n = Len(c)
  OBVIOUS
<1>2. PICK d, S : d = Append(c, b) /\ S = Nat
  OBVIOUS
<1>3. /\ DOMAIN c = 1 .. n /\ DOMAIN d = 1 .. n + 1 /\ d[n + 1] = b
      /\ \A k \in 1 .. n : d[k] = c[k] /\ c[k] \in Content
  BY <1>1, <1>2, AppendProperties
<1>4. \A x \in Content : TextOfBlock(x) \in Seq(S)
  <2>1. \A x \in Content : x.parts \in Seq(S)
    BY <1>2 DEF Content
  <2> QED BY <2>1 DEF TextOfBlock
<1>5. PICK M, N : /\ M = [k \in 1 .. n |-> TextOfBlock(c[k])]
                  /\ N = [k \in 1 .. n + 1 |-> TextOfBlock(d[k])]
  OBVIOUS
<1>6. TextOf(c) = FlattenSeq(M) /\ TextOf(d) = FlattenSeq(N)
  BY <1>3, <1>5 DEF TextOf, TextOfBlock
<1>7. \A k \in 1 .. n + 1 : d[k] \in Content
  BY <1>3
<1>8. M \in [1 .. n -> Seq(S)] /\ N \in [1 .. n + 1 -> Seq(S)]
  BY <1>3, <1>4, <1>5, <1>7
<1>9. N[n + 1] = TextOfBlock(b) /\ \A k \in 1 .. n : N[k] = M[k]
  BY <1>3, <1>5
<1>10. FlattenSeq(M) \in Seq(S) /\ FlattenSeq(N) = FlattenSeq(M) \o N[n + 1]
  BY <1>8, <1>9, Extended
<1> QED BY <1>2, <1>6, <1>9, <1>10

LEMMA TextTyped ==
  ASSUME NEW c \in Seq(Content)
  PROVE  TextOf(c) \in Seq(Nat)
<1>1. PICK b : b = Block("text", <<>>, 0, "none")
  OBVIOUS
<1>2. b \in Content
  <2>1. <<>> \in Seq(Nat) /\ "text" \in BlockKinds
    BY DEF BlockKinds
  <2> QED BY <1>1, <2>1 DEF Block, Content
<1> QED BY <1>2, TextAppend

(* The blocks that a message keeps, one more at a time.                    *)
BlockKept(es, i) == IF Keeps(es, i) THEN <<AnswerBlock(es, i)>> ELSE <<>>

LEMMA BlocksNone == \A es : BlocksOfAnswer(es, 0) = <<>>
<1>1. ASSUME NEW es PROVE BlocksOfAnswer(es, 0) = <<>>
  <2>1. [i \in 1 .. 0 |-> IF Keeps(es, i) THEN <<AnswerBlock(es, i)>> ELSE <<>>] = <<>>
    OBVIOUS
  <2> QED BY <2>1, FlattenEmpty DEF BlocksOfAnswer
<1> QED BY <1>1

LEMMA BlocksStep ==
  ASSUME NEW es, NEW n \in Nat
  PROVE  BlocksOfAnswer(es, n + 1) = BlocksOfAnswer(es, n) \o BlockKept(es, n + 1)
<1>1. PICK S : S = {AnswerBlock(es, i) : i \in 1 .. n + 1}
  OBVIOUS
<1>2. \A i \in 1 .. n + 1 : BlockKept(es, i) \in Seq(S)
  <2>1. ASSUME NEW i \in 1 .. n + 1 PROVE BlockKept(es, i) \in Seq(S)
    <3>1. PICK b \in S : b = AnswerBlock(es, i)
      BY <1>1
    <3>2. <<b>> \in Seq(S) /\ <<>> \in Seq(S)
      OBVIOUS
    <3> QED BY <3>1, <3>2 DEF BlockKept
  <2> QED BY <2>1
<1>3. PICK M, N : /\ M = [i \in 1 .. n |-> BlockKept(es, i)]
                  /\ N = [i \in 1 .. n + 1 |-> BlockKept(es, i)]
  OBVIOUS
<1>4. M \in [1 .. n -> Seq(S)] /\ N \in [1 .. n + 1 -> Seq(S)]
  BY <1>2, <1>3
<1>5. N[n + 1] = BlockKept(es, n + 1) /\ \A i \in 1 .. n : N[i] = M[i]
  BY <1>3
<1>6. FlattenSeq(N) = FlattenSeq(M) \o N[n + 1]
  BY <1>4, <1>5, Extended
<1> QED BY <1>3, <1>5, <1>6 DEF BlocksOfAnswer, BlockKept

LEMMA BlocksSame ==
  ASSUME NEW es, NEW fs, NEW n \in Nat, \A i \in 1 .. n : BlockKept(es, i) = BlockKept(fs, i)
  PROVE  BlocksOfAnswer(es, n) = BlocksOfAnswer(fs, n)
BY DEF BlocksOfAnswer, BlockKept

LEMMA FlattenNothing ==
  ASSUME NEW n \in Nat
  PROVE  FlattenSeq([k \in 1 .. n |-> <<>>]) = <<>>
<1> DEFINE T == {m \in 0 .. n : FlattenSeq([k \in 1 .. m |-> <<>>]) = <<>>}
<1>1. 0 \in T
  <2>1. [k \in 1 .. 0 |-> <<>>] = <<>>
    OBVIOUS
  <2> QED BY <2>1, FlattenEmpty
<1>2. ASSUME NEW m \in 1 .. n, m - 1 \in T
      PROVE  m \in T
  <2>1. PICK S : S = Nat
    OBVIOUS
  <2>2. PICK l \in Nat : l = m - 1 /\ m = l + 1
    OBVIOUS
  <2>3. PICK M, N : M = [k \in 1 .. l |-> <<>>] /\ N = [k \in 1 .. l + 1 |-> <<>>]
    OBVIOUS
  <2>4. /\ M \in [1 .. l -> Seq(S)] /\ N \in [1 .. l + 1 -> Seq(S)] /\ N[l + 1] = <<>>
        /\ \A i \in 1 .. l : N[i] = M[i]
    BY <2>3
  <2>5. FlattenSeq(N) = FlattenSeq(M) \o <<>>
    BY <2>4, Extended
  <2>6. FlattenSeq(M) = <<>>
    BY <1>2, <2>2, <2>3
  <2>7. FlattenSeq(N) = <<>>
    BY <2>5, <2>6
  <2> QED BY <2>2, <2>3, <2>7
<1> HIDE DEF T
<1>3. n \in T
  <2>1. \A m \in 1 .. n : m - 1 \in T => m \in T
    BY <1>2
  <2>2. n \in 0 .. n
    OBVIOUS
  <2> QED BY <1>1, <2>1, <2>2, Induct
<1> QED BY <1>3 DEF T

-----------------------------------------------------------------------------
(* The events so far and one more.                                         *)

LEMMA SetAppend ==
  ASSUME NEW es \in Seq(Event), NEW e \in Event, NEW fs, fs = Append(es, e)
  PROVE  /\ fs \in Seq(Event) /\ ToSet(fs) = ToSet(es) \cup {e} /\ ToSet(es) \subseteq Event
         /\ Indices(fs) = Indices(es) \cup ({e.index} \ {0})
<1>1. PICK n \in Nat : n = Len(es)
  OBVIOUS
<1>2. /\ fs \in Seq(Event) /\ DOMAIN es = 1 .. n /\ DOMAIN fs = 1 .. n + 1 /\ fs[n + 1] = e
      /\ \A k \in 1 .. n : fs[k] = es[k] /\ es[k] \in Event
  BY <1>1, AppendProperties
<1>3. ToSet(fs) = ToSet(es) \cup {e}
  <2>1. \A k \in 1 .. n + 1 : k = n + 1 \/ k \in 1 .. n
    OBVIOUS
  <2>2. n + 1 \in 1 .. n + 1 /\ \A k \in 1 .. n : k \in 1 .. n + 1
    OBVIOUS
  <2> QED BY <1>2, <2>1, <2>2 DEF ToSet
<1>4. ToSet(es) \subseteq Event
  BY <1>2 DEF ToSet
<1> QED BY <1>2, <1>3, <1>4 DEF Indices

LEMMA EventsAppend ==
  ASSUME NEW es \in Seq(Event), NEW e \in Event, NEW i, NEW fs, fs = Append(es, e),
         e.index = i
  PROVE  EventsOf(fs, i) = EventsOf(es, i) \cup {e}
<1>1. ToSet(fs) = ToSet(es) \cup {e}
  BY SetAppend
<1> QED BY <1>1 DEF EventsOf

LEMMA CountIs ==
  ASSUME NEW es, NEW n \in Nat, Indices(es) = 1 .. n
  PROVE  Count(es) = n
<1>1. Cardinality(1 .. n) = n
  BY FS_Interval
<1> QED BY <1>1 DEF Count

LEMMA CountAppend ==
  ASSUME NEW es, Formed(es), NEW e \in Event, NEW fs, fs = Append(es, e),
         e.index \in 0 .. Count(es) + 1
  PROVE  /\ Count(fs) = IF e.index = Count(es) + 1 THEN Count(es) + 1 ELSE Count(es)
         /\ Count(fs) \in Nat /\ Indices(fs) = 1 .. Count(fs)
<1>1. PICK n \in Nat : n = Count(es) /\ Indices(es) = 1 .. n
  BY DEF Formed
<1>2. Indices(fs) = 1 .. n \cup ({e.index} \ {0})
  <2>1. es \in Seq(Event)
    BY DEF Formed
  <2>2. Indices(fs) = Indices(es) \cup ({e.index} \ {0})
    BY <2>1, SetAppend
  <2> QED BY <1>1, <2>2
<1>3. CASE e.index = n + 1
  <2>1. Indices(fs) = 1 .. n + 1
    BY <1>2, <1>3
  <2> QED BY <1>1, <1>3, <2>1, CountIs
<1>4. CASE e.index # n + 1
  <2>1. Indices(fs) = 1 .. n
    BY <1>1, <1>2, <1>4
  <2> QED BY <1>1, <1>4, <2>1, CountIs
<1> QED BY <1>3, <1>4

(* Nothing changes in the blocks that the event is not about.              *)
SameBlock(es, fs, i) ==
  /\ EventsOf(fs, i) = EventsOf(es, i)
  /\ KindOf(fs, i) = KindOf(es, i) /\ TextsOf(fs, i) = TextsOf(es, i)
  /\ Pieces(fs, i) = Pieces(es, i) /\ Read(fs, i) = Read(es, i)
  /\ IsClosed(fs, i) <=> IsClosed(es, i)
  /\ \A start : InputOf(fs, i, start) = InputOf(es, i, start)
  /\ BlockKept(fs, i) = BlockKept(es, i)

LEMMA Elsewhere ==
  ASSUME NEW es \in Seq(Event), NEW e \in Event, NEW i, NEW fs, fs = Append(es, e),
         e.index # i
  PROVE  SameBlock(es, fs, i)
<1>1. EventsOf(fs, i) = EventsOf(es, i)
  <2>1. ToSet(fs) = ToSet(es) \cup {e}
    BY SetAppend
  <2> QED BY <2>1 DEF EventsOf
<1>2. TextsOf(fs, i) = TextsOf(es, i)
  <2>1. TextsOf(fs, i) = TextsOf(es, i) \o <<>> /\ TextsOf(es, i) \in Seq(Nat)
    BY TextsAppend DEF TextOfEvent
  <2> QED BY <2>1, ConcatEmptySeq
<1>3. KindOf(fs, i) = KindOf(es, i) /\ Pieces(fs, i) = Pieces(es, i)
  BY <1>1 DEF KindOf, Pieces
<1>4. IsClosed(fs, i) <=> IsClosed(es, i)
  BY <1>1 DEF IsClosed
<1>5. \A start : InputOf(fs, i, start) = InputOf(es, i, start)
  BY <1>3 DEF InputOf
<1>6. Read(fs, i) = Read(es, i)
  BY <1>3, <1>5 DEF Read
<1>7. AnswerBlock(fs, i) = AnswerBlock(es, i)
  BY <1>2, <1>3, <1>5 DEF AnswerBlock
<1>8. Keeps(fs, i) <=> Keeps(es, i)
  BY <1>2, <1>3, <1>4 DEF Keeps
<1> QED BY <1>1, <1>2, <1>3, <1>4, <1>5, <1>6, <1>7, <1>8 DEF SameBlock, BlockKept

(* The input of a block, with one more piece.                              *)
LEMMA PiecesTyped ==
  ASSUME NEW es \in Seq(Event), NEW i
  PROVE  Pieces(es, i) \subseteq JSONs /\ Read(es, i) \in {"", "{", "{}"}
<1>1. \A d \in ToSet(es) : d \in Event
  BY DEF ToSet
<1>2. \A d \in Event : d.json \in JSONs
  BY DEF Event
<1> QED BY <1>1, <1>2 DEF Pieces, EventsOf, Read

LEMMA ReadAppend ==
  ASSUME NEW es \in Seq(Event), NEW e \in Event, NEW i, NEW fs, fs = Append(es, e),
         e.index = i, "}" \in Pieces(es, i) => "{" \in Pieces(es, i),
         e.json \in {""} \cup NextJSON(Read(es, i))
  PROVE  /\ Pieces(fs, i) = Pieces(es, i) \cup {e.json}
         /\ Read(fs, i) = Joined(Read(es, i), e.json)
         /\ "}" \in Pieces(fs, i) => "{" \in Pieces(fs, i)
<1>1. EventsOf(fs, i) = EventsOf(es, i) \cup {e}
  BY EventsAppend
<1>2. Pieces(fs, i) = Pieces(es, i) \cup {e.json}
  BY <1>1 DEF Pieces
<1>3. PICK P, j : P = Pieces(es, i) /\ j = e.json
  OBVIOUS
<1>4. Read(es, i) = IF "{}" \in P \/ {"{", "}"} \subseteq P THEN "{}"
                    ELSE IF "{" \in P THEN "{" ELSE ""
  BY <1>3 DEF Read, InputOf
<1>5. Read(fs, i) = IF "{}" \in P \cup {j} \/ {"{", "}"} \subseteq P \cup {j} THEN "{}"
                    ELSE IF "{" \in P \cup {j} THEN "{" ELSE ""
  BY <1>2, <1>3 DEF Read, InputOf
<1>6. CASE Read(es, i) = ""
  <2>1. "{}" \notin P /\ "{" \notin P /\ "}" \notin P /\ j \in {"", "{", "{}"}
    BY <1>3, <1>4, <1>6 DEF NextJSON
  <2> QED BY <1>2, <1>3, <1>5, <1>6, <2>1 DEF Joined
<1>7. CASE Read(es, i) = "{"
  <2>1. "{}" \notin P /\ "{" \in P /\ "}" \notin P /\ j \in {"", "}"}
    BY <1>3, <1>4, <1>7 DEF NextJSON
  <2> QED BY <1>2, <1>3, <1>5, <1>7, <2>1 DEF Joined
<1>8. CASE Read(es, i) = "{}"
  <2>1. j = "" /\ ("{}" \in P \/ {"{", "}"} \subseteq P)
    BY <1>3, <1>4, <1>8 DEF NextJSON
  <2> QED BY <1>2, <1>3, <1>5, <1>8, <2>1 DEF Joined
<1> QED BY <1>6, <1>7, <1>8, PiecesTyped

LEMMA NoPieces ==
  ASSUME NEW es, Formed(es), NEW i \in Nat, i > Count(es)
  PROVE  /\ EventsOf(es, i) = {} /\ Pieces(es, i) = {} /\ Read(es, i) = ""
         /\ TextsOf(es, i) = <<>> /\ ~IsClosed(es, i)
<1>0. PICK l \in Nat : l = Count(es) /\ Indices(es) = 1 .. l /\ es \in Seq(Event)
  BY DEF Formed
<1>1. i \notin Indices(es) /\ i # 0
  BY <1>0
<1>2. EventsOf(es, i) = {}
  BY <1>1 DEF Indices, EventsOf
<1>3. Pieces(es, i) = {} /\ ~IsClosed(es, i)
  BY <1>2 DEF Pieces, IsClosed
<1>4. Read(es, i) = ""
  BY <1>3 DEF Read, InputOf
<1>5. TextsOf(es, i) = <<>>
  <2>1. PICK n \in Nat : n = Len(es) /\ DOMAIN es = 1 .. n
    BY <1>0
  <2>2. \A k \in 1 .. n : es[k].index # i
    <3>1. ASSUME NEW k \in 1 .. n, es[k].index = i PROVE FALSE
      <4>1. es[k] \in EventsOf(es, i)
        BY <2>1, <3>1 DEF EventsOf, ToSet
      <4> QED BY <1>2, <4>1
    <3> QED BY <3>1
  <2>3. TextsOf(es, i) = FlattenSeq([k \in 1 .. n |-> <<>>])
    BY <2>1, <2>2 DEF TextsOf
  <2> QED BY <2>1, <2>3, FlattenNothing
<1> QED BY <1>2, <1>3, <1>4, <1>5

(* An input is complete when all of it was read, and calls are listed one  *)
(* by one.                                                                 *)
LEMMA InputRead ==
  ASSUME NEW es, NEW i, NEW start
  PROVE  InputOf(es, i, start) = IF Read(es, i) = "{}" THEN "{}" ELSE start
BY DEF InputOf, Read

LEMMA CallsStep ==
  ASSUME NEW es, NEW n \in Nat, n # 0
  PROVE  CallsOfAnswer(es, n) =
           Append(CallsOfAnswer(es, n - 1), Block("tool_use", <<>>, n, InputOf(es, n, "nil")))
<1>1. PICK F : F = [i \in 1 .. n |-> Block("tool_use", <<>>, i, InputOf(es, i, "nil"))]
  OBVIOUS
<1>2. PICK S : S = {F[i] : i \in 1 .. n}
  OBVIOUS
<1>3. n - 1 \in Nat /\ n \in 1 .. n /\ \A i \in 1 .. n : F[i] \in S
  BY <1>2
<1>4. PICK s : s = [i \in 1 .. n - 1 |-> F[i]]
  OBVIOUS
<1>5. s \in Seq(S) /\ Len(s) = n - 1
  BY <1>3, <1>4, IsASeq
<1>6. F \in Seq(S) /\ Len(F) = n
  <2>1. F \in [1 .. n -> S]
    BY <1>1, <1>3
  <2> QED BY <2>1, IsASeq
<1>7. F = Append(s, F[n])
  <2>1. /\ Append(s, F[n]) \in Seq(S) /\ Len(Append(s, F[n])) = n
        /\ Append(s, F[n])[n] = F[n]
        /\ \A i \in 1 .. n - 1 : Append(s, F[n])[i] = s[i]
    BY <1>3, <1>5, AppendProperties
  <2>2. \A i \in 1 .. n : F[i] = Append(s, F[n])[i]
    BY <1>4, <2>1
  <2> QED BY <1>6, <2>1, <2>2, SeqEqual
<1>8. CallsOfAnswer(es, n) = F
  BY <1>1 DEF CallsOfAnswer
<1>9. CallsOfAnswer(es, n - 1) = s
  BY <1>1, <1>4 DEF CallsOfAnswer
<1>10. F[n] = Block("tool_use", <<>>, n, InputOf(es, n, "nil"))
  BY <1>1, <1>3
<1> QED BY <1>7, <1>8, <1>9, <1>10

(* An event that may follow keeps the answer in form.                      *)
LEMMA FollowsWhere ==
  ASSUME NEW es, Formed(es), NEW e, Follows(es, e)
  PROVE  /\ e \in Event /\ es \in Seq(Event) /\ Count(es) \in Nat
         /\ e.index \in 0 .. Count(es) + 1 /\ e.json \in JSONs
         /\ e.index # 0 => e.json \in {""} \cup NextJSON(Read(es, e.index))
<1>1. e \in Event /\ es \in Seq(Event)
  BY DEF Follows, Formed
<1>2. PICK n \in Nat : n = Count(es)
  BY DEF Formed
<1>3. Read(es, n + 1) = ""
  <2>1. n + 1 \in Nat /\ n + 1 > Count(es)
    BY <1>2
  <2> QED BY <2>1, NoPieces
<1>0. e.json \in JSONs /\ 0 \in 0 .. n + 1 /\ n \in 0 .. n + 1 /\ n + 1 \in 0 .. n + 1
  BY <1>1 DEF Event
<1>4. CASE InNoBlock(es, e)
  <2>1. e.index = 0
    BY <1>4 DEF InNoBlock
  <2> QED BY <1>0, <1>1, <1>2, <2>1
<1>5. CASE InBlock(es, e)
  <2>1. e.index \in {n, n + 1}
    BY <1>2, <1>5 DEF InBlock
  <2>2. e.json = "" \/ (e.index = n /\ e.json \in NextJSON(Read(es, n)))
    BY <1>2, <1>5 DEF InBlock
  <2> QED BY <1>0, <1>1, <1>2, <2>1, <2>2
<1>6. CASE InCall(es, e)
  <2>1. \/ e.index = n + 1 /\ e.json \in {""} \cup NextJSON("")
        \/ e.index = n /\ e.json \in NextJSON(Read(es, n))
    BY <1>2, <1>6 DEF InCall
  <2> QED BY <1>0, <1>1, <1>2, <1>3, <2>1
<1> QED BY <1>4, <1>5, <1>6 DEF Follows

LEMMA FormedAppend ==
  ASSUME NEW es, Formed(es), NEW e, Follows(es, e), NEW fs, fs = Append(es, e)
  PROVE  Formed(fs)
<1>1. PICK n \in Nat : n = Count(es)
  BY DEF Formed
<1>2. /\ e \in Event /\ es \in Seq(Event) /\ e.index \in 0 .. n + 1
      /\ e.index # 0 => e.json \in {""} \cup NextJSON(Read(es, e.index))
  BY <1>1, FollowsWhere
<1>3. /\ Count(fs) = IF e.index = n + 1 THEN n + 1 ELSE n
      /\ Count(fs) \in Nat /\ Indices(fs) = 1 .. Count(fs)
  BY <1>1, <1>2, CountAppend
<1>4. fs \in Seq(Event)
  BY <1>2, SetAppend
<1>5. ASSUME NEW i \in 1 .. Count(fs)
      PROVE  "}" \in Pieces(fs, i) => "{" \in Pieces(fs, i)
  <2>1. "}" \in Pieces(es, i) => "{" \in Pieces(es, i)
    <3>1. CASE i \in 1 .. n
      BY <1>1, <3>1 DEF Formed
    <3>2. CASE i = n + 1
      <4>1. i \in Nat /\ i > Count(es)
        BY <1>1, <3>2
      <4>2. Pieces(es, i) = {}
        BY <4>1, NoPieces
      <4> QED BY <4>2
    <3>3. i \in 1 .. n \/ i = n + 1
      <4>1. Count(fs) \in {n, n + 1}
        BY <1>3
      <4> QED BY <4>1
    <3> QED BY <3>1, <3>2, <3>3
  <2>2. CASE e.index = i
    <3>1. i # 0
      OBVIOUS
    <3>2. e.json \in {""} \cup NextJSON(Read(es, i))
      BY <1>2, <2>2, <3>1, Zenon
    <3> QED BY <1>2, <2>1, <2>2, <3>2, ReadAppend
  <2>3. CASE e.index # i
    <3>1. Pieces(fs, i) = Pieces(es, i)
      BY <1>2, <2>3, Elsewhere DEF SameBlock
    <3> QED BY <2>1, <3>1
  <2> QED BY <2>2, <2>3
<1> QED BY <1>3, <1>4, <1>5 DEF Formed

LEMMA KindIs ==
  ASSUME NEW es, Bracketed(es), NEW i, NEW e \in EventsOf(es, i),
         e.type = "content_block_start"
  PROVE  KindOf(es, i) = e.kind
<1> DEFINE c == CHOOSE d \in EventsOf(es, i) : d.type = "content_block_start"
<1>1. c \in EventsOf(es, i) /\ c.type = "content_block_start"
  OBVIOUS
<1> HIDE DEF c
<1>2. c \in ToSet(es) /\ e \in ToSet(es) /\ c.index = e.index
  BY <1>1 DEF EventsOf
<1>3. c = e
  BY <1>1, <1>2 DEF Bracketed
<1> QED BY <1>3 DEF KindOf, c

LEMMA KindTyped ==
  ASSUME NEW es, Bracketed(es), NEW i \in 1 .. Count(es)
  PROVE  KindOf(es, i) \in BlockKinds
<1>1. PICK e \in EventsOf(es, i) : e.type = "content_block_start" /\ e.kind \in BlockKinds
  BY DEF Bracketed
<1> QED BY <1>1, KindIs

(* What an event in a block, or in none, changes of an Anthropic answer.   *)
Step(es, e, fs) ==
  /\ dialect = "anthropic" /\ Formed(es) /\ Bracketed(es) /\ Follows(es, e)
  /\ fs = Append(es, e) /\ Formed(fs)

LEMMA StepFacts ==
  ASSUME NEW es, NEW e, NEW fs, Step(es, e, fs)
  PROVE  /\ e \in Event /\ es \in Seq(Event) /\ fs \in Seq(Event) /\ Count(es) \in Nat
         /\ InNoBlock(es, e) \/ InBlock(es, e)
         /\ ToSet(fs) = ToSet(es) \cup {e}
         /\ Count(fs) = IF e.index = Count(es) + 1 THEN Count(es) + 1 ELSE Count(es)
<1>1. e \in Event /\ es \in Seq(Event) /\ fs \in Seq(Event) /\ fs = Append(es, e)
  BY DEF Step, Follows, Formed
<1>2. ToSet(fs) = ToSet(es) \cup {e}
  BY <1>1, SetAppend
<1>3. e.index \in 0 .. Count(es) + 1 /\ Count(es) \in Nat /\ Formed(es)
  BY FollowsWhere DEF Step
<1>4. Count(fs) = IF e.index = Count(es) + 1 THEN Count(es) + 1 ELSE Count(es)
  BY <1>1, <1>3, CountAppend
<1>5. InNoBlock(es, e) \/ InBlock(es, e)
  BY DEF Step, Follows, InCall
<1> QED BY <1>1, <1>2, <1>3, <1>4, <1>5

LEMMA BracketedAppend ==
  ASSUME NEW es, NEW e, NEW fs, Step(es, e, fs)
  PROVE  Bracketed(fs)
<1>1. PICK n \in Nat : n = Count(es)
  BY StepFacts
<1>2. /\ InNoBlock(es, e) \/ InBlock(es, e)
      /\ ToSet(fs) = ToSet(es) \cup {e}
      /\ Count(fs) = IF e.index = n + 1 THEN n + 1 ELSE n
  BY <1>1, StepFacts
<1>3. Bracketed(es) /\ Indices(es) = 1 .. n
  BY <1>1 DEF Step, Formed
<1>4. \A i : EventsOf(es, i) \subseteq EventsOf(fs, i)
  BY <1>2 DEF EventsOf
<1>5. \/ e.index = n + 1 /\ e.type = "content_block_start" /\ e.kind \in BlockKinds /\ ~Opened(es)
      \/ e.index # n + 1 /\ e.type # "content_block_start"
  <2>1. CASE InNoBlock(es, e)
    <3>1. e.index = 0 /\ e.type # "content_block_start"
      BY <2>1 DEF InNoBlock
    <3>2. n + 1 # 0
      OBVIOUS
    <3> QED BY <3>1, <3>2
  <2>2. CASE InBlock(es, e)
    <3>1. \/ e.index = n + 1 /\ e.type = "content_block_start" /\ e.kind \in BlockKinds /\ ~Opened(es)
          \/ e.index = n /\ e.type # "content_block_start"
      BY <1>1, <2>2 DEF InBlock
    <3>2. n + 1 # n
      OBVIOUS
    <3> QED BY <3>1, <3>2
  <2> QED BY <1>2, <2>1, <2>2
<1>6. (e.index = n + 1 <=> e.type = "content_block_start")
      /\ (e.index = n + 1 => e.kind \in BlockKinds /\ ~Opened(es))
  BY <1>5
<1>7. ASSUME NEW i \in 1 .. Count(fs)
      PROVE  \E d \in EventsOf(fs, i) : d.type = "content_block_start" /\ d.kind \in BlockKinds
  <2>1. CASE i \in 1 .. n
    <3>1. \E d \in EventsOf(es, i) : d.type = "content_block_start" /\ d.kind \in BlockKinds
      BY <1>1, <1>3, <2>1 DEF Bracketed
    <3> QED BY <1>4, <3>1
  <2>2. CASE i \notin 1 .. n
    <3>1. i = n + 1 /\ e.index = n + 1
      BY <1>2, <2>2
    <3>2. e \in EventsOf(fs, i)
      BY <1>2, <3>1 DEF EventsOf
    <3> QED BY <1>5, <1>6, <3>1, <3>2
  <2> QED BY <2>1, <2>2
<1>8. ASSUME NEW c \in ToSet(fs), NEW d \in ToSet(fs), c.type = "content_block_start",
             d.type = "content_block_start", c.index = d.index
      PROVE  c = d
  <2>1. \A x \in ToSet(es) : x.index # n + 1
    <3>1. ASSUME NEW x \in ToSet(es), x.index = n + 1 PROVE FALSE
      <4>1. x.index \in Indices(es)
        BY <3>1 DEF Indices
      <4> QED BY <1>3, <3>1, <4>1
    <3> QED BY <3>1
  <2>2. CASE c \in ToSet(es) /\ d \in ToSet(es)
    BY <1>3, <1>8, <2>2 DEF Bracketed
  <2>3. CASE c = e \/ d = e
    BY <1>2, <1>5, <1>8, <2>1, <2>3
  <2> QED BY <1>2, <2>2, <2>3
<1>9. ASSUME NEW i \in 1 .. Count(fs), i # Count(fs)
      PROVE  IsClosed(fs, i)
  <2>1. i \in 1 .. n
    BY <1>2, <1>9
  <2>2. IsClosed(es, i)
    <3>1. CASE i # n
      BY <1>1, <1>3, <2>1, <3>1 DEF Bracketed
    <3>2. CASE i = n
      <4>1. ~Opened(es) /\ n > 0
        BY <1>2, <1>6, <1>9, <3>2
      <4> QED BY <1>1, <3>2, <4>1 DEF Opened
    <3> QED BY <3>1, <3>2
  <2> QED BY <1>4, <2>2 DEF IsClosed
<1> QED BY <1>7, <1>8, <1>9 DEF Bracketed

LEMMA SoundAppend ==
  ASSUME NEW es, Sound(es), NEW e, Follows(es, e), NEW fs, fs = Append(es, e)
  PROVE  Sound(fs)
<1>1. Formed(fs)
  BY FormedAppend DEF Sound
<1>2. dialect = "anthropic" => Step(es, e, fs)
  BY <1>1 DEF Sound, Step
<1> QED BY <1>1, <1>2, BracketedAppend DEF Sound

LEMMA BlocksBefore ==
  ASSUME NEW es, NEW e, NEW fs, Step(es, e, fs), NEW m \in Nat,
         \A i \in 1 .. m : e.index # i
  PROVE  BlocksOfAnswer(fs, m) = BlocksOfAnswer(es, m)
<1>1. e \in Event /\ es \in Seq(Event) /\ fs = Append(es, e)
  BY StepFacts DEF Step
<1>2. \A i \in 1 .. m : BlockKept(es, i) = BlockKept(fs, i)
  <2>1. ASSUME NEW i \in 1 .. m PROVE BlockKept(es, i) = BlockKept(fs, i)
    <3>1. SameBlock(es, fs, i)
      BY <1>1, Elsewhere
    <3> QED BY <3>1 DEF SameBlock
  <2> QED BY <2>1
<1> QED BY <1>2, BlocksSame

LEMMA KindStays ==
  ASSUME NEW es, NEW e, NEW fs, Step(es, e, fs), NEW i \in 1 .. Count(es)
  PROVE  KindOf(fs, i) = KindOf(es, i) /\ KindOf(es, i) \in BlockKinds
<1>1. Bracketed(es) /\ Bracketed(fs)
  BY BracketedAppend DEF Step
<1>2. PICK d \in EventsOf(es, i) : d.type = "content_block_start" /\ d.kind \in BlockKinds
  BY <1>1 DEF Bracketed
<1>3. d \in EventsOf(fs, i)
  BY StepFacts DEF EventsOf
<1>4. KindOf(es, i) = d.kind /\ KindOf(fs, i) = d.kind
  BY <1>1, <1>2, <1>3, KindIs
<1> QED BY <1>2, <1>4

(* A block is opened.                                                      *)
StartsBlock(es, e, fs, n) ==
  /\ n = Count(es) /\ Count(fs) = n + 1 /\ ~Opened(es) /\ Opened(fs)
  /\ e.kind \in BlockKinds /\ KindOf(fs, n + 1) = e.kind
  /\ e.index = n + 1 /\ (e.kind = "tool_use" => e.id = n + 1)
  /\ (e.text # 0 <=> e.kind = "redacted_thinking")
  /\ Read(fs, n + 1) = "" /\ TextsOf(fs, n + 1) = TextOfEvent(e, n + 1)
  /\ BlocksOfAnswer(fs, n) = BlocksOfAnswer(es, n)

LEMMA StartEffect ==
  ASSUME NEW es, NEW e, NEW fs, Step(es, e, fs), e.type = "content_block_start"
  PROVE  \E n \in Nat : StartsBlock(es, e, fs, n)
<1>1. PICK n \in Nat : n = Count(es)
  BY StepFacts
<1>2. InBlock(es, e)
  <2>1. ~InNoBlock(es, e)
    BY DEF InNoBlock
  <2> QED BY <2>1, StepFacts
<1>3. /\ ~Opened(es) /\ e.index = n + 1 /\ e.kind \in BlockKinds /\ e.json = ""
      /\ e.kind = "tool_use" => e.id = n + 1
      /\ e.text # 0 <=> e.kind = "redacted_thinking"
  BY <1>1, <1>2 DEF InBlock
<1>4. /\ Count(fs) = n + 1 /\ e \in Event /\ es \in Seq(Event) /\ fs = Append(es, e)
      /\ Formed(es) /\ Bracketed(fs)
  BY <1>1, <1>3, StepFacts, BracketedAppend DEF Step
<1>5. /\ EventsOf(es, n + 1) = {} /\ Pieces(es, n + 1) = {} /\ Read(es, n + 1) = ""
      /\ TextsOf(es, n + 1) = <<>>
  <2>1. n + 1 \in Nat /\ n + 1 > Count(es)
    BY <1>1
  <2> QED BY <1>4, <2>1, NoPieces
<1>6. EventsOf(fs, n + 1) = {e}
  <2>1. EventsOf(fs, n + 1) = EventsOf(es, n + 1) \cup {e}
    BY <1>3, <1>4, EventsAppend
  <2> QED BY <1>5, <2>1
<1>7. KindOf(fs, n + 1) = e.kind
  BY <1>4, <1>6, KindIs
<1>8. Opened(fs)
  <2>1. ~IsClosed(fs, n + 1)
    BY <1>6 DEF IsClosed
  <2>2. n + 1 > 0
    OBVIOUS
  <2> QED BY <1>4, <2>1, <2>2 DEF Opened
<1>9. Read(fs, n + 1) = ""
  <2>1. Read(fs, n + 1) = Joined(Read(es, n + 1), e.json)
    BY <1>3, <1>4, <1>5, ReadAppend
  <2> QED BY <1>3, <1>5, <2>1 DEF Joined
<1>10. TextsOf(fs, n + 1) = TextOfEvent(e, n + 1)
  <2>1. PICK x : x = TextOfEvent(e, n + 1)
    OBVIOUS
  <2>2. x \in Seq(Nat)
    BY <1>4, <2>1 DEF TextOfEvent, Event
  <2>3. TextsOf(fs, n + 1) = <<>> \o x
    BY <1>4, <1>5, <2>1, TextsAppend
  <2> QED BY <2>1, <2>2, <2>3, ConcatEmptySeq
<1>11. BlocksOfAnswer(fs, n) = BlocksOfAnswer(es, n)
  <2>1. \A i \in 1 .. n : n + 1 # i
    OBVIOUS
  <2>2. \A i \in 1 .. n : e.index # i
    BY <1>3, <2>1
  <2> QED BY <2>2, BlocksBefore
<1>12. StartsBlock(es, e, fs, n)
  BY <1>1, <1>3, <1>4, <1>7, <1>8, <1>9, <1>10, <1>11 DEF StartsBlock
<1> QED BY <1>12

(* A piece of the block that is open.                                      *)
ContinuesBlock(es, e, fs, n) ==
  /\ n > 0 /\ n = Count(es) /\ Count(fs) = n /\ Opened(es) /\ Opened(fs)
  /\ e.kind \in BlockKinds /\ KindOf(es, n) = e.kind /\ KindOf(fs, n) = e.kind
  /\ \/ e.kind \in {"text", "thinking"} /\ e.json = ""
        /\ TextsOf(fs, n) = Append(TextsOf(es, n), e.text)
     \/ e.kind \in {"tool_use", "other"} /\ e.json # ""
        /\ Read(fs, n) = Joined(Read(es, n), e.json)
  /\ BlocksOfAnswer(fs, n - 1) = BlocksOfAnswer(es, n - 1)

LEMMA DeltaEffect ==
  ASSUME NEW es, NEW e, NEW fs, Step(es, e, fs), e.type = "content_block_delta"
  PROVE  \E n \in Nat : ContinuesBlock(es, e, fs, n)
<1>1. PICK n \in Nat : n = Count(es)
  BY StepFacts
<1>2. InBlock(es, e)
  <2>1. ~InNoBlock(es, e)
    BY DEF InNoBlock
  <2> QED BY <2>1, StepFacts
<1>3. /\ Opened(es) /\ e.index = n /\ e.kind = KindOf(es, n)
      /\ \/ e.kind \in {"text", "thinking"} /\ e.text # 0 /\ e.json = ""
         \/ e.kind \in {"tool_use", "other"} /\ e.text = 0 /\ e.json \in NextJSON(Read(es, n))
  BY <1>1, <1>2 DEF InBlock
<1>4. n > 0 /\ ~IsClosed(es, n) /\ n # n + 1
  <2>1. n > 0 /\ ~IsClosed(es, n)
    BY <1>1, <1>3 DEF Opened
  <2>2. n # n + 1
    OBVIOUS
  <2> QED BY <2>1, <2>2
<1>5. /\ Count(fs) = n /\ e \in Event /\ es \in Seq(Event) /\ fs = Append(es, e)
      /\ Formed(es)
  <2>1. Count(fs) = IF e.index = n + 1 THEN n + 1 ELSE n
    BY <1>1, StepFacts
  <2>2. Count(fs) = n
    BY <1>3, <1>4, <2>1
  <2> QED BY <2>2, StepFacts DEF Step
<1>6. KindOf(fs, n) = e.kind /\ e.kind \in BlockKinds
  <2>1. n \in 1 .. Count(es)
    BY <1>1, <1>4
  <2> QED BY <1>3, <2>1, KindStays
<1>7. Opened(fs)
  <2>1. EventsOf(fs, n) = EventsOf(es, n) \cup {e}
    BY <1>3, <1>5, EventsAppend
  <2>2. ~IsClosed(fs, n)
    BY <1>4, <2>1 DEF IsClosed
  <2> QED BY <1>4, <1>5, <2>2 DEF Opened
<1>8. ASSUME e.kind \in {"text", "thinking"}
      PROVE  e.json = "" /\ TextsOf(fs, n) = Append(TextsOf(es, n), e.text)
  <2>1. e.text # 0 /\ e.json = "" /\ e.text \in Nat
    BY <1>3, <1>5, <1>8 DEF Event
  <2>2. TextsOf(es, n) \in Seq(Nat) /\ TextsOf(fs, n) = TextsOf(es, n) \o <<e.text>>
    BY <1>3, <1>5, <2>1, TextsAppend DEF TextOfEvent
  <2>3. PICK s, x : s = TextsOf(es, n) /\ x = e.text
    OBVIOUS
  <2>4. Append(s, x) = s \o <<x>>
    BY <2>1, <2>2, <2>3, AppendIsConcat
  <2>5. TextsOf(fs, n) = Append(TextsOf(es, n), e.text)
    BY <2>2, <2>3, <2>4
  <2> QED BY <1>8, <2>1, <2>5
<1>9. ASSUME e.kind \notin {"text", "thinking"}
      PROVE  /\ e.kind \in {"tool_use", "other"} /\ e.json # ""
             /\ Read(fs, n) = Joined(Read(es, n), e.json)
  <2>1. e.kind \in {"tool_use", "other"} /\ e.json \in NextJSON(Read(es, n))
    BY <1>3, <1>9
  <2>2. e.json # ""
    <3>1. CASE Read(es, n) = ""
      BY <2>1, <3>1 DEF NextJSON
    <3>2. CASE Read(es, n) = "{"
      BY <2>1, <3>2 DEF NextJSON
    <3>3. CASE Read(es, n) = "{}"
      BY <2>1, <3>3 DEF NextJSON
    <3> QED BY <1>5, <3>1, <3>2, <3>3, PiecesTyped
  <2>3. "}" \in Pieces(es, n) => "{" \in Pieces(es, n)
    <3>1. n \in 1 .. Count(es)
      BY <1>1, <1>4
    <3> QED BY <1>5, <3>1 DEF Formed
  <2>4. Read(fs, n) = Joined(Read(es, n), e.json)
    <3>1. e.json \in {""} \cup NextJSON(Read(es, n))
      BY <2>1
    <3> QED BY <1>3, <1>5, <2>3, <3>1, ReadAppend
  <2> QED BY <2>1, <2>2, <2>4
<1>10. BlocksOfAnswer(fs, n - 1) = BlocksOfAnswer(es, n - 1)
  <2>1. n - 1 \in Nat /\ \A i \in 1 .. n - 1 : n # i
    BY <1>4
  <2>2. \A i \in 1 .. n - 1 : e.index # i
    BY <1>3, <2>1
  <2> QED BY <2>1, <2>2, BlocksBefore
<1>11. ContinuesBlock(es, e, fs, n)
  BY <1>1, <1>3, <1>4, <1>5, <1>6, <1>7, <1>8, <1>9, <1>10 DEF ContinuesBlock
<1> QED BY <1>11

(* The block that is open is closed.                                       *)
EndsBlock(es, e, fs, n) ==
  /\ n > 0 /\ n = Count(es) /\ Count(fs) = n /\ Opened(es) /\ ~Opened(fs)
  /\ KindOf(es, n) \in BlockKinds
  /\ BlocksOfAnswer(fs, n) = BlocksOfAnswer(es, n - 1) \o <<AnswerBlock(es, n)>>

LEMMA StopEffect ==
  ASSUME NEW es, NEW e, NEW fs, Step(es, e, fs), e.type = "content_block_stop"
  PROVE  \E n \in Nat : EndsBlock(es, e, fs, n)
<1>1. PICK n \in Nat : n = Count(es)
  BY StepFacts
<1>2. InBlock(es, e)
  <2>1. ~InNoBlock(es, e)
    BY DEF InNoBlock
  <2> QED BY <2>1, StepFacts
<1>3. Opened(es) /\ e.index = n /\ e.text = 0 /\ e.json = ""
  BY <1>1, <1>2 DEF InBlock
<1>4. n > 0 /\ n # n + 1
  <2>1. n > 0
    BY <1>1, <1>3 DEF Opened
  <2>2. n # n + 1
    OBVIOUS
  <2> QED BY <2>1, <2>2
<1>5. /\ Count(fs) = n /\ e \in Event /\ es \in Seq(Event) /\ fs = Append(es, e)
      /\ Formed(es)
  <2>1. Count(fs) = IF e.index = n + 1 THEN n + 1 ELSE n
    BY <1>1, StepFacts
  <2>2. Count(fs) = n
    BY <1>3, <1>4, <2>1
  <2> QED BY <2>2, StepFacts DEF Step
<1>6. KindOf(fs, n) = KindOf(es, n) /\ KindOf(es, n) \in BlockKinds
  <2>1. n \in 1 .. Count(es)
    BY <1>1, <1>4
  <2> QED BY <2>1, KindStays
<1>7. EventsOf(fs, n) = EventsOf(es, n) \cup {e}
  BY <1>3, <1>5, EventsAppend
<1>8. IsClosed(fs, n)
  BY <1>7 DEF IsClosed
<1>9. ~Opened(fs)
  BY <1>5, <1>8 DEF Opened
<1>10. TextsOf(fs, n) = TextsOf(es, n)
  <2>1. TextsOf(es, n) \in Seq(Nat) /\ TextsOf(fs, n) = TextsOf(es, n) \o <<>>
    BY <1>3, <1>5, TextsAppend DEF TextOfEvent
  <2> QED BY <2>1, ConcatEmptySeq
<1>11. \A start : InputOf(fs, n, start) = InputOf(es, n, start)
  <2>1. Pieces(fs, n) = Pieces(es, n) \cup {""}
    BY <1>3, <1>7 DEF Pieces
  <2> QED BY <2>1 DEF InputOf
<1>12. BlockKept(fs, n) = <<AnswerBlock(es, n)>>
  <2>1. AnswerBlock(fs, n) = AnswerBlock(es, n)
    BY <1>6, <1>10, <1>11 DEF AnswerBlock
  <2>2. Keeps(fs, n)
    BY <1>8 DEF Keeps
  <2> QED BY <2>1, <2>2 DEF BlockKept
<1>13. BlocksOfAnswer(fs, n - 1) = BlocksOfAnswer(es, n - 1)
  <2>1. n - 1 \in Nat /\ \A i \in 1 .. n - 1 : n # i
    BY <1>4
  <2>2. \A i \in 1 .. n - 1 : e.index # i
    BY <1>3, <2>1
  <2> QED BY <2>1, <2>2, BlocksBefore
<1>14. BlocksOfAnswer(fs, n) = BlocksOfAnswer(fs, n - 1) \o BlockKept(fs, n)
  <2>1. PICK l \in Nat : l = n - 1 /\ n = l + 1
    BY <1>4
  <2>2. BlocksOfAnswer(fs, l + 1) = BlocksOfAnswer(fs, l) \o BlockKept(fs, l + 1)
    BY BlocksStep
  <2> QED BY <2>1, <2>2
<1>15. EndsBlock(es, e, fs, n)
  BY <1>1, <1>3, <1>4, <1>5, <1>6, <1>9, <1>12, <1>13, <1>14 DEF EndsBlock
<1> QED BY <1>15

(* An event of no block.                                                   *)
OutsideBlocks(es, fs, n) ==
  /\ n = Count(es) /\ Count(fs) = n /\ (Opened(fs) <=> Opened(es))
  /\ \A i \in 1 .. n : SameBlock(es, fs, i)
  /\ \A m \in 0 .. n : BlocksOfAnswer(fs, m) = BlocksOfAnswer(es, m)

LEMMA OutsideEffect ==
  ASSUME NEW es, NEW e, NEW fs, Step(es, e, fs), e.index = 0
  PROVE  \E n \in Nat : OutsideBlocks(es, fs, n)
<1>1. PICK n \in Nat : n = Count(es)
  BY StepFacts
<1>2. Count(fs) = n
  <2>1. Count(fs) = IF e.index = n + 1 THEN n + 1 ELSE n
    BY <1>1, StepFacts
  <2>2. 0 # n + 1
    OBVIOUS
  <2> QED BY <2>1, <2>2
<1>3. e \in Event /\ es \in Seq(Event) /\ fs = Append(es, e)
  BY StepFacts DEF Step
<1>4. ASSUME NEW i \in 1 .. n
      PROVE  SameBlock(es, fs, i)
  <2>1. e.index # i
    OBVIOUS
  <2> QED BY <1>3, <2>1, Elsewhere
<1>5. Opened(fs) <=> Opened(es)
  <2>1. CASE n = 0
    BY <1>1, <1>2, <2>1 DEF Opened
  <2>2. CASE n > 0
    <3>1. IsClosed(fs, n) <=> IsClosed(es, n)
      BY <1>4, <2>2 DEF SameBlock
    <3> QED BY <1>1, <1>2, <3>1 DEF Opened
  <2> QED BY <2>1, <2>2
<1>6. ASSUME NEW m \in 0 .. n
      PROVE  BlocksOfAnswer(fs, m) = BlocksOfAnswer(es, m)
  <2>1. m \in Nat /\ \A i \in 1 .. m : e.index # i
    OBVIOUS
  <2> QED BY <2>1, BlocksBefore
<1>7. OutsideBlocks(es, fs, n)
  BY <1>1, <1>2, <1>4, <1>5, <1>6 DEF OutsideBlocks
<1> QED BY <1>7

-----------------------------------------------------------------------------
(* The parser's own steps.                                                 *)

LEMMA ParserFields ==
  ASSUME NEW p \in Parsers
  PROVE  /\ p.currentText \in Seq(Nat) /\ p.currentToolUse \in Seq(Tools)
         /\ p.currentToolInputJSON \in JSONs \cup {"bad"} /\ p.currentThinking \in Seq(Nat)
         /\ p.currentRedacted \in Nat /\ p.currentBlockType \in BlockKinds \cup {"none"}
         /\ p.currentUsage \in Usages /\ p.content \in Seq(Content)
         /\ p.hasToolUse \in BOOLEAN /\ p.out \in Seq(Content)
BY DEF Parsers

LEMMA BlockTyped ==
  ASSUME NEW kind \in BlockKinds, NEW parts \in Seq(Nat), NEW id \in Nat,
         NEW input \in {"none", "nil", "start", "{}"}
  PROVE  Block(kind, parts, id, input) \in Content
BY DEF Block, Content

(* q is p with the text at the end of its content.                         *)
TextMoved(p, q) ==
  /\ q \in Parsers /\ q.currentText = <<>>
  /\ q.content = Append(p.content, Block("text", p.currentText, 0, "none"))
  /\ q.currentToolUse = p.currentToolUse /\ q.currentToolInputJSON = p.currentToolInputJSON
  /\ q.currentThinking = p.currentThinking /\ q.currentRedacted = p.currentRedacted
  /\ q.currentBlockType = p.currentBlockType /\ q.currentUsage = p.currentUsage
  /\ q.hasToolUse = p.hasToolUse /\ q.out = p.out

LEMMA AddTextIs ==
  ASSUME NEW p \in Parsers, NEW q, q = AddText(p)
  PROVE  TextMoved(p, q)
<1>1. PICK b : b = Block("text", p.currentText, 0, "none")
  OBVIOUS
<1>2. b \in Content
  BY <1>1, ParserFields, BlockTyped DEF BlockKinds
<1>3. PICK c : c = Append(p.content, b)
  OBVIOUS
<1>4. c \in Seq(Content)
  BY <1>2, <1>3, ParserFields, AppendProperties
<1>5. q = [p EXCEPT !.content = c, !.currentText = <<>>]
  BY <1>1, <1>3 DEF AddText
<1>6. <<>> \in Seq(Nat)
  OBVIOUS
<1>7. q \in Parsers
  BY <1>4, <1>5, <1>6 DEF Parsers
<1>8. /\ q.content = c /\ q.currentText = <<>>
      /\ q.currentToolUse = p.currentToolUse /\ q.currentToolInputJSON = p.currentToolInputJSON
      /\ q.currentThinking = p.currentThinking /\ q.currentRedacted = p.currentRedacted
      /\ q.currentBlockType = p.currentBlockType /\ q.currentUsage = p.currentUsage
      /\ q.hasToolUse = p.hasToolUse /\ q.out = p.out
  BY <1>5 DEF Parsers
<1> QED BY <1>1, <1>3, <1>7, <1>8 DEF TextMoved

LEMMA TextMovedReported ==
  ASSUME NEW p \in Parsers, NEW q, TextMoved(p, q), Reported(p)
  PROVE  /\ Reported(q) /\ Calls(q.content) = Calls(p.content)
         /\ TextOf(q.content) = TextOf(p.content) \o p.currentText
<1>1. PICK b : b = Block("text", p.currentText, 0, "none")
  OBVIOUS
<1>2. b \in Content /\ b.kind = "text" /\ b.parts = p.currentText
  <2>1. b \in Content
    BY <1>1, ParserFields, BlockTyped DEF BlockKinds
  <2>2. b.kind = "text" /\ b.parts = p.currentText
    BY <1>1 DEF Block
  <2> QED BY <2>1, <2>2
<1>3. p.content \in Seq(Content) /\ q.content = Append(p.content, b)
  BY <1>1, ParserFields DEF TextMoved
<1>4. Calls(p.content) \in Seq(Content) /\ Calls(q.content) = Calls(p.content) \o <<>>
  BY <1>2, <1>3, CallsAppend DEF CallOf
<1>5. Calls(q.content) = Calls(p.content)
  BY <1>4, ConcatEmptySeq
<1>6. TextOf(q.content) = TextOf(p.content) \o p.currentText
  BY <1>2, <1>3, TextAppend DEF TextOfBlock
<1>7. TextOf(q.content) \in Seq(Nat) /\ q.currentText = <<>>
  <2>1. q.content \in Seq(Content)
    BY ParserFields DEF TextMoved
  <2> QED BY <1>2, <2>1, TextAppend DEF TextMoved
<1>8. TextOf(q.content) = TextOf(q.content) \o q.currentText
  BY <1>7, ConcatEmptySeq
<1>9. q.out = p.out /\ q.hasToolUse = p.hasToolUse
  BY DEF TextMoved
<1>10. TextOf(q.out) = TextOf(q.content) \o q.currentText
  <2>1. TextOf(p.out) = TextOf(p.content) \o p.currentText
    BY DEF Reported
  <2> QED BY <1>6, <1>8, <1>9, <2>1
<1>11. Calls(q.out) = Calls(q.content) /\ (q.hasToolUse <=> Calls(q.content) # <<>>)
  BY <1>5, <1>9 DEF Reported
<1> QED BY <1>5, <1>6, <1>10, <1>11 DEF Reported

(* q is p with its call, that of a tool t with an input, at the end of its *)
(* content.                                                                *)
CallMoved(p, q, b) ==
  /\ q \in Parsers /\ b \in Content /\ b.kind = "tool_use"
  /\ q.content = Append(p.content, b) /\ q.out = Append(p.out, b)
  /\ q.currentToolUse = <<>> /\ q.hasToolUse = TRUE
  /\ q.currentText = p.currentText /\ q.currentToolInputJSON = p.currentToolInputJSON
  /\ q.currentThinking = p.currentThinking /\ q.currentRedacted = p.currentRedacted
  /\ q.currentBlockType = p.currentBlockType /\ q.currentUsage = p.currentUsage

CallUnder(p) ==
  LET tool == p.currentToolUse[1] IN
  Block("tool_use", <<>>, tool.id, IF p.currentToolInputJSON = "{}" THEN "{}" ELSE tool.input)

LEMMA FinalizeIs ==
  ASSUME NEW p \in Parsers, NEW q, q = FinalizeToolUse(p)
  PROVE  /\ p.currentToolUse = <<>> => q = p
         /\ p.currentToolUse # <<>> => CallMoved(p, q, CallUnder(p))
<1>1. CASE p.currentToolUse = <<>>
  BY <1>1 DEF FinalizeToolUse
<1>2. CASE p.currentToolUse # <<>>
  <2>1. PICK tool : tool = p.currentToolUse[1] /\ tool = Head(p.currentToolUse)
    BY <1>2, ParserFields
  <2>2. tool \in Tools
    BY <1>2, <2>1, ParserFields
  <2>3. tool.id \in Nat /\ tool.input \in {"none", "nil", "start", "{}"}
    BY <2>2 DEF Tools
  <2>4. PICK input : input = IF p.currentToolInputJSON = "{}" THEN "{}" ELSE tool.input
    OBVIOUS
  <2>5. input \in {"none", "nil", "start", "{}"}
    BY <2>3, <2>4
  <2>6. PICK b : b = Block("tool_use", <<>>, tool.id, input)
    OBVIOUS
  <2>7. b \in Content /\ b.kind = "tool_use"
    <3>1. <<>> \in Seq(Nat) /\ "tool_use" \in BlockKinds
      BY DEF BlockKinds
    <3>2. b \in Content
      BY <2>3, <2>5, <2>6, <3>1, BlockTyped
    <3>3. b.kind = "tool_use"
      BY <2>6 DEF Block
    <3> QED BY <3>2, <3>3
  <2>8. PICK c, o : c = Append(p.content, b) /\ o = Append(p.out, b)
    OBVIOUS
  <2>9. c \in Seq(Content) /\ o \in Seq(Content)
    BY <2>7, <2>8, ParserFields, AppendProperties
  <2>10. q = [p EXCEPT !.content = c, !.out = o, !.currentToolUse = <<>>, !.hasToolUse = TRUE]
    BY <1>2, <2>1, <2>4, <2>6, <2>8 DEF FinalizeToolUse
  <2>11. <<>> \in Seq(Tools)
    OBVIOUS
  <2>12. q \in Parsers
    BY <2>9, <2>10, <2>11 DEF Parsers
  <2>13. /\ q.content = c /\ q.out = o /\ q.currentToolUse = <<>> /\ q.hasToolUse = TRUE
         /\ q.currentText = p.currentText /\ q.currentToolInputJSON = p.currentToolInputJSON
         /\ q.currentThinking = p.currentThinking /\ q.currentRedacted = p.currentRedacted
         /\ q.currentBlockType = p.currentBlockType /\ q.currentUsage = p.currentUsage
    BY <2>10 DEF Parsers
  <2>14. b = CallUnder(p)
    BY <2>1, <2>4, <2>6 DEF CallUnder
  <2> QED BY <1>2, <2>7, <2>8, <2>12, <2>13, <2>14 DEF CallMoved
<1> QED BY <1>1, <1>2

LEMMA CallMovedReported ==
  ASSUME NEW p \in Parsers, NEW q, NEW b, CallMoved(p, q, b), Reported(p)
  PROVE  /\ Reported(q) /\ Calls(q.content) = Append(Calls(p.content), b)
         /\ TextOf(q.content) = TextOf(p.content)
<1>1. /\ b \in Content /\ b.kind = "tool_use" /\ p.content \in Seq(Content)
      /\ p.out \in Seq(Content) /\ q.content = Append(p.content, b)
      /\ q.out = Append(p.out, b) /\ q.hasToolUse = TRUE /\ q.currentText = p.currentText
  BY ParserFields DEF CallMoved
<1>2. /\ Calls(p.content) \in Seq(Content) /\ Calls(q.content) = Calls(p.content) \o <<b>>
      /\ Calls(q.out) = Calls(p.out) \o <<b>>
  BY <1>1, CallsAppend DEF CallOf
<1>3. PICK c : c = Calls(p.content)
  OBVIOUS
<1>4. Calls(q.content) = Append(c, b) /\ Append(c, b) # <<>>
  BY <1>1, <1>2, <1>3, AppendIsConcat, AppendProperties
<1>5. Calls(q.out) = Calls(q.content)
  BY <1>2 DEF Reported
<1>6. /\ TextOf(p.content) \in Seq(Nat) /\ TextOf(q.content) = TextOf(p.content) \o <<>>
      /\ TextOf(p.out) \in Seq(Nat) /\ TextOf(q.out) = TextOf(p.out) \o <<>>
  BY <1>1, TextAppend DEF TextOfBlock
<1>7. TextOf(q.content) = TextOf(p.content) /\ TextOf(q.out) = TextOf(p.out)
  BY <1>6, ConcatEmptySeq
<1> QED BY <1>1, <1>3, <1>4, <1>5, <1>7 DEF Reported

-----------------------------------------------------------------------------
(* The parser p has seen es, and now it sees e.                            *)
Reads(es, e, fs, p) ==
  Sound(es) /\ Follows(es, e) /\ fs = Append(es, e) /\ Parsed(es, p)

LEMMA ReadsFacts ==
  ASSUME NEW es, NEW e, NEW fs, NEW p, Reads(es, e, fs, p)
  PROVE  /\ e \in Event /\ es \in Seq(Event) /\ fs \in Seq(Event) /\ fs = Append(es, e)
         /\ Formed(es) /\ Formed(fs) /\ Count(es) \in Nat
         /\ p \in Parsers /\ Reported(p) /\ Counted(es, p)
         /\ ToSet(fs) = ToSet(es) \cup {e}
         /\ dialect = "anthropic" => Step(es, e, fs) /\ BlocksRead(es, p)
         /\ dialect # "anthropic" => TextRead(es, p)
         /\ dialect = "openai_ids" => CallsRead(es, p)
<1>1. e \in Event /\ es \in Seq(Event) /\ Count(es) \in Nat /\ Formed(es) /\ fs = Append(es, e)
  BY DEF Reads, Follows, Sound, Formed
<1>2. Formed(fs)
  BY <1>1, FormedAppend DEF Reads
<1>3. fs \in Seq(Event) /\ ToSet(fs) = ToSet(es) \cup {e}
  BY <1>1, SetAppend
<1>4. dialect = "anthropic" => Step(es, e, fs)
  BY <1>1, <1>2 DEF Reads, Sound, Step
<1> QED BY <1>1, <1>2, <1>3, <1>4 DEF Reads, Parsed

LEMMA CountedKept ==
  ASSUME NEW es, NEW e, NEW fs, NEW p, Reads(es, e, fs, p), NEW q,
         q.currentUsage = p.currentUsage, e.usage = NoUsage, e.type # "message_start"
  PROVE  Counted(fs, q)
<1>1. ToSet(fs) = ToSet(es) \cup {e} /\ Counted(es, p)
  BY ReadsFacts
<1>2. e.usage.out # 2
  BY DEF NoUsage
<1>3. Started(fs) => Started(es)
  BY <1>1 DEF Started
<1> QED BY <1>1, <1>2, <1>3 DEF Counted

LEMMA TextKept ==
  ASSUME NEW es, NEW e, NEW fs, NEW p, Reads(es, e, fs, p), NEW q,
         dialect # "anthropic", TextOf(q.content) = TextOf(p.content),
         q.currentText = p.currentText, TextOfEvent(e, 0) = <<>>
  PROVE  TextRead(fs, q)
<1>1. TextsOf(es, 0) \in Seq(Nat) /\ TextsOf(fs, 0) = TextsOf(es, 0) \o <<>>
  <2>1. e \in Event /\ es \in Seq(Event) /\ fs = Append(es, e)
    BY ReadsFacts
  <2>2. TextsOf(es, 0) \in Seq(Nat) /\ TextsOf(fs, 0) = TextsOf(es, 0) \o TextOfEvent(e, 0)
    BY <2>1, TextsAppend
  <2> QED BY <2>2
<1>2. TextsOf(fs, 0) = TextsOf(es, 0)
  BY <1>1, ConcatEmptySeq
<1> QED BY <1>2, ReadsFacts DEF TextRead

(* An event of no block.                                                   *)
LEMMA OutsideSame ==
  ASSUME NEW es, NEW e, NEW fs, NEW p, Reads(es, e, fs, p), e.index = 0
  PROVE  /\ Count(fs) = Count(es) /\ \A i \in 1 .. Count(es) : SameBlock(es, fs, i)
<1>1. PICK n \in Nat : n = Count(es)
  BY ReadsFacts
<1>2. e \in Event /\ es \in Seq(Event) /\ fs = Append(es, e) /\ Formed(es)
  BY ReadsFacts
<1>3. e.index \in 0 .. n + 1 /\ e.index # n + 1
  <2>1. 0 \in 0 .. n + 1 /\ 0 # n + 1
    OBVIOUS
  <2> QED BY <2>1
<1>4. Count(fs) = n
  BY <1>1, <1>2, <1>3, CountAppend
<1>5. ASSUME NEW i \in 1 .. n
      PROVE  SameBlock(es, fs, i)
  <2>1. e.index # i
    OBVIOUS
  <2> QED BY <1>2, <2>1, Elsewhere
<1> QED BY <1>1, <1>4, <1>5

LEMMA CallsKept ==
  ASSUME NEW es, NEW e, NEW fs, NEW p, Reads(es, e, fs, p), NEW q,
         dialect = "openai_ids", e.index = 0, Calls(q.content) = Calls(p.content),
         q.currentToolUse = p.currentToolUse,
         q.currentToolInputJSON = p.currentToolInputJSON
  PROVE  CallsRead(fs, q)
<1>1. PICK n \in Nat : n = Count(es) /\ n = Count(fs)
  BY ReadsFacts, OutsideSame
<1>2. \A i \in 1 .. n : SameBlock(es, fs, i)
  BY <1>1, OutsideSame
<1>3. CallsRead(es, p)
  BY ReadsFacts
<1>4. CASE n = 0
  BY <1>1, <1>3, <1>4 DEF CallsRead
<1>5. CASE n # 0
  <2>1. Read(fs, n) = Read(es, n)
    BY <1>2, <1>5 DEF SameBlock
  <2>2. CallsOfAnswer(fs, n - 1) = CallsOfAnswer(es, n - 1)
    <3>1. ASSUME NEW i \in 1 .. n - 1 PROVE InputOf(fs, i, "nil") = InputOf(es, i, "nil")
      <4>1. i \in 1 .. n
        OBVIOUS
      <4> QED BY <1>2, <4>1 DEF SameBlock
    <3> QED BY <3>1 DEF CallsOfAnswer
  <2> QED BY <1>1, <1>3, <1>5, <2>1, <2>2 DEF CallsRead
<1> QED BY <1>4, <1>5

LEMMA BlocksKept ==
  ASSUME NEW es, NEW e, NEW fs, NEW p, Reads(es, e, fs, p), NEW q,
         dialect = "anthropic", e.index = 0, q.content = p.content,
         q.currentBlockType = p.currentBlockType, q.currentText = p.currentText,
         q.currentToolUse = p.currentToolUse,
         q.currentToolInputJSON = p.currentToolInputJSON,
         q.currentThinking = p.currentThinking, q.currentRedacted = p.currentRedacted
  PROVE  BlocksRead(fs, q)
<1>1. PICK n \in Nat : OutsideBlocks(es, fs, n)
  BY ReadsFacts, OutsideEffect
<1>2. BlocksRead(es, p) /\ n = Count(es) /\ n = Count(fs) /\ (Opened(fs) <=> Opened(es))
  BY <1>1, ReadsFacts DEF OutsideBlocks
<1>3. CASE Opened(es)
  <2>1. n \in 1 .. n /\ n - 1 \in 0 .. n
    BY <1>2, <1>3 DEF Opened
  <2>2. /\ KindOf(fs, n) = KindOf(es, n) /\ TextsOf(fs, n) = TextsOf(es, n)
        /\ Read(fs, n) = Read(es, n)
    BY <1>1, <2>1 DEF OutsideBlocks, SameBlock
  <2>3. BlocksOfAnswer(fs, n - 1) = BlocksOfAnswer(es, n - 1)
    BY <1>1, <2>1 DEF OutsideBlocks
  <2> QED BY <1>2, <1>3, <2>2, <2>3 DEF BlocksRead
<1>4. CASE ~Opened(es)
  <2>1. n \in 0 .. n
    OBVIOUS
  <2>2. BlocksOfAnswer(fs, n) = BlocksOfAnswer(es, n)
    BY <1>1, <2>1 DEF OutsideBlocks
  <2> QED BY <1>2, <1>4, <2>2 DEF BlocksRead
<1> QED BY <1>3, <1>4

LEMMA UsageParsed ==
  ASSUME NEW es, NEW e, NEW fs, NEW p, Reads(es, e, fs, p), NEW q,
         e.type \in {"message_start", "usage", "message_delta", "message_stop"},
         q = [p EXCEPT !.currentUsage = MergeUsage(@, e.usage)]
  PROVE  Parsed(fs, q)
<1>1. InNoBlock(es, e)
  BY DEF Reads, Follows, InBlock, InCall
<1>2. e.index = 0 /\ e.text = 0
  BY <1>1 DEF InNoBlock
<1>3. p \in Parsers /\ e \in Event /\ p.currentUsage \in Usages
  BY ReadsFacts, ParserFields
<1>4. PICK u, v, w : u = p.currentUsage /\ v = e.usage /\ w = MergeUsage(u, v)
  OBVIOUS
<1>5. u \in Usages /\ v \in Usages
  BY <1>3, <1>4 DEF Event
<1>6. w \in Usages /\ w.in = (IF v.in # 0 THEN v.in ELSE u.in)
      /\ w.out = (IF v.out # 0 THEN v.out ELSE u.out)
  BY <1>4, <1>5 DEF Usages, MergeUsage
<1>7. q = [p EXCEPT !.currentUsage = w]
  BY <1>4
<1>8. q \in Parsers
  BY <1>3, <1>6, <1>7 DEF Parsers
<1>9. /\ q.currentUsage = w /\ q.currentText = p.currentText
      /\ q.currentToolUse = p.currentToolUse /\ q.currentToolInputJSON = p.currentToolInputJSON
      /\ q.currentThinking = p.currentThinking /\ q.currentRedacted = p.currentRedacted
      /\ q.currentBlockType = p.currentBlockType /\ q.content = p.content
      /\ q.hasToolUse = p.hasToolUse /\ q.out = p.out
  BY <1>3, <1>7 DEF Parsers
<1>10. Reported(q)
  <2>1. Reported(p)
    BY ReadsFacts
  <2> QED BY <1>9, <2>1 DEF Reported
<1>11. Counted(fs, q)
  <2>1. ToSet(fs) = ToSet(es) \cup {e} /\ Counted(es, p)
    BY ReadsFacts
  <2>2. Started(fs) => w.in = 2
    <3>1. Started(es) => u.in = 2
      BY <1>4, <2>1 DEF Counted
    <3>2. e.type = "message_start" => v.in = 2
      BY <1>1, <1>4 DEF InNoBlock
    <3>3. v.in \in {0, 2}
      BY <1>5 DEF Usages
    <3>4. Started(fs) => Started(es) \/ e.type = "message_start"
      BY <2>1 DEF Started
    <3> QED BY <1>6, <3>1, <3>2, <3>3, <3>4
  <2>3. ASSUME NEW d \in ToSet(fs), d.usage.out = 2
        PROVE  w = [in |-> 2, out |-> 2]
    <3>1. w.in = 2 /\ w.out = 2
      <4>1. CASE e.type = "message_start"
        <5>1. es = <<>> /\ v.out # 2
          BY <1>1, <1>4, <4>1 DEF InNoBlock
        <5>2. ToSet(es) = {}
          BY <5>1 DEF ToSet
        <5> QED BY <1>4, <2>1, <2>3, <5>1, <5>2
      <4>2. CASE e.type # "message_start" /\ v # NoUsage
        <5>1. v.out = 2 /\ (v.in = 2 \/ Started(es))
          BY <1>1, <1>4, <4>2 DEF InNoBlock
        <5>2. Started(es) => Started(fs)
          BY <2>1 DEF Started
        <5>3. v.in # 2 => w.in = 2
          BY <2>2, <5>1, <5>2
        <5> QED BY <1>6, <5>1, <5>3
      <4>3. CASE e.type # "message_start" /\ v = NoUsage
        <5>1. d \in ToSet(es)
          <6>1. e.usage.out # 2
            BY <1>4, <4>3 DEF NoUsage
          <6> QED BY <2>1, <2>3, <6>1
        <5>2. u = [in |-> 2, out |-> 2]
          BY <1>4, <2>1, <2>3, <5>1 DEF Counted
        <5>3. v.in = 0 /\ v.out = 0 /\ u.in = 2 /\ u.out = 2
          BY <4>3, <5>2 DEF NoUsage
        <5> QED BY <1>6, <5>3
      <4> QED BY <4>1, <4>2, <4>3
    <3> QED BY <1>6, <3>1 DEF Usages
  <2> QED BY <1>9, <2>2, <2>3 DEF Counted
<1>12. dialect # "anthropic" => TextRead(fs, q)
  <2>1. TextOfEvent(e, 0) = <<>>
    BY <1>2 DEF TextOfEvent
  <2> QED BY <1>9, <2>1, TextKept
<1>13. dialect = "openai_ids" => CallsRead(fs, q)
  BY <1>2, <1>9, CallsKept
<1>14. dialect = "anthropic" => BlocksRead(fs, q)
  BY <1>2, <1>9, BlocksKept
<1> QED BY <1>8, <1>10, <1>11, <1>12, <1>13, <1>14 DEF Parsed

(* A text is shown, and kept for the message.                              *)
TextTaken(p, q, t) ==
  /\ q \in Parsers /\ q.content = p.content
  /\ q.currentText = Append(p.currentText, t)
  /\ q.out = Append(p.out, Block("text", <<t>>, 0, "none"))
  /\ q.currentToolUse = p.currentToolUse /\ q.currentToolInputJSON = p.currentToolInputJSON
  /\ q.currentThinking = p.currentThinking /\ q.currentRedacted = p.currentRedacted
  /\ q.currentBlockType = p.currentBlockType /\ q.currentUsage = p.currentUsage
  /\ q.hasToolUse = p.hasToolUse

LEMMA TextTakenIs ==
  ASSUME NEW p \in Parsers, NEW e \in Event, NEW q,
         q = [p EXCEPT !.currentText = Append(@, e.text), !.out = Shown(p, e)]
  PROVE  TextTaken(p, q, e.text)
<1>1. PICK t, b : t = e.text /\ b = Block("text", <<t>>, 0, "none")
  OBVIOUS
<1>2. t \in Nat
  BY <1>1 DEF Event
<1>3. b \in Content
  <2>1. <<t>> \in Seq(Nat) /\ "text" \in BlockKinds
    BY <1>2 DEF BlockKinds
  <2> QED BY <1>1, <2>1, BlockTyped
<1>4. PICK s, o : s = Append(p.currentText, t) /\ o = Append(p.out, b)
  OBVIOUS
<1>5. s \in Seq(Nat) /\ o \in Seq(Content)
  BY <1>2, <1>3, <1>4, ParserFields, AppendProperties
<1>6. q = [p EXCEPT !.currentText = s, !.out = o]
  BY <1>1, <1>4 DEF Shown
<1>7. q \in Parsers
  BY <1>5, <1>6 DEF Parsers
<1>8. /\ q.content = p.content /\ q.currentText = s /\ q.out = o
      /\ q.currentToolUse = p.currentToolUse /\ q.currentToolInputJSON = p.currentToolInputJSON
      /\ q.currentThinking = p.currentThinking /\ q.currentRedacted = p.currentRedacted
      /\ q.currentBlockType = p.currentBlockType /\ q.currentUsage = p.currentUsage
      /\ q.hasToolUse = p.hasToolUse
  BY <1>6 DEF Parsers
<1> QED BY <1>1, <1>4, <1>7, <1>8 DEF TextTaken

LEMMA TextTakenReported ==
  ASSUME NEW p \in Parsers, NEW t \in Nat, NEW q, TextTaken(p, q, t), Reported(p)
  PROVE  Reported(q)
<1>1. PICK b : b = Block("text", <<t>>, 0, "none")
  OBVIOUS
<1>2. b \in Content /\ b.kind = "text" /\ b.parts = <<t>>
  <2>1. <<t>> \in Seq(Nat) /\ "text" \in BlockKinds
    BY DEF BlockKinds
  <2>2. b \in Content
    BY <1>1, <2>1, BlockTyped
  <2>3. b.kind = "text" /\ b.parts = <<t>>
    BY <1>1 DEF Block
  <2> QED BY <2>2, <2>3
<1>3. /\ p.out \in Seq(Content) /\ q.out = Append(p.out, b) /\ q.content = p.content
      /\ q.hasToolUse = p.hasToolUse /\ q.currentText = Append(p.currentText, t)
      /\ p.currentText \in Seq(Nat) /\ p.content \in Seq(Content)
  BY <1>1, ParserFields DEF TextTaken
<1>4. Calls(q.out) = Calls(p.out)
  <2>1. Calls(p.out) \in Seq(Content) /\ Calls(q.out) = Calls(p.out) \o <<>>
    BY <1>2, <1>3, CallsAppend DEF CallOf
  <2> QED BY <2>1, ConcatEmptySeq
<1>5. PICK x, y : x = TextOf(p.content) /\ y = p.currentText
  OBVIOUS
<1>6. x \in Seq(Nat) /\ y \in Seq(Nat) /\ <<t>> \in Seq(Nat)
  BY <1>2, <1>3, <1>5, TextAppend
<1>7. TextOf(q.out) = (x \o y) \o <<t>>
  <2>1. TextOf(q.out) = TextOf(p.out) \o <<t>>
    BY <1>2, <1>3, TextAppend DEF TextOfBlock
  <2> QED BY <1>5, <2>1 DEF Reported
<1>8. (x \o y) \o <<t>> = x \o (y \o <<t>>)
  BY <1>6, ConcatAssociative
<1>9. y \o <<t>> = Append(y, t)
  BY <1>6, AppendIsConcat
<1>10. TextOf(q.out) = TextOf(q.content) \o q.currentText
  BY <1>3, <1>5, <1>7, <1>8, <1>9
<1> QED BY <1>3, <1>4, <1>10 DEF Reported

LEMMA TextParsed ==
  ASSUME NEW es, NEW e, NEW fs, NEW p, Reads(es, e, fs, p), NEW q,
         e.type = "assistant_text",
         q = [p EXCEPT !.currentText = Append(@, e.text), !.out = Shown(p, e)]
  PROVE  Parsed(fs, q)
<1>1. InNoBlock(es, e)
  BY DEF Reads, Follows, InBlock, InCall
<1>2. e.index = 0 /\ e.text # 0 /\ dialect # "anthropic" /\ e.usage = NoUsage
  BY <1>1 DEF InNoBlock
<1>3. p \in Parsers /\ e \in Event /\ Reported(p) /\ TextRead(es, p)
      /\ es \in Seq(Event) /\ fs = Append(es, e)
  BY <1>2, ReadsFacts
<1>4. PICK t \in Nat : t = e.text
  BY <1>3 DEF Event
<1>5. TextTaken(p, q, t)
  BY <1>3, <1>4, TextTakenIs
<1>6. q \in Parsers /\ Reported(q)
  BY <1>3, <1>5, TextTakenReported DEF TextTaken
<1>7. Counted(fs, q)
  BY <1>2, <1>5, CountedKept DEF TextTaken
<1>8. TextRead(fs, q)
  <2>1. PICK s : s = TextsOf(es, 0)
    OBVIOUS
  <2>2. s \in Seq(Nat) /\ TextsOf(fs, 0) = s \o <<t>>
    <3>1. TextsOf(es, 0) \in Seq(Nat) /\ TextsOf(fs, 0) = TextsOf(es, 0) \o TextOfEvent(e, 0)
      BY <1>3, TextsAppend
    <3>2. TextOfEvent(e, 0) = <<t>>
      BY <1>2, <1>4 DEF TextOfEvent
    <3> QED BY <2>1, <3>1, <3>2
  <2>3. s \o <<t>> = Append(s, t)
    BY <2>2, AppendIsConcat
  <2> QED BY <1>3, <1>5, <2>1, <2>2, <2>3 DEF TextRead, TextTaken
<1>9. dialect = "openai_ids" => CallsRead(fs, q)
  BY <1>2, <1>5, CallsKept DEF TextTaken
<1> QED BY <1>2, <1>6, <1>7, <1>8, <1>9 DEF Parsed

-----------------------------------------------------------------------------
(* A piece of a call.                                                      *)

LEMMA InCallFacts ==
  ASSUME NEW es, NEW e, NEW fs, NEW p, Reads(es, e, fs, p), e.type = "assistant_tool_use"
  PROVE  /\ dialect # "anthropic" /\ e.text = 0 /\ e.usage = NoUsage /\ InCall(es, e)
         /\ e.index # 0 /\ TextOfEvent(e, 0) = <<>>
<1>1. InCall(es, e)
  BY DEF Reads, Follows, InNoBlock, InBlock
<1>2. dialect # "anthropic" /\ e.text = 0 /\ e.usage = NoUsage
  BY <1>1 DEF InCall
<1>3. PICK n \in Nat : n = Count(es)
  BY ReadsFacts
<1>4. e.index = n + 1 \/ (n > 0 /\ e.index = n)
  BY <1>1, <1>3 DEF InCall
<1>5. n + 1 # 0 /\ (n > 0 => n # 0)
  OBVIOUS
<1>6. e.index # 0
  BY <1>4, <1>5
<1> QED BY <1>1, <1>2, <1>6 DEF TextOfEvent

(* The input of a call has one more piece.                                 *)
PieceIn(p, q, json) ==
  /\ q \in Parsers /\ q.currentToolInputJSON = Joined(p.currentToolInputJSON, json)
  /\ q.content = p.content /\ q.out = p.out /\ q.currentText = p.currentText
  /\ q.currentToolUse = p.currentToolUse /\ q.hasToolUse = p.hasToolUse
  /\ q.currentThinking = p.currentThinking /\ q.currentRedacted = p.currentRedacted
  /\ q.currentBlockType = p.currentBlockType /\ q.currentUsage = p.currentUsage

LEMMA PieceTaken ==
  ASSUME NEW p \in Parsers, NEW e \in Event, NEW q,
         q = [p EXCEPT !.currentToolInputJSON = Joined(@, e.json)]
  PROVE  PieceIn(p, q, e.json)
<1>1. PICK j : j = Joined(p.currentToolInputJSON, e.json)
  OBVIOUS
<1>2. j \in JSONs \cup {"bad"}
  <2>1. p.currentToolInputJSON \in JSONs \cup {"bad"} /\ e.json \in JSONs
    BY ParserFields DEF Event
  <2> QED BY <1>1, <2>1 DEF Joined, JSONs
<1>3. q = [p EXCEPT !.currentToolInputJSON = j]
  BY <1>1
<1>4. q \in Parsers
  BY <1>2, <1>3 DEF Parsers
<1>5. /\ q.currentToolInputJSON = j
      /\ q.content = p.content /\ q.out = p.out /\ q.currentText = p.currentText
      /\ q.currentToolUse = p.currentToolUse /\ q.hasToolUse = p.hasToolUse
      /\ q.currentThinking = p.currentThinking /\ q.currentRedacted = p.currentRedacted
      /\ q.currentBlockType = p.currentBlockType /\ q.currentUsage = p.currentUsage
  BY <1>3 DEF Parsers
<1> QED BY <1>1, <1>4, <1>5 DEF PieceIn

(* A call starts: the one under way, if any, is complete.                  *)
LEMMA CallTaken ==
  ASSUME NEW p \in Parsers, Reported(p), NEW e \in Event, NEW q,
         q = [FinalizeToolUse(p) EXCEPT
                !.currentToolUse = <<[id |-> e.id, input |-> "nil"]>>,
                !.currentToolInputJSON = e.json]
  PROVE  /\ q \in Parsers /\ Reported(q) /\ q.currentText = p.currentText
         /\ q.currentUsage = p.currentUsage /\ TextOf(q.content) = TextOf(p.content)
         /\ q.currentToolUse = <<[id |-> e.id, input |-> "nil"]>>
         /\ q.currentToolInputJSON = e.json
         /\ Calls(q.content) = IF p.currentToolUse = <<>> THEN Calls(p.content)
                               ELSE Append(Calls(p.content), CallUnder(p))
<1>1. PICK r : r = FinalizeToolUse(p)
  OBVIOUS
<1>2. /\ r \in Parsers /\ Reported(r) /\ r.currentText = p.currentText
      /\ r.currentUsage = p.currentUsage /\ TextOf(r.content) = TextOf(p.content)
      /\ Calls(r.content) = IF p.currentToolUse = <<>> THEN Calls(p.content)
                            ELSE Append(Calls(p.content), CallUnder(p))
  <2>1. CASE p.currentToolUse = <<>>
    BY <1>1, <2>1, FinalizeIs
  <2>2. CASE p.currentToolUse # <<>>
    <3>1. CallMoved(p, r, CallUnder(p))
      BY <1>1, <2>2, FinalizeIs
    <3>2. r \in Parsers /\ r.currentText = p.currentText /\ r.currentUsage = p.currentUsage
      BY <3>1 DEF CallMoved
    <3>3. /\ Reported(r) /\ TextOf(r.content) = TextOf(p.content)
          /\ Calls(r.content) = Append(Calls(p.content), CallUnder(p))
      BY <3>1, CallMovedReported
    <3> QED BY <2>2, <3>2, <3>3
  <2> QED BY <2>1, <2>2
<1>3. PICK c, j : c = <<[id |-> e.id, input |-> "nil"]>> /\ j = e.json
  OBVIOUS
<1>4. c \in Seq(Tools) /\ j \in JSONs
  <2>1. [id |-> e.id, input |-> "nil"] \in Tools /\ e.json \in JSONs
    BY DEF Event, Tools
  <2> QED BY <1>3, <2>1
<1>5. q = [r EXCEPT !.currentToolUse = c, !.currentToolInputJSON = j]
  BY <1>1, <1>3
<1>6. q \in Parsers
  BY <1>2, <1>4, <1>5 DEF Parsers
<1>7. /\ q.currentToolUse = c /\ q.currentToolInputJSON = j /\ q.content = r.content
      /\ q.currentText = r.currentText /\ q.currentUsage = r.currentUsage
      /\ q.out = r.out /\ q.hasToolUse = r.hasToolUse
  BY <1>2, <1>5 DEF Parsers
<1>8. Reported(q)
  BY <1>2, <1>7 DEF Reported
<1> QED BY <1>2, <1>3, <1>6, <1>7, <1>8

(* The call under way, as a block.                                         *)
LEMMA CallUnderIs ==
  ASSUME NEW es, NEW n, NEW start, NEW p,
         p.currentToolUse[1] = [id |-> n, input |-> start],
         p.currentToolInputJSON = Read(es, n)
  PROVE  CallUnder(p) = Block("tool_use", <<>>, n, InputOf(es, n, start))
<1>1. PICK t : t = p.currentToolUse[1]
  OBVIOUS
<1>2. t.id = n /\ t.input = start
  BY <1>1
<1>3. CallUnder(p) = Block("tool_use", <<>>, t.id,
                           IF p.currentToolInputJSON = "{}" THEN "{}" ELSE t.input)
  BY <1>1 DEF CallUnder
<1>4. InputOf(es, n, start) = IF Read(es, n) = "{}" THEN "{}" ELSE start
  BY InputRead
<1> QED BY <1>2, <1>3, <1>4

(* With ids, pieces and calls are told apart.                              *)
LEMMA CallsExtended ==
  ASSUME NEW es, NEW e, NEW fs, NEW p, Reads(es, e, fs, p), NEW q,
         dialect = "openai_ids", e.type = "assistant_tool_use",
         e.index = Count(es) + 1, e.id = Count(es) + 1,
         q.currentToolUse = <<[id |-> e.id, input |-> "nil"]>>,
         q.currentToolInputJSON = e.json,
         Calls(q.content) = IF p.currentToolUse = <<>> THEN Calls(p.content)
                            ELSE Append(Calls(p.content), CallUnder(p))
  PROVE  CallsRead(fs, q)
<1>1. PICK n \in Nat : n = Count(es)
  BY ReadsFacts
<1>2. /\ e \in Event /\ es \in Seq(Event) /\ fs = Append(es, e) /\ Formed(es)
      /\ CallsRead(es, p)
  BY ReadsFacts
<1>3. Count(fs) = n + 1
  <2>1. e.index = n + 1 /\ n + 1 \in 0 .. n + 1
    BY <1>1
  <2> QED BY <1>1, <1>2, <2>1, CountAppend
<1>4. Read(fs, n + 1) = e.json
  <2>1. n + 1 \in Nat /\ n + 1 > Count(es)
    BY <1>1
  <2>2. Pieces(es, n + 1) = {} /\ Read(es, n + 1) = ""
    BY <1>2, <2>1, NoPieces
  <2>3. e.json \in {""} \cup NextJSON(Read(es, n + 1))
    <3>1. e.index = n + 1 /\ n + 1 # 0
      BY <1>1
    <3>2. Follows(es, e)
      BY DEF Reads
    <3>3. e.index # 0 => e.json \in {""} \cup NextJSON(Read(es, e.index))
      BY <1>2, <3>2, FollowsWhere
    <3> QED BY <3>1, <3>3
  <2>4. Read(fs, n + 1) = Joined(Read(es, n + 1), e.json)
    <3>1. e.index = n + 1
      BY <1>1
    <3>2. "}" \in Pieces(es, n + 1) => "{" \in Pieces(es, n + 1)
      BY <2>2
    <3> QED BY <1>2, <2>3, <3>1, <3>2, ReadAppend
  <2> QED BY <2>2, <2>4 DEF Joined
<1>5. \A i \in 1 .. n : InputOf(fs, i, "nil") = InputOf(es, i, "nil")
  <2>1. ASSUME NEW i \in 1 .. n PROVE InputOf(fs, i, "nil") = InputOf(es, i, "nil")
    <3>1. e.index # i
      <4>1. n + 1 # i
        OBVIOUS
      <4> QED BY <1>1, <4>1
    <3>2. SameBlock(es, fs, i)
      BY <1>2, <3>1, Elsewhere
    <3> QED BY <3>2 DEF SameBlock
  <2> QED BY <2>1
<1>6. Calls(q.content) = CallsOfAnswer(fs, n)
  <2>1. CASE n = 0
    <3>1. p.currentToolUse = <<>> /\ Calls(p.content) = <<>>
      BY <1>1, <1>2, <2>1 DEF CallsRead
    <3>2. CallsOfAnswer(fs, 0) = <<>>
      BY DEF CallsOfAnswer
    <3> QED BY <2>1, <3>1, <3>2
  <2>2. CASE n # 0
    <3>1. /\ p.currentToolUse = <<[id |-> n, input |-> "nil"]>>
          /\ p.currentToolInputJSON = Read(es, n)
          /\ Calls(p.content) = CallsOfAnswer(es, n - 1)
      BY <1>1, <1>2, <2>2 DEF CallsRead
    <3>2. p.currentToolUse # <<>> /\ p.currentToolUse[1] = [id |-> n, input |-> "nil"]
      BY <3>1
    <3>3. CallUnder(p) = Block("tool_use", <<>>, n, InputOf(fs, n, "nil"))
      <4>1. InputOf(fs, n, "nil") = InputOf(es, n, "nil")
        <5>1. n \in 1 .. n
          BY <2>2
        <5> QED BY <1>5, <5>1
      <4>2. CallUnder(p) = Block("tool_use", <<>>, n, InputOf(es, n, "nil"))
        BY <3>1, <3>2, CallUnderIs
      <4> QED BY <4>1, <4>2
    <3>4. Calls(q.content) = Append(CallsOfAnswer(es, n - 1), CallUnder(p))
      BY <3>1, <3>2
    <3>5. CallsOfAnswer(es, n - 1) = CallsOfAnswer(fs, n - 1)
      <4>1. \A i \in 1 .. n - 1 : i \in 1 .. n
        OBVIOUS
      <4> QED BY <1>5, <4>1 DEF CallsOfAnswer
    <3>6. CallsOfAnswer(fs, n) = Append(CallsOfAnswer(fs, n - 1), CallUnder(p))
      BY <2>2, <3>3, CallsStep
    <3> QED BY <3>4, <3>5, <3>6
  <2> QED BY <2>1, <2>2
<1>7. q.currentToolUse = <<[id |-> n + 1, input |-> "nil"]>>
  BY <1>1
<1>8. n + 1 # 0 /\ (n + 1) - 1 = n
  OBVIOUS
<1> QED BY <1>3, <1>4, <1>6, <1>7, <1>8 DEF CallsRead

LEMMA CallsContinued ==
  ASSUME NEW es, NEW e, NEW fs, NEW p, Reads(es, e, fs, p), NEW q,
         dialect = "openai_ids", e.type = "assistant_tool_use",
         Count(es) > 0, e.index = Count(es),
         q.currentToolUse = p.currentToolUse, Calls(q.content) = Calls(p.content),
         q.currentToolInputJSON = Joined(p.currentToolInputJSON, e.json)
  PROVE  CallsRead(fs, q)
<1>1. PICK n \in Nat : n = Count(es)
  BY ReadsFacts
<1>2. /\ e \in Event /\ es \in Seq(Event) /\ fs = Append(es, e) /\ Formed(es)
      /\ CallsRead(es, p)
  BY ReadsFacts
<1>3. n # 0 /\ n > 0 /\ n # n + 1 /\ n \in 0 .. n + 1
  BY <1>1
<1>4. Count(fs) = n
  BY <1>1, <1>2, <1>3, CountAppend
<1>5. Read(fs, n) = Joined(Read(es, n), e.json)
  <2>1. n \in 1 .. Count(es)
    BY <1>1, <1>3
  <2>2. "}" \in Pieces(es, n) => "{" \in Pieces(es, n)
    BY <1>2, <2>1 DEF Formed
  <2>3. e.json \in {""} \cup NextJSON(Read(es, n))
    BY <1>1, <1>2, <1>3, FollowsWhere DEF Reads
  <2> QED BY <1>1, <1>2, <2>2, <2>3, ReadAppend
<1>6. CallsOfAnswer(fs, n - 1) = CallsOfAnswer(es, n - 1)
  <2>1. ASSUME NEW i \in 1 .. n - 1 PROVE InputOf(fs, i, "nil") = InputOf(es, i, "nil")
    <3>1. e.index # i
      <4>1. n # i
        OBVIOUS
      <4> QED BY <1>1, <4>1
    <3>2. SameBlock(es, fs, i)
      BY <1>2, <3>1, Elsewhere
    <3> QED BY <3>2 DEF SameBlock
  <2> QED BY <2>1 DEF CallsOfAnswer
<1> QED BY <1>1, <1>2, <1>3, <1>4, <1>5, <1>6 DEF CallsRead

LEMMA ToolParsed ==
  ASSUME NEW es, NEW e, NEW fs, NEW p, Reads(es, e, fs, p), NEW q,
         e.type = "assistant_tool_use",
         q = IF p.currentToolUse # <<>> /\ Head(p.currentToolUse).id = e.id
             THEN [p EXCEPT !.currentToolInputJSON = Joined(@, e.json)]
             ELSE [FinalizeToolUse(p) EXCEPT
                     !.currentToolUse = <<[id |-> e.id, input |-> "nil"]>>,
                     !.currentToolInputJSON = e.json]
  PROVE  Parsed(fs, q)
<1>1. /\ dialect # "anthropic" /\ e.usage = NoUsage /\ InCall(es, e)
      /\ TextOfEvent(e, 0) = <<>>
  BY InCallFacts
<1>2. p \in Parsers /\ e \in Event /\ Reported(p)
  BY ReadsFacts
<1>3. PICK n \in Nat : n = Count(es)
  BY ReadsFacts
<1>4. n + 1 # n
  OBVIOUS
<1>5. CASE p.currentToolUse # <<>> /\ Head(p.currentToolUse).id = e.id
  <2>1. q = [p EXCEPT !.currentToolInputJSON = Joined(@, e.json)]
    BY <1>5
  <2>2. /\ q \in Parsers /\ q.currentToolInputJSON = Joined(p.currentToolInputJSON, e.json)
        /\ q.content = p.content /\ q.out = p.out /\ q.currentText = p.currentText
        /\ q.currentToolUse = p.currentToolUse /\ q.hasToolUse = p.hasToolUse
        /\ q.currentUsage = p.currentUsage
    <3>1. PieceIn(p, q, e.json)
      BY <1>2, <2>1, PieceTaken
    <3> QED BY <3>1 DEF PieceIn
  <2>3. Reported(q)
    BY <1>2, <2>2 DEF Reported
  <2>4. Counted(fs, q)
    BY <1>1, <2>2, CountedKept
  <2>5. TextRead(fs, q)
    <3>1. TextOf(q.content) = TextOf(p.content) /\ q.currentText = p.currentText
      BY <2>2
    <3> QED BY <1>1, <3>1, TextKept
  <2>6. ASSUME dialect = "openai_ids" PROVE CallsRead(fs, q)
    <3>1. CallsRead(es, p)
      BY <2>6, ReadsFacts
    <3>2. n # 0 /\ p.currentToolUse = <<[id |-> n, input |-> "nil"]>>
      BY <1>3, <1>5, <3>1 DEF CallsRead
    <3>3. e.id = n
      BY <1>5, <3>2
    <3>4. n > 0 /\ e.index = n
      <4>1. \/ e.index = n + 1 /\ e.id = n + 1
            \/ n > 0 /\ e.index = n
        BY <1>1, <1>3 DEF InCall
      <4>2. e.id # n + 1
        BY <1>4, <3>3
      <4> QED BY <4>1, <4>2
    <3>5. Count(es) > 0 /\ e.index = Count(es)
      BY <1>3, <3>4
    <3>6. Calls(q.content) = Calls(p.content)
      BY <2>2
    <3> QED BY <2>2, <2>6, <3>5, <3>6, CallsContinued
  <2> QED BY <1>1, <2>2, <2>3, <2>4, <2>5, <2>6 DEF Parsed
<1>6. CASE ~(p.currentToolUse # <<>> /\ Head(p.currentToolUse).id = e.id)
  <2>1. q = [FinalizeToolUse(p) EXCEPT
               !.currentToolUse = <<[id |-> e.id, input |-> "nil"]>>,
               !.currentToolInputJSON = e.json]
    BY <1>6
  <2>2. /\ q \in Parsers /\ Reported(q) /\ q.currentText = p.currentText
        /\ q.currentUsage = p.currentUsage /\ TextOf(q.content) = TextOf(p.content)
        /\ q.currentToolUse = <<[id |-> e.id, input |-> "nil"]>>
        /\ q.currentToolInputJSON = e.json
        /\ Calls(q.content) = IF p.currentToolUse = <<>> THEN Calls(p.content)
                              ELSE Append(Calls(p.content), CallUnder(p))
    BY <1>2, <2>1, CallTaken
  <2>3. Counted(fs, q)
    BY <1>1, <2>2, CountedKept
  <2>4. TextRead(fs, q)
    <3>1. TextOf(q.content) = TextOf(p.content) /\ q.currentText = p.currentText
      BY <2>2
    <3> QED BY <1>1, <3>1, TextKept
  <2>5. ASSUME dialect = "openai_ids" PROVE CallsRead(fs, q)
    <3>1. CallsRead(es, p)
      BY <2>5, ReadsFacts
    <3>2. n # 0 => p.currentToolUse = <<[id |-> n, input |-> "nil"]>>
      BY <1>3, <3>1 DEF CallsRead
    <3>3. n # 0 => e.id # n
      BY <1>6, <3>2
    <3>4. e.index = n + 1 /\ e.id = n + 1
      <4>1. \/ e.index = n + 1 /\ e.id = n + 1
            \/ n > 0 /\ e.index = n /\ e.id = n
        BY <1>1, <1>3, <2>5 DEF InCall
      <4>2. n > 0 => n # 0
        OBVIOUS
      <4> QED BY <3>3, <4>1, <4>2
    <3> QED BY <1>3, <2>2, <2>5, <3>4, CallsExtended
  <2> QED BY <1>1, <2>2, <2>3, <2>4, <2>5 DEF Parsed
<1> QED BY <1>5, <1>6


-----------------------------------------------------------------------------
(* The blocks of an Anthropic answer: one is opened.                       *)
BlockOpened(p, q, e) ==
  /\ q \in Parsers /\ q.content = p.content /\ q.out = p.out
  /\ q.hasToolUse = p.hasToolUse /\ q.currentUsage = p.currentUsage
  /\ q.currentBlockType = e.kind
  /\ q.currentText = IF e.kind = "text" THEN <<>> ELSE p.currentText
  /\ q.currentToolUse =
       IF e.kind = "tool_use" THEN <<[id |-> e.id, input |-> "start"]>> ELSE p.currentToolUse
  /\ e.kind = "tool_use" => q.currentToolInputJSON = ""
  /\ e.kind = "thinking" => q.currentThinking = <<>>
  /\ e.kind = "redacted_thinking" => q.currentRedacted = e.text

LEMMA BlockOpenedIs ==
  ASSUME NEW p \in Parsers, NEW e \in Event, e.kind \in BlockKinds, NEW q, NEW r,
         r = [p EXCEPT !.currentBlockType = e.kind],
         q = CASE e.kind = "text" -> [r EXCEPT !.currentText = <<>>]
               [] e.kind = "tool_use" ->
                    [r EXCEPT !.currentToolUse = <<[id |-> e.id, input |-> "start"]>>,
                              !.currentToolInputJSON = ""]
               [] e.kind = "thinking" -> [r EXCEPT !.currentThinking = <<>>]
               [] e.kind = "redacted_thinking" -> [r EXCEPT !.currentRedacted = e.text]
               [] OTHER -> r
  PROVE  BlockOpened(p, q, e)
<1>1. PICK k : k = e.kind
  OBVIOUS
<1>2. r = [p EXCEPT !.currentBlockType = k] /\ k \in BlockKinds
  BY <1>1
<1>3. r \in Parsers
  BY <1>2 DEF Parsers
<1>4. /\ r.currentBlockType = k /\ r.content = p.content /\ r.out = p.out
      /\ r.hasToolUse = p.hasToolUse /\ r.currentUsage = p.currentUsage
      /\ r.currentText = p.currentText /\ r.currentToolUse = p.currentToolUse
  BY <1>2 DEF Parsers
<1>5. CASE k = "text"
  <2>1. q = [r EXCEPT !.currentText = <<>>]
    BY <1>1, <1>5
  <2>2. <<>> \in Seq(Nat)
    OBVIOUS
  <2>3. q \in Parsers
    BY <1>3, <2>1, <2>2 DEF Parsers
  <2>4. /\ q.currentBlockType = k /\ q.content = r.content /\ q.out = r.out
        /\ q.hasToolUse = r.hasToolUse /\ q.currentUsage = r.currentUsage
        /\ q.currentText = <<>> /\ q.currentToolUse = r.currentToolUse
    BY <1>3, <1>4, <2>1 DEF Parsers
  <2> QED BY <1>1, <1>4, <1>5, <2>3, <2>4 DEF BlockOpened
<1>6. CASE k = "tool_use"
  <2>1. PICK c : c = <<[id |-> e.id, input |-> "start"]>>
    OBVIOUS
  <2>2. c \in Seq(Tools)
    <3>1. [id |-> e.id, input |-> "start"] \in Tools
      BY DEF Event, Tools
    <3> QED BY <2>1, <3>1
  <2>3. q = [r EXCEPT !.currentToolUse = c, !.currentToolInputJSON = ""]
    BY <1>1, <1>6, <2>1
  <2>4. q \in Parsers
    BY <1>3, <2>2, <2>3 DEF Parsers, JSONs
  <2>5. /\ q.currentBlockType = k /\ q.content = r.content /\ q.out = r.out
        /\ q.hasToolUse = r.hasToolUse /\ q.currentUsage = r.currentUsage
        /\ q.currentText = r.currentText /\ q.currentToolUse = c
        /\ q.currentToolInputJSON = ""
    BY <1>3, <1>4, <2>3 DEF Parsers
  <2> QED BY <1>1, <1>4, <1>6, <2>1, <2>4, <2>5 DEF BlockOpened
<1>7. CASE k = "thinking"
  <2>1. q = [r EXCEPT !.currentThinking = <<>>]
    BY <1>1, <1>7
  <2>2. <<>> \in Seq(Nat)
    OBVIOUS
  <2>3. q \in Parsers
    BY <1>3, <2>1, <2>2 DEF Parsers
  <2>4. /\ q.currentBlockType = k /\ q.content = r.content /\ q.out = r.out
        /\ q.hasToolUse = r.hasToolUse /\ q.currentUsage = r.currentUsage
        /\ q.currentText = r.currentText /\ q.currentToolUse = r.currentToolUse
        /\ q.currentThinking = <<>>
    BY <1>3, <1>4, <2>1 DEF Parsers
  <2> QED BY <1>1, <1>4, <1>7, <2>3, <2>4 DEF BlockOpened
<1>8. CASE k = "redacted_thinking"
  <2>1. PICK t : t = e.text
    OBVIOUS
  <2>2. t \in Nat
    BY <2>1 DEF Event
  <2>3. q = [r EXCEPT !.currentRedacted = t]
    BY <1>1, <1>8, <2>1
  <2>4. q \in Parsers
    BY <1>3, <2>2, <2>3 DEF Parsers
  <2>5. /\ q.currentBlockType = k /\ q.content = r.content /\ q.out = r.out
        /\ q.hasToolUse = r.hasToolUse /\ q.currentUsage = r.currentUsage
        /\ q.currentText = r.currentText /\ q.currentToolUse = r.currentToolUse
        /\ q.currentRedacted = t
    BY <1>3, <1>4, <2>3 DEF Parsers
  <2> QED BY <1>1, <1>4, <1>8, <2>1, <2>4, <2>5 DEF BlockOpened
<1>9. CASE k = "other"
  <2>1. q = r
    BY <1>1, <1>9
  <2> QED BY <1>1, <1>3, <1>4, <1>9, <2>1 DEF BlockOpened
<1> QED BY <1>2, <1>5, <1>6, <1>7, <1>8, <1>9 DEF BlockKinds

LEMMA StartParsed ==
  ASSUME NEW es, NEW e, NEW fs, NEW p, Reads(es, e, fs, p), NEW q,
         e.type = "content_block_start", BlockOpened(p, q, e)
  PROVE  Parsed(fs, q)
<1>1. InBlock(es, e)
  BY DEF Reads, Follows, InNoBlock, InCall
<1>2. dialect = "anthropic" /\ e.usage = NoUsage
  BY <1>1 DEF InBlock
<1>3. PICK n \in Nat : StartsBlock(es, e, fs, n)
  BY <1>2, ReadsFacts, StartEffect
<1>4. BlocksRead(es, p) /\ Reported(p)
  BY <1>2, ReadsFacts
<1>5. /\ p.content = BlocksOfAnswer(es, n) /\ p.currentText = <<>> /\ p.currentToolUse = <<>>
  BY <1>3, <1>4 DEF BlocksRead, StartsBlock
<1>6. PICK k : k = e.kind
  OBVIOUS
<1>7. /\ q.content = p.content /\ q.currentBlockType = k /\ q.currentText = <<>>
      /\ q.currentToolUse = IF k = "tool_use" THEN <<[id |-> n + 1, input |-> "start"]>> ELSE <<>>
      /\ k = "tool_use" => q.currentToolInputJSON = ""
      /\ k = "thinking" => q.currentThinking = <<>>
      /\ k = "redacted_thinking" => q.currentRedacted = e.text
  BY <1>3, <1>5, <1>6 DEF BlockOpened, StartsBlock
<1>8. /\ Count(fs) = n + 1 /\ Opened(fs) /\ KindOf(fs, n + 1) = k /\ Read(fs, n + 1) = ""
      /\ BlocksOfAnswer(fs, n) = p.content
  BY <1>3, <1>5, <1>6 DEF StartsBlock
<1>9. /\ k = "redacted_thinking" => TextsOf(fs, n + 1) = <<e.text>>
      /\ k # "redacted_thinking" => TextsOf(fs, n + 1) = <<>>
  BY <1>3, <1>6 DEF StartsBlock, TextOfEvent
<1>10. (n + 1) - 1 = n
  OBVIOUS
<1>11. BlocksRead(fs, q)
  BY <1>7, <1>8, <1>9, <1>10 DEF BlocksRead
<1>12. Reported(q)
  BY <1>4, <1>5, <1>7 DEF Reported, BlockOpened
<1>13. Counted(fs, q)
  BY <1>2, CountedKept DEF BlockOpened
<1> QED BY <1>2, <1>11, <1>12, <1>13 DEF Parsed, BlockOpened

(* A thought has one more piece.                                           *)
ThoughtTaken(p, q, t) ==
  /\ q \in Parsers /\ q.currentThinking = Append(p.currentThinking, t)
  /\ q.content = p.content /\ q.out = p.out /\ q.currentText = p.currentText
  /\ q.currentToolUse = p.currentToolUse /\ q.hasToolUse = p.hasToolUse
  /\ q.currentBlockType = p.currentBlockType /\ q.currentUsage = p.currentUsage

LEMMA ThoughtTakenIs ==
  ASSUME NEW p \in Parsers, NEW e \in Event, NEW q,
         q = [p EXCEPT !.currentThinking = Append(@, e.text)]
  PROVE  ThoughtTaken(p, q, e.text)
<1>1. PICK s : s = Append(p.currentThinking, e.text)
  OBVIOUS
<1>2. s \in Seq(Nat)
  <2>1. p.currentThinking \in Seq(Nat) /\ e.text \in Nat
    BY ParserFields DEF Event
  <2> QED BY <1>1, <2>1, AppendProperties
<1>3. q = [p EXCEPT !.currentThinking = s]
  BY <1>1
<1>4. q \in Parsers
  BY <1>2, <1>3 DEF Parsers
<1>5. /\ q.currentThinking = s
      /\ q.content = p.content /\ q.out = p.out /\ q.currentText = p.currentText
      /\ q.currentToolUse = p.currentToolUse /\ q.hasToolUse = p.hasToolUse
      /\ q.currentBlockType = p.currentBlockType /\ q.currentUsage = p.currentUsage
  BY <1>3 DEF Parsers
<1> QED BY <1>1, <1>4, <1>5 DEF ThoughtTaken

LEMMA Single ==
  ASSUME NEW x, NEW s, s = <<x>>
  PROVE  s # <<>> /\ s[1] = x
OBVIOUS

LEMMA EmptyTyped == \A S : <<>> \in Seq(S)
OBVIOUS

LEMMA SingleTyped ==
  ASSUME NEW S, NEW x \in S
  PROVE  <<x>> \in Seq(S)
OBVIOUS

(* A piece of the block that is open is text, input, a thought, or of a    *)
(* kind that the parser does not know.                                     *)
Grown(p, e) ==
  CASE e.kind = "text" -> [p EXCEPT !.currentText = Append(@, e.text), !.out = Shown(p, e)]
    [] e.json # "" /\ p.currentToolUse # <<>> ->
         [p EXCEPT !.currentToolInputJSON = Joined(@, e.json)]
    [] e.kind = "thinking" -> [p EXCEPT !.currentThinking = Append(@, e.text)]
    [] OTHER -> p

LEMMA DeltaParsed ==
  ASSUME NEW es, NEW e, NEW fs, NEW p, Reads(es, e, fs, p), NEW q,
         e.type = "content_block_delta", q = Grown(p, e)
  PROVE  Parsed(fs, q)
<1>1. InBlock(es, e)
  BY DEF Reads, Follows, InNoBlock, InCall
<1>2. dialect = "anthropic" /\ e.usage = NoUsage
  BY <1>1 DEF InBlock
<1>3. PICK n \in Nat : ContinuesBlock(es, e, fs, n)
  BY <1>2, ReadsFacts, DeltaEffect
<1>4. BlocksRead(es, p) /\ Reported(p) /\ p \in Parsers /\ e \in Event
  BY <1>2, ReadsFacts
<1>5. PICK k : k = e.kind
  OBVIOUS
<1>6. /\ n = Count(es) /\ Opened(es) /\ KindOf(es, n) = k
      /\ Count(fs) = n /\ Opened(fs) /\ KindOf(fs, n) = k
      /\ BlocksOfAnswer(fs, n - 1) = BlocksOfAnswer(es, n - 1)
  BY <1>3, <1>5 DEF ContinuesBlock
<1>7. \/ /\ k \in {"text", "thinking"} /\ e.json = ""
         /\ TextsOf(fs, n) = Append(TextsOf(es, n), e.text)
      \/ /\ k \in {"tool_use", "other"} /\ e.json # ""
         /\ Read(fs, n) = Joined(Read(es, n), e.json)
  BY <1>3, <1>5 DEF ContinuesBlock
<1>8. /\ p.content = BlocksOfAnswer(es, n - 1) /\ p.currentBlockType = k
      /\ p.currentText = IF k = "text" THEN TextsOf(es, n) ELSE <<>>
      /\ p.currentToolUse = IF k = "tool_use" THEN <<[id |-> n, input |-> "start"]>> ELSE <<>>
      /\ k = "tool_use" => p.currentToolInputJSON = Read(es, n)
      /\ k = "thinking" => p.currentThinking = TextsOf(es, n)
  BY <1>4, <1>6 DEF BlocksRead
<1>9. CASE k = "text"
  <2>1. TextTaken(p, q, e.text)
    <3>1. q = [p EXCEPT !.currentText = Append(@, e.text), !.out = Shown(p, e)]
      BY <1>5, <1>7, <1>9 DEF Grown
    <3> QED BY <1>4, <3>1, TextTakenIs
  <2>2. e.text \in Nat
    BY <1>4 DEF Event
  <2>3. q \in Parsers /\ Reported(q)
    BY <1>4, <2>1, <2>2, TextTakenReported DEF TextTaken
  <2>4. BlocksRead(fs, q)
    BY <1>6, <1>7, <1>8, <1>9, <2>1 DEF BlocksRead, TextTaken
  <2>5. Counted(fs, q)
    BY <1>2, <2>1, CountedKept DEF TextTaken
  <2> QED BY <1>2, <2>3, <2>4, <2>5 DEF Parsed
<1>10. CASE k = "tool_use"
  <2>1. PieceIn(p, q, e.json)
    <3>1. p.currentToolUse # <<>> /\ e.json # "" /\ e.kind # "text"
      <4>1. p.currentToolUse = <<[id |-> n, input |-> "start"]>>
        BY <1>8, <1>10
      <4>2. p.currentToolUse # <<>>
        BY <4>1, Single
      <4>3. e.json # ""
        BY <1>7, <1>10
      <4> QED BY <1>5, <1>10, <4>2, <4>3
    <3>2. q = [p EXCEPT !.currentToolInputJSON = Joined(@, e.json)]
      BY <1>5, <1>10, <3>1 DEF Grown
    <3> QED BY <1>4, <3>2, PieceTaken
  <2>2. q \in Parsers /\ Reported(q)
    BY <1>4, <2>1 DEF PieceIn, Reported
  <2>3. BlocksRead(fs, q)
    BY <1>6, <1>7, <1>8, <1>10, <2>1 DEF BlocksRead, PieceIn
  <2>4. Counted(fs, q)
    BY <1>2, <2>1, CountedKept DEF PieceIn
  <2> QED BY <1>2, <2>2, <2>3, <2>4 DEF Parsed
<1>11. CASE k = "thinking"
  <2>1. ThoughtTaken(p, q, e.text)
    <3>1. q = [p EXCEPT !.currentThinking = Append(@, e.text)]
      BY <1>5, <1>7, <1>11 DEF Grown
    <3> QED BY <1>4, <3>1, ThoughtTakenIs
  <2>2. q \in Parsers /\ Reported(q)
    BY <1>4, <2>1 DEF ThoughtTaken, Reported
  <2>3. BlocksRead(fs, q)
    BY <1>6, <1>7, <1>8, <1>11, <2>1 DEF BlocksRead, ThoughtTaken
  <2>4. Counted(fs, q)
    BY <1>2, <2>1, CountedKept DEF ThoughtTaken
  <2> QED BY <1>2, <2>2, <2>3, <2>4 DEF Parsed
<1>12. CASE k = "other"
  <2>1. q = p
    <3>1. p.currentToolUse = <<>>
      BY <1>8, <1>12
    <3> QED BY <1>5, <1>12, <3>1 DEF Grown
  <2>2. BlocksRead(fs, q)
    BY <1>6, <1>7, <1>8, <1>12, <2>1 DEF BlocksRead
  <2>3. Counted(fs, q)
    BY <1>2, <2>1, CountedKept
  <2> QED BY <1>2, <1>4, <2>1, <2>2, <2>3 DEF Parsed
<1> QED BY <1>7, <1>9, <1>10, <1>11, <1>12

(* A block that is no text and no call is complete.                        *)
BlockMoved(p, q, b) ==
  /\ q \in Parsers /\ b \in Content /\ b.kind \notin {"text", "tool_use"}
  /\ q.content = Append(p.content, b) /\ q.out = p.out /\ q.currentText = p.currentText
  /\ q.currentToolUse = p.currentToolUse /\ q.hasToolUse = p.hasToolUse
  /\ q.currentUsage = p.currentUsage

LEMMA BlockMovedReported ==
  ASSUME NEW p \in Parsers, NEW q, NEW b, BlockMoved(p, q, b), Reported(p)
  PROVE  Reported(q)
<1>1. /\ b \in Content /\ b.kind # "text" /\ b.kind # "tool_use"
      /\ p.content \in Seq(Content) /\ q.content = Append(p.content, b) /\ q.out = p.out
      /\ q.currentText = p.currentText /\ q.hasToolUse = p.hasToolUse
  BY ParserFields DEF BlockMoved
<1>2. Calls(q.content) = Calls(p.content)
  <2>1. Calls(p.content) \in Seq(Content) /\ Calls(q.content) = Calls(p.content) \o <<>>
    BY <1>1, CallsAppend DEF CallOf
  <2> QED BY <2>1, ConcatEmptySeq
<1>3. TextOf(q.content) = TextOf(p.content)
  <2>1. TextOf(p.content) \in Seq(Nat) /\ TextOf(q.content) = TextOf(p.content) \o <<>>
    BY <1>1, TextAppend DEF TextOfBlock
  <2> QED BY <2>1, ConcatEmptySeq
<1> QED BY <1>1, <1>2, <1>3 DEF Reported

Stopped(p) ==
  CASE p.currentBlockType = "tool_use" ->
         [FinalizeToolUse(p) EXCEPT !.currentToolInputJSON = ""]
    [] p.currentBlockType = "thinking" ->
         [p EXCEPT !.content = Append(@, Block("thinking", p.currentThinking, 0, "none")),
                   !.currentThinking = <<>>]
    [] p.currentBlockType = "redacted_thinking" ->
         [p EXCEPT !.content = Append(@, Block("redacted_thinking", <<p.currentRedacted>>, 0, "none")),
                   !.currentRedacted = 0]
    [] OTHER -> AddText(p)

LEMMA StopParsed ==
  ASSUME NEW es, NEW e, NEW fs, NEW p, Reads(es, e, fs, p), NEW q, NEW r,
         e.type = "content_block_stop", r = Stopped(p),
         q = [r EXCEPT !.currentBlockType = "none"]
  PROVE  Parsed(fs, q)
<1>1. InBlock(es, e)
  BY DEF Reads, Follows, InNoBlock, InCall
<1>2. dialect = "anthropic" /\ e.usage = NoUsage
  BY <1>1 DEF InBlock
<1>3. PICK n \in Nat : EndsBlock(es, e, fs, n)
  BY <1>2, ReadsFacts, StopEffect
<1>4. BlocksRead(es, p) /\ Reported(p) /\ p \in Parsers
  BY <1>2, ReadsFacts
<1>5. PICK k : k = KindOf(es, n)
  OBVIOUS
<1>6. /\ n = Count(es) /\ Opened(es) /\ Count(fs) = n /\ ~Opened(fs) /\ k \in BlockKinds
      /\ BlocksOfAnswer(fs, n) = BlocksOfAnswer(es, n - 1) \o <<AnswerBlock(es, n)>>
  BY <1>3, <1>5 DEF EndsBlock
<1>7. /\ p.content = BlocksOfAnswer(es, n - 1) /\ p.currentBlockType = k
      /\ p.currentText = IF k = "text" THEN TextsOf(es, n) ELSE <<>>
      /\ p.currentToolUse = IF k = "tool_use" THEN <<[id |-> n, input |-> "start"]>> ELSE <<>>
      /\ k = "tool_use" => p.currentToolInputJSON = Read(es, n)
      /\ k = "thinking" => p.currentThinking = TextsOf(es, n)
      /\ k = "redacted_thinking" => <<p.currentRedacted>> = TextsOf(es, n)
  BY <1>4, <1>5, <1>6 DEF BlocksRead
<1>8. PICK b : b = AnswerBlock(es, n)
  OBVIOUS
<1>9. /\ b \in Content /\ r \in Parsers /\ Reported(r) /\ r.content = Append(p.content, b)
      /\ r.currentUsage = p.currentUsage /\ r.currentText = <<>> /\ r.currentToolUse = <<>>
  <2>1. CASE k = "tool_use"
    <3>1. PICK c : c = FinalizeToolUse(p)
      OBVIOUS
    <3>2. p.currentToolUse = <<[id |-> n, input |-> "start"]>>
      BY <1>7, <2>1
    <3>3. p.currentToolUse # <<>> /\ p.currentToolUse[1] = [id |-> n, input |-> "start"]
      BY <3>2, Single
    <3>4. CallUnder(p) = b
      <4>1. b = Block("tool_use", <<>>, n, InputOf(es, n, "start"))
        BY <1>5, <1>8, <2>1 DEF AnswerBlock
      <4>2. p.currentToolInputJSON = Read(es, n)
        BY <1>7, <2>1
      <4>3. CallUnder(p) = Block("tool_use", <<>>, n, InputOf(es, n, "start"))
        BY <3>3, <4>2, CallUnderIs
      <4> QED BY <4>1, <4>3
    <3>5. CallMoved(p, c, b)
      BY <1>4, <3>1, <3>3, <3>4, FinalizeIs
    <3>6. Reported(c)
      BY <1>4, <3>5, CallMovedReported
    <3>7. r = [c EXCEPT !.currentToolInputJSON = ""]
      BY <1>7, <2>1, <3>1 DEF Stopped
    <3>8. c \in Parsers
      BY <3>5 DEF CallMoved
    <3>9. r \in Parsers
      BY <3>7, <3>8 DEF Parsers, JSONs
    <3>10. /\ r.content = c.content /\ r.out = c.out /\ r.hasToolUse = c.hasToolUse
           /\ r.currentUsage = c.currentUsage /\ r.currentText = c.currentText
           /\ r.currentToolUse = c.currentToolUse
      BY <3>7, <3>8 DEF Parsers
    <3>11. Reported(r)
      BY <3>6, <3>10 DEF Reported
    <3>12. p.currentText = <<>>
      BY <1>7, <2>1
    <3> QED BY <3>5, <3>9, <3>10, <3>11, <3>12 DEF CallMoved
  <2>2. CASE k = "thinking"
    <3>1. b = Block("thinking", p.currentThinking, 0, "none")
      BY <1>5, <1>7, <1>8, <2>2 DEF AnswerBlock
    <3>2. PICK c : c = Append(p.content, b)
      OBVIOUS
    <3>3. r = [p EXCEPT !.content = c, !.currentThinking = <<>>]
      BY <1>7, <2>2, <3>1, <3>2 DEF Stopped
    <3>4. b \in Content /\ b.kind = "thinking"
      <4>1. p.currentThinking \in Seq(Nat) /\ "thinking" \in BlockKinds
        BY <1>4, ParserFields DEF BlockKinds
      <4>2. b \in Content
        BY <3>1, <4>1, BlockTyped
      <4>3. b.kind = "thinking"
        BY <3>1 DEF Block
      <4> QED BY <4>2, <4>3
    <3>5. c \in Seq(Content)
      <4>1. p.content \in Seq(Content)
        BY <1>4, ParserFields
      <4>2. b \in Content
        BY <3>4
      <4>3. Append(p.content, b) \in Seq(Content)
        BY <4>1, <4>2, AppendProperties
      <4> QED BY <3>2, <4>3
    <3>10. <<>> \in Seq(Nat)
      BY EmptyTyped
    <3>6. r \in Parsers
      BY <1>4, <3>3, <3>5, <3>10 DEF Parsers
    <3>7. /\ r.content = c /\ r.out = p.out /\ r.hasToolUse = p.hasToolUse
          /\ r.currentUsage = p.currentUsage /\ r.currentText = p.currentText
          /\ r.currentToolUse = p.currentToolUse
      BY <1>4, <3>3 DEF Parsers
    <3>8. BlockMoved(p, r, b)
      BY <3>2, <3>4, <3>6, <3>7 DEF BlockMoved
    <3>9. Reported(r)
      BY <1>4, <3>8, BlockMovedReported
    <3> QED BY <1>7, <2>2, <3>2, <3>4, <3>6, <3>7, <3>9
  <2>3. CASE k = "redacted_thinking"
    <3>1. b = Block("redacted_thinking", <<p.currentRedacted>>, 0, "none")
      BY <1>5, <1>7, <1>8, <2>3 DEF AnswerBlock
    <3>2. PICK c : c = Append(p.content, b)
      OBVIOUS
    <3>10. PICK z \in Nat : z = 0
      OBVIOUS
    <3>3. r = [p EXCEPT !.content = c, !.currentRedacted = z]
      BY <1>7, <2>3, <3>1, <3>2, <3>10 DEF Stopped
    <3>4. b \in Content /\ b.kind = "redacted_thinking"
      <4>1. p.currentRedacted \in Nat
        BY <1>4, ParserFields
      <4>2. "redacted_thinking" \in BlockKinds /\ 0 \in Nat
        BY DEF BlockKinds
      <4>5. <<p.currentRedacted>> \in Seq(Nat)
        BY <4>1, SingleTyped
      <4>3. b \in Content
        BY <3>1, <4>2, <4>5, BlockTyped
      <4>4. b.kind = "redacted_thinking"
        BY <3>1 DEF Block
      <4> QED BY <4>3, <4>4
    <3>5. c \in Seq(Content)
      <4>1. p.content \in Seq(Content)
        BY <1>4, ParserFields
      <4>2. b \in Content
        BY <3>4
      <4>3. Append(p.content, b) \in Seq(Content)
        BY <4>1, <4>2, AppendProperties
      <4> QED BY <3>2, <4>3
    <3>6. r \in Parsers
      BY <1>4, <3>3, <3>5 DEF Parsers
    <3>7. /\ r.content = c /\ r.out = p.out /\ r.hasToolUse = p.hasToolUse
          /\ r.currentUsage = p.currentUsage /\ r.currentText = p.currentText
          /\ r.currentToolUse = p.currentToolUse
      BY <1>4, <3>3 DEF Parsers
    <3>8. BlockMoved(p, r, b)
      BY <3>2, <3>4, <3>6, <3>7 DEF BlockMoved
    <3>9. Reported(r)
      BY <1>4, <3>8, BlockMovedReported
    <3> QED BY <1>7, <2>3, <3>2, <3>4, <3>6, <3>7, <3>9
  <2>4. CASE k \in {"text", "other"}
    <3>1. r = AddText(p)
      BY <1>7, <2>4 DEF Stopped
    <3>2. TextMoved(p, r)
      BY <1>4, <3>1, AddTextIs
    <3>3. Reported(r)
      BY <1>4, <3>2, TextMovedReported
    <3>4. b = Block("text", p.currentText, 0, "none")
      <4>1. CASE k = "text"
        BY <1>5, <1>7, <1>8, <4>1 DEF AnswerBlock
      <4>2. CASE k = "other"
        BY <1>5, <1>7, <1>8, <4>2 DEF AnswerBlock
      <4> QED BY <2>4, <4>1, <4>2
    <3>5. p.currentToolUse = <<>>
      BY <1>7, <2>4
    <3>6. b \in Content
      <4>1. p.currentText \in Seq(Nat) /\ "text" \in BlockKinds
        BY <1>4, ParserFields DEF BlockKinds
      <4> QED BY <3>4, <4>1, BlockTyped
    <3> QED BY <3>2, <3>3, <3>4, <3>5, <3>6 DEF TextMoved
  <2> QED BY <1>6, <2>1, <2>2, <2>3, <2>4 DEF BlockKinds
<1>10. /\ q \in Parsers /\ q.currentBlockType = "none" /\ q.content = r.content /\ q.out = r.out
       /\ q.hasToolUse = r.hasToolUse /\ q.currentUsage = r.currentUsage
       /\ q.currentText = r.currentText /\ q.currentToolUse = r.currentToolUse
  BY <1>9 DEF Parsers
<1>11. Reported(q)
  BY <1>9, <1>10 DEF Reported
<1>12. Counted(fs, q)
  <2>1. q.currentUsage = p.currentUsage
    BY <1>9, <1>10
  <2> QED BY <1>2, <2>1, CountedKept
<1>13. BlocksRead(fs, q)
  <2>1. Append(p.content, b) = p.content \o <<b>>
    <3>1. p.content \in Seq(Content)
      BY <1>4, ParserFields
    <3> QED BY <1>9, <3>1, AppendIsConcat
  <2>2. q.content = BlocksOfAnswer(fs, n)
    BY <1>6, <1>7, <1>8, <1>9, <1>10, <2>1
  <2> QED BY <1>6, <1>9, <1>10, <2>2 DEF BlocksRead
<1> QED BY <1>2, <1>10, <1>11, <1>12, <1>13 DEF Parsed

-----------------------------------------------------------------------------
(* The steps of the provider and of the loop keep the dialect, on which    *)
(* all of this depends.                                                    *)
LEMMA SoundPrimed ==
  ASSUME NEW es, dialect' = dialect
  PROVE  Sound(es)' <=> Sound(es)
BY DEF Sound

LEMMA FollowsPrimed ==
  ASSUME NEW es, NEW e, dialect' = dialect
  PROVE  Follows(es, e)' <=> Follows(es, e)
<1>1. InNoBlock(es, e)' <=> InNoBlock(es, e)
  BY DEF InNoBlock
<1>2. InBlock(es, e)' <=> InBlock(es, e)
  BY DEF InBlock
<1>3. InCall(es, e)' <=> InCall(es, e)
  BY DEF InCall
<1> QED BY <1>1, <1>2, <1>3 DEF Follows

LEMMA ParsedPrimed ==
  ASSUME NEW es, NEW p, dialect' = dialect
  PROVE  Parsed(es, p)' <=> Parsed(es, p)
BY DEF Parsed

(* The events of the provider, field by field.                             *)
Carries(e, type, index, text, json, usage) ==
  /\ e \in Event /\ e.type = type /\ e.index = index /\ e.text = text
  /\ e.json = json /\ e.usage = usage

Named(e, kind, id) == e.kind = kind /\ e.id = id

LEMMA PlainIs ==
  Plain \in Event /\ Carries(Plain, "message_stop", 0, 0, "", NoUsage) /\ Named(Plain, "none", 0)
BY DEF Plain, NoUsage, Usages, JSONs, EventTypes, EventKinds, Event, Carries, Named

UsageEventOf(type, usage) ==
  [Plain EXCEPT !.type = type, !.usage = usage]

LEMMA UsageEvent ==
  ASSUME NEW type \in EventTypes, NEW usage \in Usages, NEW e,
         e = UsageEventOf(type, usage)
  PROVE  Carries(e, type, 0, 0, "", usage) /\ Named(e, "none", 0)
<1>1. PICK m \in Event : m = Plain
  BY PlainIs
<1>2. e = [m EXCEPT !.type = type, !.usage = usage]
  BY <1>1 DEF UsageEventOf
<1>3. e \in Event
  BY <1>2 DEF Event
<1>4. e.type = type /\ e.usage = usage
  BY <1>2 DEF Event
<1>5. e.kind = m.kind /\ e.id = m.id /\ e.index = m.index /\ e.text = m.text /\ e.json = m.json
  BY <1>2 DEF Event
<1> QED BY <1>1, <1>3, <1>4, <1>5, PlainIs DEF Carries, Named

ErrorEventOf(type, kind) ==
  [Plain EXCEPT !.type = type, !.kind = kind]

LEMMA ErrorEvent ==
  ASSUME NEW type \in EventTypes, NEW kind \in EventKinds, NEW e,
         e = ErrorEventOf(type, kind)
  PROVE  Carries(e, type, 0, 0, "", NoUsage) /\ Named(e, kind, 0)
<1>1. PICK m \in Event : m = Plain
  BY PlainIs
<1>2. e = [m EXCEPT !.type = type, !.kind = kind]
  BY <1>1 DEF ErrorEventOf
<1>3. e \in Event
  BY <1>2 DEF Event
<1>4. e.type = type /\ e.kind = kind
  BY <1>2 DEF Event
<1>5. e.id = m.id /\ e.index = m.index /\ e.text = m.text /\ e.json = m.json /\ e.usage = m.usage
  BY <1>2 DEF Event
<1> QED BY <1>1, <1>3, <1>4, <1>5, PlainIs DEF Carries, Named

StopEventOf(type, index) ==
  [Plain EXCEPT !.type = type, !.index = index]

LEMMA StopEvent ==
  ASSUME NEW type \in EventTypes, NEW index \in Nat, NEW e,
         e = StopEventOf(type, index)
  PROVE  Carries(e, type, index, 0, "", NoUsage) /\ Named(e, "none", 0)
<1>1. PICK m \in Event : m = Plain
  BY PlainIs
<1>2. e = [m EXCEPT !.type = type, !.index = index]
  BY <1>1 DEF StopEventOf
<1>3. e \in Event
  BY <1>2 DEF Event
<1>4. e.type = type /\ e.index = index
  BY <1>2 DEF Event
<1>5. e.kind = m.kind /\ e.id = m.id /\ e.text = m.text /\ e.json = m.json /\ e.usage = m.usage
  BY <1>2 DEF Event
<1> QED BY <1>1, <1>3, <1>4, <1>5, PlainIs DEF Carries, Named

TextEventOf(type, text) ==
  [Plain EXCEPT !.type = type, !.text = text]

LEMMA TextEvent ==
  ASSUME NEW type \in EventTypes, NEW text \in Nat, NEW e,
         e = TextEventOf(type, text)
  PROVE  Carries(e, type, 0, text, "", NoUsage) /\ Named(e, "none", 0)
<1>1. PICK m \in Event : m = Plain
  BY PlainIs
<1>2. e = [m EXCEPT !.type = type, !.text = text]
  BY <1>1 DEF TextEventOf
<1>3. e \in Event
  BY <1>2 DEF Event
<1>4. e.type = type /\ e.text = text
  BY <1>2 DEF Event
<1>5. e.kind = m.kind /\ e.id = m.id /\ e.index = m.index /\ e.json = m.json /\ e.usage = m.usage
  BY <1>2 DEF Event
<1> QED BY <1>1, <1>3, <1>4, <1>5, PlainIs DEF Carries, Named

StartEventOf(type, kind, index, id, text) ==
  [Plain EXCEPT !.type = type, !.kind = kind, !.index = index, !.id = id, !.text = text]

LEMMA StartEvent ==
  ASSUME NEW type \in EventTypes, NEW kind \in EventKinds, NEW index \in Nat,
         NEW id \in Nat, NEW text \in Nat, NEW e,
         e = StartEventOf(type, kind, index, id, text)
  PROVE  Carries(e, type, index, text, "", NoUsage) /\ Named(e, kind, id)
<1>1. PICK m \in Event : m = Plain
  BY PlainIs
<1>2. e = [m EXCEPT !.type = type, !.kind = kind, !.index = index, !.id = id, !.text = text]
  BY <1>1 DEF StartEventOf
<1>3. e \in Event
  BY <1>2 DEF Event
<1>4. e.type = type /\ e.kind = kind /\ e.index = index /\ e.id = id /\ e.text = text
  BY <1>2 DEF Event
<1>5. e.json = m.json /\ e.usage = m.usage
  BY <1>2 DEF Event
<1> QED BY <1>1, <1>3, <1>4, <1>5, PlainIs DEF Carries, Named

TextDeltaEventOf(type, kind, index, text) ==
  [Plain EXCEPT !.type = type, !.kind = kind, !.index = index, !.text = text]

LEMMA TextDeltaEvent ==
  ASSUME NEW type \in EventTypes, NEW kind \in EventKinds, NEW index \in Nat,
         NEW text \in Nat, NEW e,
         e = TextDeltaEventOf(type, kind, index, text)
  PROVE  Carries(e, type, index, text, "", NoUsage) /\ Named(e, kind, 0)
<1>1. PICK m \in Event : m = Plain
  BY PlainIs
<1>2. e = [m EXCEPT !.type = type, !.kind = kind, !.index = index, !.text = text]
  BY <1>1 DEF TextDeltaEventOf
<1>3. e \in Event
  BY <1>2 DEF Event
<1>4. e.type = type /\ e.kind = kind /\ e.index = index /\ e.text = text
  BY <1>2 DEF Event
<1>5. e.id = m.id /\ e.json = m.json /\ e.usage = m.usage
  BY <1>2 DEF Event
<1> QED BY <1>1, <1>3, <1>4, <1>5, PlainIs DEF Carries, Named

InputDeltaEventOf(type, kind, index, json) ==
  [Plain EXCEPT !.type = type, !.kind = kind, !.index = index, !.json = json]

LEMMA InputDeltaEvent ==
  ASSUME NEW type \in EventTypes, NEW kind \in EventKinds, NEW index \in Nat,
         NEW json \in JSONs, NEW e,
         e = InputDeltaEventOf(type, kind, index, json)
  PROVE  Carries(e, type, index, 0, json, NoUsage) /\ Named(e, kind, 0)
<1>1. PICK m \in Event : m = Plain
  BY PlainIs
<1>2. e = [m EXCEPT !.type = type, !.kind = kind, !.index = index, !.json = json]
  BY <1>1 DEF InputDeltaEventOf
<1>3. e \in Event
  BY <1>2 DEF Event
<1>4. e.type = type /\ e.kind = kind /\ e.index = index /\ e.json = json
  BY <1>2 DEF Event
<1>5. e.id = m.id /\ e.text = m.text /\ e.usage = m.usage
  BY <1>2 DEF Event
<1> QED BY <1>1, <1>3, <1>4, <1>5, PlainIs DEF Carries, Named

CallEventOf(type, kind, index, id, json) ==
  [Plain EXCEPT !.type = type, !.kind = kind, !.index = index, !.id = id, !.json = json]

LEMMA CallEvent ==
  ASSUME NEW type \in EventTypes, NEW kind \in EventKinds, NEW index \in Nat,
         NEW id \in Nat, NEW json \in JSONs, NEW e,
         e = CallEventOf(type, kind, index, id, json)
  PROVE  Carries(e, type, index, 0, json, NoUsage) /\ Named(e, kind, id)
<1>1. PICK m \in Event : m = Plain
  BY PlainIs
<1>2. e = [m EXCEPT !.type = type, !.kind = kind, !.index = index, !.id = id, !.json = json]
  BY <1>1 DEF CallEventOf
<1>3. e \in Event
  BY <1>2 DEF Event
<1>4. e.type = type /\ e.kind = kind /\ e.index = index /\ e.id = id /\ e.json = json
  BY <1>2 DEF Event
<1>5. e.text = m.text /\ e.usage = m.usage
  BY <1>2 DEF Event
<1> QED BY <1>1, <1>3, <1>4, <1>5, PlainIs DEF Carries, Named

PieceEventOf(type, index, id, json) ==
  [Plain EXCEPT !.type = type, !.index = index, !.id = id, !.json = json]

LEMMA PieceEvent ==
  ASSUME NEW type \in EventTypes, NEW index \in Nat, NEW id \in Nat, NEW json \in JSONs,
         NEW e,
         e = PieceEventOf(type, index, id, json)
  PROVE  Carries(e, type, index, 0, json, NoUsage) /\ Named(e, "none", id)
<1>1. PICK m \in Event : m = Plain
  BY PlainIs
<1>2. e = [m EXCEPT !.type = type, !.index = index, !.id = id, !.json = json]
  BY <1>1 DEF PieceEventOf
<1>3. e \in Event
  BY <1>2 DEF Event
<1>4. e.type = type /\ e.index = index /\ e.id = id /\ e.json = json
  BY <1>2 DEF Event
<1>5. e.kind = m.kind /\ e.text = m.text /\ e.usage = m.usage
  BY <1>2 DEF Event
<1> QED BY <1>1, <1>3, <1>4, <1>5, PlainIs DEF Carries, Named


-----------------------------------------------------------------------------
(* Sending an event that may follow leaves the parser one behind, and      *)
(* taking it brings the parser up to date.                                 *)
LEMMA LastOne ==
  ASSUME NEW s \in Seq(Event), NEW e \in Event, NEW t, t = Append(s, e)
  PROVE  t # <<>> /\ Last(t) = e /\ Front(t) = s
<1>1. t \in Seq(Event) /\ t # <<>> /\ Len(t) = Len(s) + 1 /\ t[Len(s) + 1] = e
      /\ \A i \in 1 .. Len(s) : t[i] = s[i]
  BY AppendProperties
<1>2. Last(t) = e
  BY <1>1 DEF Last
<1>3. Front(t) = s
  <2>1. PICK n \in Nat : n = Len(s)
    OBVIOUS
  <2>2. Front(t) = SubSeq(t, 1, n)
    <3>1. Len(t) - 1 = n
      BY <1>1, <2>1
    <3> QED BY <3>1 DEF Front
  <2>3. PICK u : u = SubSeq(t, 1, n)
    OBVIOUS
  <2>4. u \in Seq(Event) /\ Len(u) = n /\ \A i \in 1 .. n : u[i] = t[i]
    BY <1>1, <2>1, <2>3
  <2>5. u = s
    BY <1>1, <2>1, <2>4, SeqEqual
  <2> QED BY <2>2, <2>3, <2>5
<1> QED BY <1>1, <1>2, <1>3

LEMMA SendKeeps ==
  ASSUME ChannelInv, NEW e, Follows(sent, e), Send(e)
  PROVE  /\ ChannelInv' /\ Done = sent /\ Done' = sent
         /\ sent' = Append(sent, e) /\ dialect' = dialect
<1>1. ch = <<>> /\ ch' = <<e>> /\ sent' = Append(sent, e) /\ dialect' = dialect
  BY DEF Send
<1>2. PICK es, fs : es = sent /\ fs = sent'
  OBVIOUS
<1>3. Sound(es) /\ Follows(es, e) /\ fs = Append(es, e)
  BY <1>1, <1>2 DEF ChannelInv
<1>4. Sound(fs)
  BY <1>3, SoundAppend
<1>5. es \in Seq(Event) /\ e \in Event
  BY <1>3 DEF Sound, Formed, Follows
<1>6. fs # <<>> /\ Last(fs) = e /\ Front(fs) = es
  BY <1>3, <1>5, LastOne
<1>7. <<e>> # <<>>
  OBVIOUS
<1>8. Done' = es
  BY <1>1, <1>2, <1>6, <1>7 DEF Done
<1>9. Sound(fs)' /\ Sound(es)' /\ Follows(es, e)'
  BY <1>1, <1>3, <1>4, SoundPrimed, FollowsPrimed
<1>10. Sound(sent)' /\ Sound(Done)' /\ Follows(Done, Last(sent))'
  BY <1>2, <1>6, <1>8, <1>9
<1>11. ChannelInv'
  BY <1>1, <1>2, <1>6, <1>10 DEF ChannelInv
<1>12. Done = sent
  BY <1>1 DEF Done
<1> QED BY <1>1, <1>2, <1>8, <1>11, <1>12

LEMMA ChannelFrame ==
  ASSUME ChannelInv, UNCHANGED <<dialect, sent, ch>>
  PROVE  ChannelInv' /\ Done' = Done
<1>1. PICK es, d : es = sent /\ d = Done
  OBVIOUS
<1>2. Done' = d /\ sent' = es /\ ch' = ch /\ dialect' = dialect
  BY <1>1 DEF Done
<1>3. Sound(es)' <=> Sound(es)
  BY <1>2, SoundPrimed
<1>4. Sound(d)' <=> Sound(d)
  BY <1>2, SoundPrimed
<1>5. Follows(d, Last(es))' <=> Follows(d, Last(es))
  BY <1>2, FollowsPrimed
<1> QED BY <1>1, <1>2, <1>3, <1>4, <1>5 DEF ChannelInv

LEMMA TakeKeeps ==
  ASSUME ChannelInv, ch # <<>>, ch' = <<>>, UNCHANGED <<dialect, sent>>
  PROVE  ChannelInv' /\ Done' = sent
<1>1. Done' = sent
  BY DEF Done
<1>2. PICK es : es = sent
  OBVIOUS
<1>3. Sound(es)' <=> Sound(es)
  BY SoundPrimed
<1>4. ChannelInv'
  BY <1>2, <1>3 DEF ChannelInv
<1> QED BY <1>1, <1>4

LEMMA TakeReads ==
  ASSUME ChannelInv, ch # <<>>, Parsed(Done, sp)
  PROVE  /\ Head(ch) = Last(sent) /\ Reads(Done, Head(ch), sent, sp)
<1>1. PICK es, e : es = sent /\ e = Last(sent)
  OBVIOUS
<1>2. /\ es # <<>> /\ ch = <<e>> /\ Sound(es) /\ Done = Front(es)
      /\ Sound(Done) /\ Follows(Done, e)
  BY <1>1 DEF ChannelInv, Done
<1>3. Head(ch) = e
  BY <1>2
<1>4. es \in Seq(Event)
  BY <1>2 DEF Sound, Formed
<1>5. es = Append(Front(es), e)
  <2>1. PICK n \in Nat : n = Len(es) - 1 /\ n + 1 = Len(es)
    BY <1>2, <1>4
  <2>2. e = es[n + 1] /\ e \in Event
    BY <1>1, <1>4, <2>1 DEF Last
  <2>3. PICK u : u = SubSeq(es, 1, n)
    OBVIOUS
  <2>4. u \in Seq(Event) /\ Len(u) = n /\ \A i \in 1 .. n : u[i] = es[i]
    BY <1>4, <2>1, <2>3
  <2>5. PICK v : v = Append(u, e)
    OBVIOUS
  <2>6. v \in Seq(Event) /\ Len(v) = n + 1 /\ v[n + 1] = e /\ \A i \in 1 .. n : v[i] = u[i]
    BY <2>2, <2>4, <2>5, AppendProperties
  <2>7. \A i \in 1 .. n + 1 : v[i] = es[i]
    BY <2>2, <2>4, <2>6
  <2>8. v = es
    BY <1>4, <2>1, <2>6, <2>7, SeqEqual
  <2>9. Front(es) = u
    BY <2>1, <2>3 DEF Front
  <2> QED BY <2>5, <2>8, <2>9
<1> QED BY <1>1, <1>2, <1>3, <1>5 DEF Reads

(* The block that is open, when an event is sent that is of no block.      *)
LEMMA OutsideOpen ==
  ASSUME AnswerInv, ChannelInv, NEW e \in Event, e.index = 0, sent' = Append(sent, e),
         UNCHANGED <<dialect, open>>
  PROVE  OpenIs'
<1>1. PICK es, fs : es = sent /\ fs = sent'
  OBVIOUS
<1>2. Formed(es) /\ fs = Append(es, e) /\ es \in Seq(Event)
  BY <1>1 DEF ChannelInv, Sound, Formed
<1>3. PICK n \in Nat : n = Count(es)
  BY <1>2 DEF Formed
<1>4. Count(fs) = n
  <2>1. e.index \in 0 .. Count(es) + 1 /\ e.index # Count(es) + 1
    BY <1>3
  <2> QED BY <1>2, <1>3, <2>1, CountAppend
<1>5. ASSUME n > 0 PROVE SameBlock(es, fs, n)
  <2>1. e.index # n
    BY <1>5
  <2> QED BY <1>2, <2>1, Elsewhere
<1>6. n > 0 => Read(fs, n) = Read(es, n) /\ KindOf(fs, n) = KindOf(es, n)
  BY <1>5 DEF SameBlock
<1>7. Opened(fs) <=> Opened(es)
  BY <1>3, <1>4, <1>5 DEF SameBlock, Opened
<1>8. OpenIs
  BY DEF AnswerInv
<1>9. dialect = "anthropic" => (open # NoBlock <=> Opened(fs))
  BY <1>1, <1>7, <1>8 DEF OpenIs
<1>10. ASSUME open # NoBlock
       PROVE  /\ n > 0 /\ open.index = n /\ open.json = Read(fs, n)
              /\ dialect = "anthropic" => open.kind = KindOf(fs, n)
  BY <1>1, <1>3, <1>6, <1>8, <1>10 DEF OpenIs
<1> QED BY <1>1, <1>4, <1>9, <1>10 DEF OpenIs

LEMMA StartedAppend ==
  ASSUME NEW es \in Seq(Event), NEW e \in Event, NEW fs, fs = Append(es, e)
  PROVE  Started(fs) <=> Started(es) \/ e.type = "message_start"
<1>1. ToSet(fs) = ToSet(es) \cup {e}
  BY SetAppend
<1> QED BY <1>1 DEF Started

(* An event of no block, sent.                                             *)
LEMMA OutsideSent ==
  ASSUME AnswerInv, ChannelInv, NEW e, InNoBlock(sent, e), e \in Event, Send(e),
         open' = open, answer' \in {"blocks", "tail", "closed"},
         answer = "start" /\ dialect = "anthropic" /\ answer' # "closed" => e.type = "message_start",
         answer \in {"start", "blocks", "tail"}
  PROVE  AnswerInv' /\ ChannelInv' /\ Done = sent /\ Done' = sent
<1>1. Follows(sent, e)
  BY DEF Follows
<1>2. /\ ChannelInv' /\ Done = sent /\ Done' = sent
      /\ sent' = Append(sent, e) /\ dialect' = dialect
  BY <1>1, SendKeeps
<1>3. OpenIs'
  BY <1>2, OutsideOpen DEF InNoBlock
<1>4. answer' \in {"blocks", "tail"} /\ dialect' = "anthropic" => Started(sent')
  <2>1. sent \in Seq(Event)
    BY DEF ChannelInv, Sound, Formed
  <2>2. Started(sent') <=> Started(sent) \/ e.type = "message_start"
    BY <1>2, <2>1, StartedAppend
  <2>3. answer \in {"blocks", "tail"} /\ dialect = "anthropic" => Started(sent)
    BY DEF AnswerInv
  <2> QED BY <1>2, <2>2, <2>3
<1>5. AnswerInv'
  BY <1>2, <1>3, <1>4 DEF AnswerInv
<1> QED BY <1>2, <1>5

LEMMA MessageStartKeeps ==
  ASSUME AnswerInv, ChannelInv, MessageStart
  PROVE  AnswerInv' /\ ChannelInv' /\ Done = sent /\ Done' = sent
<1>1. PICK u : u = [in |-> 2, out |-> 1]
  OBVIOUS
<1>2. PICK e : e = [Plain EXCEPT !.type = "message_start", !.usage = u]
  OBVIOUS
<1>3. Send(e) /\ answer = "start" /\ dialect = "anthropic" /\ answer' = "blocks" /\ open' = open
  BY <1>1, <1>2 DEF MessageStart
<1>4. u \in Usages /\ u.in = 2 /\ u.out = 1 /\ "message_start" \in EventTypes
  BY <1>1 DEF Usages, EventTypes
<1>5. Carries(e, "message_start", 0, 0, "", u)
  BY <1>2, <1>4, UsageEvent DEF UsageEventOf
<1>6. sent = <<>>
  BY <1>3 DEF AnswerInv
<1>7. /\ e \in Event /\ e.type = "message_start" /\ e.index = 0 /\ e.text = 0 /\ e.json = ""
      /\ e.usage = u
  BY <1>5 DEF Carries
<1>8. e.usage = u
  BY <1>7
<1>10. e.usage.in = 2 /\ e.usage.out # 2
  BY <1>4, <1>8
<1>9. InNoBlock(sent, e)
  BY <1>6, <1>7, <1>10 DEF InNoBlock
<1> QED BY <1>3, <1>7, <1>9, OutsideSent

LEMMA TextDeltaKeeps ==
  ASSUME AnswerInv, ChannelInv, TextDelta
  PROVE  AnswerInv' /\ ChannelInv' /\ Done = sent /\ Done' = sent
<1>1. PICK t : t = Serial
  OBVIOUS
<1>2. t \in Nat /\ t # 0
  <2>1. sent \in Seq(Event)
    BY DEF ChannelInv, Sound, Formed
  <2>2. PICK k \in Nat : k = Len(sent)
    BY <2>1
  <2>3. k + 1 \in Nat /\ k + 1 # 0
    OBVIOUS
  <2> QED BY <1>1, <2>2, <2>3 DEF Serial
<1>3. PICK e : e = [Plain EXCEPT !.type = "assistant_text", !.text = t]
  OBVIOUS
<1>4. /\ Send(e) /\ answer \in {"start", "blocks"} /\ dialect # "anthropic"
      /\ answer' = "blocks" /\ open' = open
  BY <1>1, <1>3 DEF TextDelta
<1>5. Carries(e, "assistant_text", 0, t, "", NoUsage)
  <2>1. "assistant_text" \in EventTypes
    BY DEF EventTypes
  <2> QED BY <1>2, <1>3, <2>1, TextEvent DEF TextEventOf
<1>6. InNoBlock(sent, e) /\ e \in Event
  BY <1>2, <1>4, <1>5 DEF Carries, InNoBlock
<1> QED BY <1>4, <1>6, OutsideSent

LEMMA MessageDeltaKeeps ==
  ASSUME AnswerInv, ChannelInv, MessageDelta
  PROVE  AnswerInv' /\ ChannelInv' /\ Done = sent /\ Done' = sent
<1>1. PICK u : u = IF dialect = "anthropic" THEN [in |-> 0, out |-> 2] ELSE NoUsage
  OBVIOUS
<1>2. u \in Usages /\ (dialect = "anthropic" => u.out = 2) /\ (dialect # "anthropic" => u = NoUsage)
  BY <1>1 DEF Usages, NoUsage
<1>3. PICK e : e = [Plain EXCEPT !.type = "message_delta", !.usage = u]
  OBVIOUS
<1>4. Send(e) /\ answer = "blocks" /\ answer' = "tail" /\ open' = open
  BY <1>1, <1>3 DEF MessageDelta
<1>5. Carries(e, "message_delta", 0, 0, "", u)
  <2>1. "message_delta" \in EventTypes
    BY DEF EventTypes
  <2> QED BY <1>2, <1>3, <2>1, UsageEvent DEF UsageEventOf
<1>6. dialect = "anthropic" => Started(sent)
  BY <1>4 DEF AnswerInv
<1>7. InNoBlock(sent, e) /\ e \in Event
  BY <1>2, <1>5, <1>6 DEF Carries, InNoBlock
<1> QED BY <1>4, <1>7, OutsideSent

LEMMA LastEventKeeps ==
  ASSUME AnswerInv, ChannelInv, LastEvent
  PROVE  AnswerInv' /\ ChannelInv' /\ Done = sent /\ Done' = sent
<1>1. PICK u : u = [in |-> 2, out |-> 2]
  OBVIOUS
<1>2. u \in Usages /\ u.in = 2 /\ u.out = 2
  BY <1>1 DEF Usages
<1>3. PICK e : e = IF dialect = "anthropic" THEN Plain
                   ELSE [Plain EXCEPT !.type = "usage", !.usage = u]
  OBVIOUS
<1>4. Send(e) /\ answer = "tail" /\ answer' = "closed" /\ open' = open
  BY <1>1, <1>3 DEF LastEvent
<1>5. InNoBlock(sent, e) /\ e \in Event
  <2>1. CASE dialect = "anthropic"
    <3>1. Carries(e, "message_stop", 0, 0, "", NoUsage)
      BY <1>3, <2>1, PlainIs
    <3> QED BY <3>1 DEF Carries, InNoBlock
  <2>2. CASE dialect # "anthropic"
    <3>1. e = [Plain EXCEPT !.type = "usage", !.usage = u] /\ "usage" \in EventTypes
      BY <1>3, <2>2 DEF EventTypes
    <3>2. Carries(e, "usage", 0, 0, "", u)
      BY <1>2, <3>1, UsageEvent DEF UsageEventOf
    <3> QED BY <1>2, <3>2 DEF Carries, InNoBlock
  <2> QED BY <2>1, <2>2
<1> QED BY <1>4, <1>5, OutsideSent

LEMMA StreamErrorKeeps ==
  ASSUME AnswerInv, ChannelInv, StreamError
  PROVE  AnswerInv' /\ ChannelInv' /\ Done = sent /\ Done' = sent
<1>1. PICK k \in {"plain", "prompt_too_long"} :
        Send([Plain EXCEPT !.type = "error", !.kind = k])
  BY DEF StreamError
<1>2. PICK e : e = [Plain EXCEPT !.type = "error", !.kind = k]
  OBVIOUS
<1>3. /\ Send(e) /\ answer \in {"start", "blocks", "tail"} /\ answer' = "closed"
      /\ open' = open
  BY <1>1, <1>2 DEF StreamError
<1>4. k \in EventKinds /\ "error" \in EventTypes
  BY DEF EventKinds, EventTypes
<1>5. Carries(e, "error", 0, 0, "", NoUsage)
  BY <1>2, <1>4, ErrorEvent DEF ErrorEventOf
<1>6. InNoBlock(sent, e) /\ e \in Event
  BY <1>5 DEF Carries, InNoBlock
<1> QED BY <1>3, <1>6, OutsideSent

-----------------------------------------------------------------------------
(* An event of a block, sent: the block that is open is told by open.      *)
BlocksAre == Blocks = Count(sent)

LEMMA BlocksCounted == BlocksAre
BY DEF BlocksAre, Blocks, Count, Indices

LEMMA NoBlockIs == NoBlock.kind = "none"
BY DEF NoBlock

LEMMA InsideSent ==
  ASSUME AnswerInv, ChannelInv, NEW e, Follows(sent, e), Send(e), e.index # 0,
         open' = NoBlock \/ open' \in [kind : BlockKinds, index : Nat, json : JSONs],
         answer' = "blocks", answer = "blocks" \/ dialect # "anthropic",
         NEW n \in Nat, NEW fs, fs = Append(sent, e), Count(fs) = n,
         dialect = "anthropic" => (open' # NoBlock <=> Opened(fs)),
         open' # NoBlock => /\ n > 0 /\ open'.index = n /\ open'.json = Read(fs, n)
                            /\ dialect = "anthropic" => open'.kind = KindOf(fs, n)
  PROVE  AnswerInv' /\ ChannelInv' /\ Done = sent /\ Done' = sent
<1>1. /\ ChannelInv' /\ Done = sent /\ Done' = sent /\ sent' = fs /\ dialect' = dialect
  BY SendKeeps
<1>2. OpenIs'
  BY <1>1 DEF OpenIs
<1>3. dialect' = "anthropic" => Started(sent')
  <2>1. sent \in Seq(Event) /\ e \in Event
    BY DEF ChannelInv, Sound, Formed, Follows
  <2>2. Started(sent') <=> Started(sent) \/ e.type = "message_start"
    BY <1>1, <2>1, StartedAppend
  <2>3. answer = "blocks" /\ dialect = "anthropic" => Started(sent)
    BY DEF AnswerInv
  <2> QED BY <1>1, <2>2, <2>3
<1>4. dialect \in {"anthropic", "openai", "openai_ids"}
  BY DEF AnswerInv
<1>5. AnswerInv'
  BY <1>1, <1>2, <1>3, <1>4 DEF AnswerInv
<1> QED BY <1>1, <1>5

LEMMA BlockStartKeeps ==
  ASSUME AnswerInv, ChannelInv, BlockStart
  PROVE  AnswerInv' /\ ChannelInv' /\ Done = sent /\ Done' = sent
<1>1. PICK es, m : es = sent /\ m = Count(es)
  OBVIOUS
<1>2. Formed(es) /\ es \in Seq(Event) /\ m \in Nat
  BY <1>1 DEF ChannelInv, Sound, Formed
<1>3. dialect = "anthropic" /\ answer = "blocks" /\ answer' = "blocks" /\ open = NoBlock
  BY DEF BlockStart
<1>4. PICK k \in BlockKinds :
        /\ Send([Plain EXCEPT !.type = "content_block_start", !.kind = k, !.index = m + 1,
                              !.id = IF k = "tool_use" THEN m + 1 ELSE 0,
                              !.text = IF k = "redacted_thinking" THEN Serial ELSE 0])
        /\ open' = [kind |-> k, index |-> m + 1, json |-> ""]
  BY <1>1, BlocksCounted DEF BlockStart, BlocksAre
<1>5. PICK i, t : /\ i = IF k = "tool_use" THEN m + 1 ELSE 0
                  /\ t = IF k = "redacted_thinking" THEN Serial ELSE 0
  OBVIOUS
<1>6. PICK n \in Nat : n = m + 1
  BY <1>2
<1>7. Serial \in Nat /\ Serial # 0
  <2>1. PICK l \in Nat : l = Len(sent)
    BY <1>1, <1>2
  <2>2. l + 1 \in Nat /\ l + 1 # 0
    OBVIOUS
  <2> QED BY <2>1, <2>2 DEF Serial
<1>8. i \in Nat /\ t \in Nat /\ (k = "tool_use" => i = n) /\ (t # 0 <=> k = "redacted_thinking")
  BY <1>5, <1>6, <1>7
<1>9. PICK e : e = [Plain EXCEPT !.type = "content_block_start", !.kind = k, !.index = n,
                                 !.id = i, !.text = t]
  OBVIOUS
<1>10. Send(e)
  BY <1>4, <1>5, <1>6, <1>9
<1>11. Carries(e, "content_block_start", n, t, "", NoUsage) /\ e.kind = k /\ e.id = i
  <2>1. "content_block_start" \in EventTypes /\ k \in EventKinds
    BY DEF EventTypes, EventKinds
  <2>2. i \in Nat /\ t \in Nat
    BY <1>8
  <2>3. PICK type : type = "content_block_start"
    OBVIOUS
  <2>4. e = StartEventOf(type, k, n, i, t)
    BY <1>9, <2>3 DEF StartEventOf
  <2>5. type \in EventTypes /\ n \in Nat
    BY <1>6, <2>1, <2>3
  <2>6. Carries(e, type, n, t, "", NoUsage)
    BY <2>1, <2>2, <2>4, <2>5, StartEvent
  <2>7. Named(e, k, i)
    BY <2>1, <2>2, <2>4, <2>5, StartEvent
  <2> QED BY <2>3, <2>6, <2>7 DEF Named
<1>12. OpenIs
  BY DEF AnswerInv
<1>13. ~Opened(es)
  BY <1>1, <1>3, <1>12 DEF OpenIs
<1>14. /\ e \in Event /\ e.type = "content_block_start" /\ e.index = m + 1 /\ e.json = ""
       /\ e.kind \in BlockKinds /\ (e.kind = "tool_use" => e.id = e.index)
       /\ e.usage = NoUsage /\ (e.text # 0 <=> e.kind = "redacted_thinking")
  BY <1>6, <1>8, <1>11 DEF Carries
<1>15. InBlock(es, e)
  BY <1>1, <1>3, <1>13, <1>14 DEF InBlock
<1>16. Follows(es, e)
  BY <1>14, <1>15 DEF Follows
<1>17. PICK fs : fs = Append(es, e)
  OBVIOUS
<1>18. Step(es, e, fs)
  <2>1. Formed(fs)
    BY <1>2, <1>16, <1>17, FormedAppend
  <2>2. Bracketed(es)
    BY <1>1, <1>3 DEF ChannelInv, Sound
  <2> QED BY <1>2, <1>3, <1>16, <1>17, <2>1, <2>2 DEF Step
<1>19. PICK x \in Nat : StartsBlock(es, e, fs, x)
  BY <1>14, <1>18, StartEffect
<1>20. Count(fs) = n /\ Opened(fs) /\ KindOf(fs, n) = k /\ Read(fs, n) = ""
  BY <1>1, <1>6, <1>11, <1>19 DEF StartsBlock
<1>21. open' \in [kind : BlockKinds, index : Nat, json : JSONs]
  BY <1>4, <1>6 DEF JSONs
<1>22. open'.kind = k /\ open'.index = n /\ open'.json = ""
  BY <1>4, <1>6
<1>23. open' # NoBlock
  <2>1. k # "none"
    BY DEF BlockKinds
  <2> QED BY <1>22, <2>1, NoBlockIs
<1>24. n > 0 /\ e.index # 0
  <2>1. n > 0 /\ n # 0
    BY <1>2, <1>6
  <2> QED BY <1>6, <1>14, <2>1
<1> QED BY <1>1, <1>3, <1>10, <1>16, <1>17, <1>20, <1>21, <1>22, <1>23, <1>24, InsideSent

(* The block that is open has one more piece, or is closed.                *)
LEMMA JoinedPiece ==
  ASSUME NEW json, NEW piece \in NextJSON(json)
  PROVE  piece \in JSONs /\ Joined(json, piece) \in JSONs /\ piece # ""
BY DEF NextJSON, Joined, JSONs

LEMMA OpenKnown ==
  ASSUME AnswerInv, ChannelInv, open # NoBlock
  PROVE  \E n \in Nat :
           /\ n = Count(sent) /\ n > 0 /\ n # 0 /\ n # n + 1 /\ open.index = n
           /\ open \in [kind : BlockKinds, index : Nat, json : JSONs]
           /\ open.json = Read(sent, n) /\ Formed(sent)
           /\ dialect = "anthropic" => /\ open.kind = KindOf(sent, n) /\ Opened(sent)
                                       /\ Bracketed(sent)
<1>1. Formed(sent) /\ (dialect = "anthropic" => Bracketed(sent))
  BY DEF ChannelInv, Sound
<1>2. PICK n \in Nat : n = Count(sent)
  BY <1>1 DEF Formed
<1>3. OpenIs /\ (open = NoBlock \/ open \in [kind : BlockKinds, index : Nat, json : JSONs])
  BY DEF AnswerInv
<1>4. n > 0
  BY <1>2, <1>3 DEF OpenIs
<1>5. n # 0 /\ n # n + 1
  BY <1>4
<1>6. /\ open.index = n /\ open.json = Read(sent, n)
      /\ dialect = "anthropic" => open.kind = KindOf(sent, n) /\ Opened(sent)
  BY <1>2, <1>3 DEF OpenIs
<1> QED BY <1>1, <1>2, <1>3, <1>4, <1>5, <1>6

LEMMA TextDeltaSent ==
  ASSUME AnswerInv, ChannelInv, answer = "blocks", answer' = "blocks", dialect = "anthropic",
         open.kind \in {"text", "thinking"}, open' = open,
         Send([Plain EXCEPT !.type = "content_block_delta", !.kind = open.kind,
                            !.index = open.index, !.text = Serial])
  PROVE  AnswerInv' /\ ChannelInv' /\ Done = sent /\ Done' = sent
<1>1. open # NoBlock
  BY NoBlockIs
<1>2. PICK n \in Nat :
           /\ n = Count(sent) /\ n > 0 /\ n # 0 /\ n # n + 1 /\ open.index = n
           /\ open \in [kind : BlockKinds, index : Nat, json : JSONs]
           /\ open.json = Read(sent, n) /\ Formed(sent)
           /\ open.kind = KindOf(sent, n) /\ Opened(sent) /\ Bracketed(sent)
  BY <1>1, OpenKnown
<1>3. PICK es, k, t, type : es = sent /\ k = open.kind /\ t = Serial
                            /\ type = "content_block_delta"
  OBVIOUS
<1>4. t \in Nat /\ t # 0
  <2>1. es \in Seq(Event)
    BY <1>2, <1>3 DEF Formed
  <2>2. PICK l \in Nat : l = Len(es)
    BY <2>1
  <2>3. l + 1 \in Nat /\ l + 1 # 0
    OBVIOUS
  <2> QED BY <1>3, <2>2, <2>3 DEF Serial
<1>5. type \in EventTypes /\ k \in EventKinds /\ k \in BlockKinds
  BY <1>2, <1>3 DEF EventTypes, EventKinds
<1>6. PICK e : e = TextDeltaEventOf(type, k, n, t)
  OBVIOUS
<1>7. Send(e)
  BY <1>2, <1>3, <1>6 DEF TextDeltaEventOf
<1>8. Carries(e, type, n, t, "", NoUsage) /\ Named(e, k, 0)
  BY <1>2, <1>4, <1>5, <1>6, TextDeltaEvent
<1>9. /\ e \in Event /\ e.type = "content_block_delta" /\ e.index = n /\ e.text # 0
      /\ e.json = "" /\ e.usage = NoUsage /\ e.kind = k /\ k \in {"text", "thinking"}
  BY <1>3, <1>4, <1>8 DEF Carries, Named
<1>10. InBlock(es, e)
  BY <1>2, <1>3, <1>9 DEF InBlock
<1>11. Follows(es, e)
  BY <1>9, <1>10 DEF Follows
<1>12. PICK fs : fs = Append(es, e)
  OBVIOUS
<1>13. Step(es, e, fs)
  <2>1. Formed(fs)
    BY <1>2, <1>3, <1>11, <1>12, FormedAppend
  <2> QED BY <1>2, <1>3, <1>11, <1>12, <2>1 DEF Step
<1>14. PICK x \in Nat : ContinuesBlock(es, e, fs, x)
  BY <1>9, <1>13, DeltaEffect
<1>15. Count(fs) = n /\ Opened(fs) /\ KindOf(fs, n) = k
  BY <1>2, <1>3, <1>9, <1>14 DEF ContinuesBlock
<1>16. Read(fs, n) = Read(es, n)
  <2>1. "}" \in Pieces(es, n) => "{" \in Pieces(es, n)
    <3>1. n \in 1 .. Count(es)
      BY <1>2, <1>3
    <3> QED BY <1>2, <1>3, <3>1 DEF Formed
  <2>2. e.json \in {""} \cup NextJSON(Read(es, n)) /\ es \in Seq(Event)
    BY <1>2, <1>3, <1>9 DEF Formed
  <2>3. Read(fs, n) = Joined(Read(es, n), e.json)
    BY <1>9, <1>12, <2>1, <2>2, ReadAppend
  <2>4. Joined(Read(es, n), "") = Read(es, n)
    BY DEF Joined
  <2> QED BY <1>9, <2>3, <2>4
<1>17. e.index # 0
  BY <1>2, <1>9
<1> QED BY <1>1, <1>2, <1>3, <1>7, <1>11, <1>12, <1>15, <1>16, <1>17, InsideSent

LEMMA InputDeltaSent ==
  ASSUME AnswerInv, ChannelInv, answer = "blocks", answer' = "blocks", dialect = "anthropic",
         open.kind \in {"tool_use", "other"}, NEW piece \in NextJSON(open.json),
         Send([Plain EXCEPT !.type = "content_block_delta", !.kind = open.kind,
                            !.index = open.index, !.json = piece]),
         open' = [open EXCEPT !.json = Joined(@, piece)]
  PROVE  AnswerInv' /\ ChannelInv' /\ Done = sent /\ Done' = sent
<1>1. open # NoBlock
  BY NoBlockIs
<1>2. PICK n \in Nat :
           /\ n = Count(sent) /\ n > 0 /\ n # 0 /\ n # n + 1 /\ open.index = n
           /\ open \in [kind : BlockKinds, index : Nat, json : JSONs]
           /\ open.json = Read(sent, n) /\ Formed(sent)
           /\ open.kind = KindOf(sent, n) /\ Opened(sent) /\ Bracketed(sent)
  BY <1>1, OpenKnown
<1>3. PICK es, k, type : es = sent /\ k = open.kind /\ type = "content_block_delta"
  OBVIOUS
<1>4. piece \in JSONs /\ piece # "" /\ piece \in NextJSON(Read(es, n))
      /\ Joined(Read(es, n), piece) \in JSONs
  BY <1>2, <1>3, JoinedPiece
<1>5. type \in EventTypes /\ k \in EventKinds /\ k \in BlockKinds
  BY <1>2, <1>3 DEF EventTypes, EventKinds
<1>6. PICK e : e = InputDeltaEventOf(type, k, n, piece)
  OBVIOUS
<1>7. Send(e)
  BY <1>2, <1>3, <1>6 DEF InputDeltaEventOf
<1>8. Carries(e, type, n, 0, piece, NoUsage) /\ Named(e, k, 0)
  BY <1>2, <1>4, <1>5, <1>6, InputDeltaEvent
<1>9. /\ e \in Event /\ e.type = "content_block_delta" /\ e.index = n /\ e.text = 0
      /\ e.json = piece /\ e.usage = NoUsage /\ e.kind = k /\ k \in {"tool_use", "other"}
  BY <1>3, <1>4, <1>8 DEF Carries, Named
<1>10. InBlock(es, e)
  BY <1>2, <1>3, <1>4, <1>9 DEF InBlock
<1>11. Follows(es, e)
  BY <1>9, <1>10 DEF Follows
<1>12. PICK fs : fs = Append(es, e)
  OBVIOUS
<1>13. Step(es, e, fs)
  <2>1. Formed(fs)
    BY <1>2, <1>3, <1>11, <1>12, FormedAppend
  <2> QED BY <1>2, <1>3, <1>11, <1>12, <2>1 DEF Step
<1>14. PICK x \in Nat : ContinuesBlock(es, e, fs, x)
  BY <1>9, <1>13, DeltaEffect
<1>15. /\ Count(fs) = n /\ Opened(fs) /\ KindOf(fs, n) = k
       /\ Read(fs, n) = Joined(Read(es, n), piece)
  BY <1>2, <1>3, <1>9, <1>14 DEF ContinuesBlock
<1>16. PICK j \in JSONs : j = Joined(Read(es, n), piece)
  BY <1>4
<1>17. PICK o \in [kind : BlockKinds, index : Nat, json : JSONs] : o = open
  BY <1>2
<1>18. open' = [o EXCEPT !.json = j]
  BY <1>2, <1>3, <1>16, <1>17
<1>19. /\ open' \in [kind : BlockKinds, index : Nat, json : JSONs]
       /\ open'.kind = o.kind /\ open'.index = o.index /\ open'.json = j
  BY <1>18
<1>20. o.kind = k /\ o.index = n
  BY <1>2, <1>3, <1>17
<1>21. open' # NoBlock
  BY <1>9, <1>19, <1>20, NoBlockIs
<1>22. e.index # 0
  BY <1>2, <1>9
<1> QED BY <1>2, <1>3, <1>7, <1>11, <1>12, <1>15, <1>16, <1>19, <1>20, <1>21, <1>22, InsideSent

LEMMA BlockDeltaKeeps ==
  ASSUME AnswerInv, ChannelInv, BlockDelta
  PROVE  AnswerInv' /\ ChannelInv' /\ Done = sent /\ Done' = sent
<1>1. answer = "blocks" /\ answer' = "blocks" /\ dialect = "anthropic"
  BY DEF BlockDelta
<1>2. CASE /\ open.kind \in {"text", "thinking"}
           /\ Send([Plain EXCEPT !.type = "content_block_delta", !.kind = open.kind,
                                 !.index = open.index, !.text = Serial])
           /\ UNCHANGED open
  BY <1>1, <1>2, TextDeltaSent
<1>3. CASE /\ open.kind \in {"tool_use", "other"}
           /\ \E piece \in NextJSON(open.json) :
                /\ Send([Plain EXCEPT !.type = "content_block_delta", !.kind = open.kind,
                                      !.index = open.index, !.json = piece])
                /\ open' = [open EXCEPT !.json = Joined(@, piece)]
  BY <1>1, <1>3, InputDeltaSent
<1> QED BY <1>2, <1>3 DEF BlockDelta

LEMMA BlockStopKeeps ==
  ASSUME AnswerInv, ChannelInv, BlockStop
  PROVE  AnswerInv' /\ ChannelInv' /\ Done = sent /\ Done' = sent
<1>1. /\ open # NoBlock /\ answer = "blocks" /\ answer' = "blocks" /\ dialect = "anthropic"
      /\ open' = NoBlock
  BY DEF BlockStop
<1>2. PICK n \in Nat :
           /\ n = Count(sent) /\ n > 0 /\ n # 0 /\ n # n + 1 /\ open.index = n
           /\ open \in [kind : BlockKinds, index : Nat, json : JSONs]
           /\ open.json = Read(sent, n) /\ Formed(sent)
           /\ open.kind = KindOf(sent, n) /\ Opened(sent) /\ Bracketed(sent)
  BY <1>1, OpenKnown
<1>3. PICK es, type : es = sent /\ type = "content_block_stop"
  OBVIOUS
<1>4. PICK e : e = StopEventOf(type, n)
  OBVIOUS
<1>5. Send(e)
  BY <1>2, <1>3, <1>4 DEF StopEventOf, BlockStop
<1>6. type \in EventTypes
  BY <1>3 DEF EventTypes
<1>7. Carries(e, type, n, 0, "", NoUsage)
  BY <1>2, <1>4, <1>6, StopEvent
<1>8. /\ e \in Event /\ e.type = "content_block_stop" /\ e.index = n /\ e.text = 0
      /\ e.json = "" /\ e.usage = NoUsage
  BY <1>3, <1>7 DEF Carries
<1>9. InBlock(es, e)
  BY <1>1, <1>2, <1>3, <1>8 DEF InBlock
<1>10. Follows(es, e)
  BY <1>8, <1>9 DEF Follows
<1>11. PICK fs : fs = Append(es, e)
  OBVIOUS
<1>12. Step(es, e, fs)
  <2>1. Formed(fs)
    BY <1>2, <1>3, <1>10, <1>11, FormedAppend
  <2> QED BY <1>1, <1>2, <1>3, <1>10, <1>11, <2>1 DEF Step
<1>13. PICK x \in Nat : EndsBlock(es, e, fs, x)
  BY <1>8, <1>12, StopEffect
<1>14. Count(fs) = n /\ ~Opened(fs)
  BY <1>2, <1>3, <1>13 DEF EndsBlock
<1>15. e.index # 0
  BY <1>2, <1>8
<1> QED BY <1>1, <1>2, <1>3, <1>5, <1>10, <1>11, <1>14, <1>15, InsideSent

LEMMA ToolCallStartKeeps ==
  ASSUME AnswerInv, ChannelInv, ToolCallStart
  PROVE  AnswerInv' /\ ChannelInv' /\ Done = sent /\ Done' = sent
<1>1. PICK es, m : es = sent /\ m = Count(es)
  OBVIOUS
<1>2. Formed(es) /\ es \in Seq(Event) /\ m \in Nat
  BY <1>1 DEF ChannelInv, Sound, Formed
<1>3. dialect # "anthropic" /\ answer' = "blocks"
  BY DEF ToolCallStart
<1>4. PICK piece :
        /\ piece \in {""} \cup NextJSON("")
        /\ Send([Plain EXCEPT !.type = "assistant_tool_use", !.kind = "tool_use",
                              !.index = m + 1, !.id = m + 1, !.json = piece])
        /\ open' = [kind |-> "tool_use", index |-> m + 1, json |-> piece]
  BY <1>1, BlocksCounted DEF ToolCallStart, BlocksAre
<1>5. PICK n \in Nat : n = m + 1
  BY <1>2
<1>6. PICK type, k : type = "assistant_tool_use" /\ k = "tool_use"
  OBVIOUS
<1>7. type \in EventTypes /\ k \in EventKinds /\ k \in BlockKinds /\ piece \in JSONs
  BY <1>4, <1>6 DEF EventTypes, EventKinds, BlockKinds, NextJSON, JSONs
<1>8. PICK e : e = CallEventOf(type, k, n, n, piece)
  OBVIOUS
<1>9. Send(e)
  BY <1>4, <1>5, <1>6, <1>8 DEF CallEventOf
<1>10. Carries(e, type, n, 0, piece, NoUsage) /\ Named(e, k, n)
  BY <1>5, <1>7, <1>8, CallEvent
<1>11. /\ e \in Event /\ e.type = "assistant_tool_use" /\ e.index = m + 1 /\ e.id = m + 1
       /\ e.text = 0 /\ e.json = piece /\ e.usage = NoUsage
  BY <1>5, <1>6, <1>10 DEF Carries, Named
<1>12. InCall(es, e)
  BY <1>1, <1>3, <1>4, <1>11 DEF InCall
<1>13. Follows(es, e)
  BY <1>11, <1>12 DEF Follows
<1>14. PICK fs : fs = Append(es, e)
  OBVIOUS
<1>15. n > 0 /\ n # 0
  BY <1>2, <1>5
<1>16. Count(fs) = n
  <2>1. e.index = Count(es) + 1 /\ e.index \in 0 .. Count(es) + 1
    BY <1>1, <1>2, <1>11
  <2> QED BY <1>1, <1>2, <1>5, <1>11, <1>14, <2>1, CountAppend
<1>17. Read(fs, n) = piece
  <2>1. n > Count(es)
    BY <1>1, <1>2, <1>5
  <2>2. Pieces(es, n) = {} /\ Read(es, n) = ""
    BY <1>2, <1>5, <2>1, NoPieces
  <2>3. e.index = n /\ e.json \in {""} \cup NextJSON(Read(es, n))
    BY <1>4, <1>5, <1>11, <2>2
  <2>4. "}" \in Pieces(es, n) => "{" \in Pieces(es, n)
    BY <2>2
  <2>5. Read(fs, n) = Joined(Read(es, n), e.json)
    BY <1>2, <1>11, <1>14, <2>3, <2>4, ReadAppend
  <2> QED BY <1>11, <2>2, <2>5 DEF Joined
<1>18. open' = [kind |-> k, index |-> n, json |-> piece]
  BY <1>4, <1>5, <1>6
<1>19. /\ open' \in [kind : BlockKinds, index : Nat, json : JSONs]
       /\ open'.index = n /\ open'.json = piece /\ open'.kind = "tool_use"
  BY <1>5, <1>6, <1>7, <1>18
<1>20. open' # NoBlock
  BY <1>19, NoBlockIs
<1>21. e.index # 0
  BY <1>5, <1>11, <1>15
<1> QED BY <1>1, <1>3, <1>9, <1>13, <1>14, <1>15, <1>16, <1>17, <1>19, <1>20, <1>21, InsideSent

LEMMA ToolCallDeltaKeeps ==
  ASSUME AnswerInv, ChannelInv, ToolCallDelta
  PROVE  AnswerInv' /\ ChannelInv' /\ Done = sent /\ Done' = sent
<1>1. open # NoBlock /\ dialect # "anthropic" /\ answer = "blocks" /\ answer' = "blocks"
  BY DEF ToolCallDelta
<1>2. PICK n \in Nat :
           /\ n = Count(sent) /\ n > 0 /\ n # 0 /\ n # n + 1 /\ open.index = n
           /\ open \in [kind : BlockKinds, index : Nat, json : JSONs]
           /\ open.json = Read(sent, n) /\ Formed(sent)
  BY <1>1, OpenKnown
<1>3. PICK piece \in NextJSON(open.json) :
        /\ Send([Plain EXCEPT !.type = "assistant_tool_use", !.index = open.index,
                              !.id = IF dialect = "openai_ids" THEN open.index ELSE 0,
                              !.json = piece])
        /\ open' = [open EXCEPT !.json = Joined(@, piece)]
  BY DEF ToolCallDelta
<1>4. PICK es, type, id : /\ es = sent /\ type = "assistant_tool_use"
                          /\ id = IF dialect = "openai_ids" THEN n ELSE 0
  OBVIOUS
<1>5. /\ piece \in JSONs /\ piece \in NextJSON(Read(es, n))
      /\ Joined(Read(es, n), piece) \in JSONs
  BY <1>2, <1>3, <1>4, JoinedPiece
<1>6. type \in EventTypes /\ id \in Nat
  BY <1>2, <1>4 DEF EventTypes
<1>7. PICK e : e = PieceEventOf(type, n, id, piece)
  OBVIOUS
<1>8. Send(e)
  BY <1>2, <1>3, <1>4, <1>7 DEF PieceEventOf
<1>9. Carries(e, type, n, 0, piece, NoUsage) /\ Named(e, "none", id)
  BY <1>2, <1>5, <1>6, <1>7, PieceEvent
<1>10. /\ e \in Event /\ e.type = "assistant_tool_use" /\ e.index = n /\ e.text = 0
       /\ e.json = piece /\ e.usage = NoUsage /\ (dialect = "openai_ids" => e.id = n)
  BY <1>4, <1>9 DEF Carries, Named
<1>11. InCall(es, e)
  BY <1>1, <1>2, <1>4, <1>5, <1>10 DEF InCall
<1>12. Follows(es, e)
  BY <1>10, <1>11 DEF Follows
<1>13. PICK fs : fs = Append(es, e)
  OBVIOUS
<1>14. Count(fs) = n
  <2>1. e.index # Count(es) + 1 /\ e.index \in 0 .. Count(es) + 1
    BY <1>2, <1>4, <1>10
  <2> QED BY <1>2, <1>4, <1>10, <1>13, <2>1, CountAppend
<1>15. Read(fs, n) = Joined(Read(es, n), piece)
  <2>1. "}" \in Pieces(es, n) => "{" \in Pieces(es, n)
    <3>1. n \in 1 .. Count(es)
      BY <1>2, <1>4
    <3> QED BY <1>2, <1>4, <3>1 DEF Formed
  <2>2. e.json \in {""} \cup NextJSON(Read(es, n)) /\ es \in Seq(Event)
    BY <1>2, <1>4, <1>5, <1>10 DEF Formed
  <2> QED BY <1>10, <1>13, <2>1, <2>2, ReadAppend
<1>16. PICK j \in JSONs : j = Joined(Read(es, n), piece)
  BY <1>5
<1>17. PICK o \in [kind : BlockKinds, index : Nat, json : JSONs] : o = open
  BY <1>2
<1>18. open' = [o EXCEPT !.json = j]
  BY <1>2, <1>3, <1>4, <1>16, <1>17
<1>19. /\ open' \in [kind : BlockKinds, index : Nat, json : JSONs]
       /\ open'.index = o.index /\ open'.json = j
  BY <1>18
<1>20. o.index = n
  BY <1>2, <1>17
<1>21. e.index # 0
  BY <1>2, <1>10
<1> QED BY <1>1, <1>2, <1>4, <1>8, <1>12, <1>13, <1>14, <1>15, <1>16, <1>19, <1>20, <1>21,
           InsideSent

-----------------------------------------------------------------------------
(* The end of the stream: the text and the call under way are added.       *)
TextAdded(p) ==
  IF p.currentText # <<>> THEN Append(p.content, Block("text", p.currentText, 0, "none"))
  ELSE p.content
Flushed(p, q) ==
  /\ Calls(q.out) = Calls(q.content) /\ TextOf(q.out) = TextOf(q.content)
  /\ q.hasToolUse <=> Calls(q.content) # <<>>
  /\ q.currentUsage = p.currentUsage
  /\ TextOf(q.content) = TextOf(p.content) \o p.currentText
  /\ q.content = IF p.currentToolUse = <<>> THEN TextAdded(p)
                 ELSE Append(TextAdded(p), CallUnder(p))
  /\ Calls(q.content) = IF p.currentToolUse = <<>> THEN Calls(p.content)
                        ELSE Append(Calls(p.content), CallUnder(p))

LEMMA Flushing ==
  ASSUME NEW p \in Parsers, Reported(p), NEW q, q = FlushOpenAI(p)
  PROVE  Flushed(p, q)
<1>1. PICK t : t = IF p.currentText # <<>> THEN AddText(p) ELSE p
  OBVIOUS
<1>2. /\ t \in Parsers /\ Reported(t) /\ t.currentText = <<>> /\ t.content = TextAdded(p)
      /\ TextOf(t.content) = TextOf(p.content) \o p.currentText
      /\ Calls(t.content) = Calls(p.content)
      /\ t.currentToolUse = p.currentToolUse /\ t.currentToolInputJSON = p.currentToolInputJSON
      /\ t.currentUsage = p.currentUsage
  <2>1. CASE p.currentText # <<>>
    <3>1. TextMoved(p, t)
      BY <1>1, <2>1, AddTextIs
    <3>2. /\ Reported(t) /\ Calls(t.content) = Calls(p.content)
          /\ TextOf(t.content) = TextOf(p.content) \o p.currentText
      BY <3>1, TextMovedReported
    <3> QED BY <2>1, <3>1, <3>2 DEF TextMoved, TextAdded
  <2>2. CASE p.currentText = <<>>
    <3>1. t = p
      BY <1>1, <2>2
    <3>2. TextOf(p.content) \o <<>> = TextOf(p.content)
      <4>1. p.content \in Seq(Content)
        BY ParserFields
      <4>2. TextOf(p.content) \in Seq(Nat)
        BY <4>1, TextTyped
      <4> QED BY <4>2, ConcatEmptySeq
    <3> QED BY <2>2, <3>1, <3>2 DEF TextAdded
  <2> QED BY <2>1, <2>2
<1>3. PICK r : r = FinalizeToolUse(t)
  OBVIOUS
<1>4. CallUnder(t) = CallUnder(p)
  BY <1>2 DEF CallUnder
<1>5. /\ r \in Parsers /\ Reported(r) /\ r.currentText = <<>> /\ r.currentUsage = p.currentUsage
      /\ TextOf(r.content) = TextOf(t.content)
      /\ r.content = IF p.currentToolUse = <<>> THEN TextAdded(p)
                     ELSE Append(TextAdded(p), CallUnder(p))
      /\ Calls(r.content) = IF p.currentToolUse = <<>> THEN Calls(p.content)
                            ELSE Append(Calls(p.content), CallUnder(p))
  <2>1. CASE p.currentToolUse = <<>>
    <3>1. t.currentToolUse = <<>>
      BY <1>2, <2>1
    <3>2. r = t
      BY <1>2, <1>3, <3>1, FinalizeIs
    <3> QED BY <1>2, <2>1, <3>2
  <2>2. CASE p.currentToolUse # <<>>
    <3>1. t.currentToolUse # <<>>
      BY <1>2, <2>2
    <3>2. CallMoved(t, r, CallUnder(t))
      BY <1>2, <1>3, <3>1, FinalizeIs
    <3>3. /\ Reported(r) /\ Calls(r.content) = Append(Calls(t.content), CallUnder(t))
          /\ TextOf(r.content) = TextOf(t.content)
      BY <1>2, <3>2, CallMovedReported
    <3>4. /\ r \in Parsers /\ r.currentText = t.currentText /\ r.currentUsage = t.currentUsage
          /\ r.content = Append(t.content, CallUnder(t))
      BY <3>2 DEF CallMoved
    <3> QED BY <1>2, <1>4, <2>2, <3>3, <3>4
  <2> QED BY <2>1, <2>2
<1>6. PICK j : j = IF t.currentToolUse # <<>> THEN "" ELSE r.currentToolInputJSON
  OBVIOUS
<1>7. q = [r EXCEPT !.currentToolInputJSON = j]
  BY <1>1, <1>3, <1>6 DEF FlushOpenAI
<1>8. /\ q.content = r.content /\ q.out = r.out /\ q.hasToolUse = r.hasToolUse
      /\ q.currentUsage = r.currentUsage
  BY <1>5, <1>7 DEF Parsers
<1>9. /\ Calls(r.out) = Calls(r.content) /\ TextOf(r.out) = TextOf(r.content) \o <<>>
      /\ (r.hasToolUse <=> Calls(r.content) # <<>>)
  BY <1>5 DEF Reported
<1>10. TextOf(r.content) \o <<>> = TextOf(r.content)
  <2>1. r.content \in Seq(Content)
    BY <1>5, ParserFields
  <2>2. TextOf(r.content) \in Seq(Nat)
    BY <2>1, TextTyped
  <2> QED BY <2>2, ConcatEmptySeq
<1> QED BY <1>2, <1>5, <1>8, <1>9, <1>10 DEF Flushed

(* All calls of an answer, and all of its blocks, are there at its end.    *)
LEMMA AllCalls ==
  ASSUME NEW es, Formed(es), NEW p, CallsRead(es, p), NEW q, Flushed(p, q)
  PROVE  Calls(q.content) = CallsOfAnswer(es, Count(es))
<1>1. PICK n \in Nat : n = Count(es)
  BY DEF Formed
<1>2. Calls(q.content) = IF p.currentToolUse = <<>> THEN Calls(p.content)
                         ELSE Append(Calls(p.content), CallUnder(p))
  BY DEF Flushed
<1>3. CASE n = 0
  <2>1. p.currentToolUse = <<>> /\ Calls(p.content) = <<>>
    BY <1>1, <1>3 DEF CallsRead
  <2>2. CallsOfAnswer(es, 0) = <<>>
    BY DEF CallsOfAnswer
  <2> QED BY <1>1, <1>2, <1>3, <2>1, <2>2
<1>4. CASE n # 0
  <2>1. /\ p.currentToolUse = <<[id |-> n, input |-> "nil"]>>
        /\ p.currentToolInputJSON = Read(es, n)
        /\ Calls(p.content) = CallsOfAnswer(es, n - 1)
    BY <1>1, <1>4 DEF CallsRead
  <2>2. p.currentToolUse # <<>> /\ p.currentToolUse[1] = [id |-> n, input |-> "nil"]
    BY <2>1, Single
  <2>3. CallUnder(p) = Block("tool_use", <<>>, n, InputOf(es, n, "nil"))
    BY <2>1, <2>2, CallUnderIs
  <2>4. CallsOfAnswer(es, n) = Append(CallsOfAnswer(es, n - 1), CallUnder(p))
    BY <1>4, <2>3, CallsStep
  <2> QED BY <1>1, <1>2, <2>1, <2>2, <2>4
<1> QED BY <1>3, <1>4

LEMMA AllBlocks ==
  ASSUME NEW es, Formed(es), NEW p \in Parsers, BlocksRead(es, p), NEW q, Flushed(p, q)
  PROVE  q.content = BlocksOfAnswer(es, Count(es))
<1>1. PICK n \in Nat : n = Count(es)
  BY DEF Formed
<1>2. q.content = IF p.currentToolUse = <<>> THEN TextAdded(p)
                  ELSE Append(TextAdded(p), CallUnder(p))
  BY DEF Flushed
<1>3. CASE ~Opened(es)
  <2>1. p.content = BlocksOfAnswer(es, n) /\ p.currentText = <<>> /\ p.currentToolUse = <<>>
    BY <1>1, <1>3 DEF BlocksRead
  <2> QED BY <1>1, <1>2, <2>1 DEF TextAdded
<1>4. CASE Opened(es)
  <2>1. PICK k : k = KindOf(es, n)
    OBVIOUS
  <2>2. n > 0 /\ ~IsClosed(es, n)
    BY <1>1, <1>4 DEF Opened
  <2>3. /\ p.content = BlocksOfAnswer(es, n - 1)
        /\ p.currentText = IF k = "text" THEN TextsOf(es, n) ELSE <<>>
        /\ p.currentToolUse = IF k = "tool_use" THEN <<[id |-> n, input |-> "start"]>> ELSE <<>>
        /\ k = "tool_use" => p.currentToolInputJSON = Read(es, n)
    BY <1>1, <1>4, <2>1 DEF BlocksRead
  <2>4. p.content \in Seq(Content)
    BY ParserFields
  <2>5. BlocksOfAnswer(es, n) = p.content \o BlockKept(es, n)
    <3>1. n - 1 \in Nat /\ (n - 1) + 1 = n
      BY <2>2
    <3>2. PICK m \in Nat : m = n - 1
      BY <3>1
    <3>3. BlocksOfAnswer(es, m + 1) = BlocksOfAnswer(es, m) \o BlockKept(es, m + 1)
      BY BlocksStep
    <3> QED BY <2>3, <3>1, <3>2, <3>3
  <2>6. Keeps(es, n) <=> (k = "tool_use" \/ (k = "text" /\ TextsOf(es, n) # <<>>))
    BY <2>1, <2>2 DEF Keeps
  <2>7. ASSUME NEW b \in Content, BlockKept(es, n) = <<b>>
        PROVE  BlocksOfAnswer(es, n) = Append(p.content, b)
    <3>1. Append(p.content, b) = p.content \o <<b>>
      BY <2>4, AppendIsConcat
    <3> QED BY <2>5, <2>7, <3>1
  <2>8. CASE k = "tool_use"
    <3>1. p.currentToolUse = <<[id |-> n, input |-> "start"]>> /\ p.currentText = <<>>
          /\ p.currentToolInputJSON = Read(es, n)
      BY <2>3, <2>8
    <3>2. p.currentToolUse # <<>> /\ p.currentToolUse[1] = [id |-> n, input |-> "start"]
      BY <3>1, Single
    <3>3. CallUnder(p) = Block("tool_use", <<>>, n, InputOf(es, n, "start"))
      BY <3>1, <3>2, CallUnderIs
    <3>4. BlockKept(es, n) = <<CallUnder(p)>>
      <4>1. AnswerBlock(es, n) = Block("tool_use", <<>>, n, InputOf(es, n, "start"))
        BY <2>1, <2>8 DEF AnswerBlock
      <4> QED BY <2>6, <2>8, <3>3, <4>1 DEF BlockKept
    <3>5. CallUnder(p) \in Content
      <4>1. CallMoved(p, FinalizeToolUse(p), CallUnder(p))
        BY <3>2, FinalizeIs
      <4> QED BY <4>1 DEF CallMoved
    <3>6. BlocksOfAnswer(es, n) = Append(p.content, CallUnder(p))
      BY <2>7, <3>4, <3>5
    <3>7. TextAdded(p) = p.content
      BY <3>1 DEF TextAdded
    <3> QED BY <1>1, <1>2, <3>2, <3>6, <3>7
  <2>9. CASE k = "text" /\ TextsOf(es, n) # <<>>
    <3>1. p.currentToolUse = <<>> /\ p.currentText = TextsOf(es, n) /\ p.currentText # <<>>
      BY <2>3, <2>9
    <3>2. PICK b : b = Block("text", p.currentText, 0, "none")
      OBVIOUS
    <3>3. BlockKept(es, n) = <<b>>
      <4>1. AnswerBlock(es, n) = b
        BY <2>1, <2>9, <3>1, <3>2 DEF AnswerBlock
      <4> QED BY <2>6, <2>9, <4>1 DEF BlockKept
    <3>4. b \in Content
      <4>1. p.currentText \in Seq(Nat) /\ "text" \in BlockKinds
        BY ParserFields DEF BlockKinds
      <4> QED BY <3>2, <4>1, BlockTyped
    <3>5. BlocksOfAnswer(es, n) = Append(p.content, b)
      BY <2>7, <3>3, <3>4
    <3>6. TextAdded(p) = Append(p.content, b)
      BY <3>1, <3>2 DEF TextAdded
    <3> QED BY <1>1, <1>2, <3>1, <3>5, <3>6
  <2>10. CASE k # "tool_use" /\ ~(k = "text" /\ TextsOf(es, n) # <<>>)
    <3>1. p.currentToolUse = <<>> /\ p.currentText = <<>>
      BY <2>3, <2>10
    <3>2. BlockKept(es, n) = <<>>
      BY <2>6, <2>10 DEF BlockKept
    <3>3. BlocksOfAnswer(es, n) = p.content
      BY <2>4, <2>5, <3>2, ConcatEmptySeq
    <3> QED BY <1>1, <1>2, <3>1, <3>3 DEF TextAdded
  <2> QED BY <2>8, <2>9, <2>10
<1> QED BY <1>3, <1>4

-----------------------------------------------------------------------------
(* The invariant holds when the request is made.                           *)
LEMMA NothingSent ==
  /\ Formed(<<>>) /\ Count(<<>>) = 0 /\ ~Opened(<<>>) /\ ~Started(<<>>) /\ Sound(<<>>)
<1>1. ToSet(<<>>) = {}
  BY DEF ToSet
<1>2. Indices(<<>>) = 1 .. 0
  BY <1>1 DEF Indices
<1>3. Count(<<>>) = 0
  BY <1>2, CountIs
<1>4. <<>> \in Seq(Event)
  BY EmptyTyped
<1>5. Formed(<<>>)
  <2>1. 0 \in Nat /\ \A i \in 1 .. 0 : FALSE
    OBVIOUS
  <2>2. \A i \in 1 .. Count(<<>>) : FALSE
    BY <1>3, <2>1
  <2> QED BY <1>2, <1>3, <1>4, <2>1, <2>2 DEF Formed
<1>6. ~Opened(<<>>) /\ ~Started(<<>>)
  BY <1>1, <1>3 DEF Opened, Started
<1>7. Bracketed(<<>>)
  BY <1>1, <1>3 DEF Bracketed
<1> QED BY <1>3, <1>5, <1>6, <1>7 DEF Sound

LEMMA NewParserParsed == Parsed(<<>>, NewParser)
<1>1. /\ <<>> \in Seq(Nat) /\ <<>> \in Seq(Tools) /\ <<>> \in Seq(Content)
      /\ NoUsage \in Usages /\ "" \in JSONs
  BY EmptyTyped DEF NoUsage, Usages, JSONs
<1>2. NewParser \in Parsers
  BY <1>1 DEF NewParser, Parsers
<1>3. /\ NewParser.currentText = <<>> /\ NewParser.currentToolUse = <<>>
      /\ NewParser.content = <<>> /\ NewParser.out = <<>> /\ NewParser.hasToolUse = FALSE
      /\ NewParser.currentBlockType = "none"
  BY DEF NewParser
<1>4. Calls(<<>>) = <<>> /\ TextOf(<<>>) = <<>>
  BY ContentEmpty
<1>5. Reported(NewParser)
  <2>1. <<>> \o <<>> = <<>>
    BY <1>1, ConcatEmptySeq
  <2> QED BY <1>3, <1>4, <2>1 DEF Reported
<1>6. Counted(<<>>, NewParser)
  <2>1. ToSet(<<>>) = {}
    BY DEF ToSet
  <2> QED BY <2>1, NothingSent DEF Counted
<1>7. TextRead(<<>>, NewParser)
  BY <1>3, <1>4, TextsEmpty DEF TextRead
<1>8. CallsRead(<<>>, NewParser)
  BY <1>3, <1>4, NothingSent DEF CallsRead
<1>9. BlocksRead(<<>>, NewParser)
  BY <1>3, NothingSent, BlocksNone DEF BlocksRead
<1> QED BY <1>2, <1>5, <1>6, <1>7, <1>8, <1>9 DEF Parsed

LEMMA InitInv == Init => Inv
<1> SUFFICES ASSUME Init PROVE Inv
  OBVIOUS
<1>1. /\ dialect \in Dialects /\ answer = "none" /\ open = NoBlock /\ sent = <<>> /\ ch = <<>>
      /\ sp = NewParser /\ outcome = "reading"
  BY DEF Init
<1>2. OpenIs
  BY <1>1, NothingSent DEF OpenIs
<1>3. AnswerInv
  BY <1>1, <1>2, DialectsAssumption DEF AnswerInv
<1>4. ChannelInv
  BY <1>1, NothingSent DEF ChannelInv
<1>5. ParserInv
  BY <1>1, NewParserParsed DEF ParserInv, Done, MessageFaithful
<1> QED BY <1>3, <1>4, <1>5 DEF Inv

-----------------------------------------------------------------------------
(* It holds after every step.                                              *)
LEMMA ParserFrame ==
  ASSUME ParserInv, UNCHANGED <<dialect, sp, outcome>>, Done' = Done, outcome # "message"
  PROVE  ParserInv'
<1>1. PICK es, p : es = Done /\ p = sp
  OBVIOUS
<1>2. outcome = "reading" => Parsed(es, p)
  BY <1>1 DEF ParserInv
<1>3. Parsed(es, p)' <=> Parsed(es, p)
  BY ParsedPrimed
<1>4. outcome' = "reading" => Parsed(Done, sp)'
  BY <1>1, <1>2, <1>3
<1>5. outcome' # "message" /\ MessageFaithful'
  BY DEF MessageFaithful
<1> QED BY <1>4, <1>5 DEF ParserInv

LEMMA ParserTook ==
  ASSUME NEW es, NEW p, Parsed(es, p), Done' = es, sp' = p, dialect' = dialect,
         outcome' = "reading"
  PROVE  ParserInv'
<1>1. Parsed(es, p)'
  BY ParsedPrimed
<1>2. Parsed(Done, sp)'
  BY <1>1
<1>3. outcome' # "message" /\ MessageFaithful'
  BY DEF MessageFaithful
<1> QED BY <1>2, <1>3 DEF ParserInv

LEMMA ParserLeft ==
  ASSUME outcome' \notin {"reading", "message"}
  PROVE  ParserInv'
BY DEF ParserInv, MessageFaithful

(* The loop takes an event.                                                *)
LEMMA TakesFacts ==
  ASSUME Inv, NEW types, Takes(types)
  PROVE  \E es, e, fs, p :
           /\ es = Done /\ e = Head(ch) /\ fs = sent /\ p = sp
           /\ Reads(es, e, fs, p) /\ e.type \in types
           /\ AnswerInv' /\ ChannelInv' /\ Done' = fs /\ dialect' = dialect
           /\ outcome = "reading"
<1>1. /\ outcome = "reading" /\ ch # <<>> /\ Head(ch).type \in types /\ ch' = <<>>
      /\ UNCHANGED <<dialect, answer, open, sent>>
  BY DEF Takes, provider
<1>2. AnswerInv /\ ChannelInv /\ Parsed(Done, sp)
  BY <1>1 DEF Inv, ParserInv
<1>3. Reads(Done, Head(ch), sent, sp)
  BY <1>1, <1>2, TakeReads
<1>4. ChannelInv' /\ Done' = sent
  BY <1>1, <1>2, TakeKeeps
<1>5. OpenIs'
  <2>1. OpenIs
    BY <1>2 DEF AnswerInv
  <2> QED BY <1>1, <2>1 DEF OpenIs
<1>6. AnswerInv'
  BY <1>1, <1>2, <1>5 DEF AnswerInv
<1> QED BY <1>1, <1>3, <1>4, <1>6

LEMMA OnUsageKeeps ==
  ASSUME Inv, OnUsage
  PROVE  Inv'
<1>1. Takes({"message_start", "usage", "message_delta", "message_stop"})
  BY DEF OnUsage
<1>2. PICK es, e, fs, p :
        /\ es = Done /\ e = Head(ch) /\ fs = sent /\ p = sp
        /\ Reads(es, e, fs, p)
        /\ e.type \in {"message_start", "usage", "message_delta", "message_stop"}
        /\ AnswerInv' /\ ChannelInv' /\ Done' = fs /\ dialect' = dialect
        /\ outcome = "reading"
  BY <1>1, TakesFacts
<1>3. PICK q : q = sp'
  OBVIOUS
<1>4. q = [p EXCEPT !.currentUsage = MergeUsage(@, e.usage)] /\ outcome' = "reading"
  BY <1>2, <1>3 DEF OnUsage
<1>5. Parsed(fs, q)
  BY <1>2, <1>4, UsageParsed
<1>6. ParserInv'
  BY <1>2, <1>3, <1>4, <1>5, ParserTook
<1> QED BY <1>2, <1>6 DEF Inv

LEMMA OnBlockStartKeeps ==
  ASSUME Inv, OnBlockStart
  PROVE  Inv'
<1>1. Takes({"content_block_start"})
  BY DEF OnBlockStart
<1>2. PICK es, e, fs, p :
        /\ es = Done /\ e = Head(ch) /\ fs = sent /\ p = sp
        /\ Reads(es, e, fs, p) /\ e.type \in {"content_block_start"}
        /\ AnswerInv' /\ ChannelInv' /\ Done' = fs /\ dialect' = dialect
        /\ outcome = "reading"
  BY <1>1, TakesFacts
<1>3. PICK q, r : q = sp' /\ r = [p EXCEPT !.currentBlockType = e.kind]
  OBVIOUS
<1>4. /\ q = CASE e.kind = "text" -> [r EXCEPT !.currentText = <<>>]
               [] e.kind = "tool_use" ->
                    [r EXCEPT !.currentToolUse = <<[id |-> e.id, input |-> "start"]>>,
                              !.currentToolInputJSON = ""]
               [] e.kind = "thinking" -> [r EXCEPT !.currentThinking = <<>>]
               [] e.kind = "redacted_thinking" -> [r EXCEPT !.currentRedacted = e.text]
               [] OTHER -> r
      /\ outcome' = "reading"
  BY <1>2, <1>3 DEF OnBlockStart
<1>5. p \in Parsers /\ e \in Event /\ e.kind \in BlockKinds
  <2>1. InBlock(es, e)
    BY <1>2 DEF Reads, Follows, InNoBlock, InCall
  <2>2. e.kind \in BlockKinds
    BY <1>2, <2>1 DEF InBlock
  <2> QED BY <1>2, <2>2, ReadsFacts
<1>6. BlockOpened(p, q, e)
  BY <1>3, <1>4, <1>5, BlockOpenedIs
<1>7. Parsed(fs, q)
  BY <1>2, <1>6, StartParsed
<1>8. ParserInv'
  BY <1>2, <1>3, <1>4, <1>7, ParserTook
<1> QED BY <1>2, <1>8 DEF Inv

LEMMA OnBlockDeltaKeeps ==
  ASSUME Inv, OnBlockDelta
  PROVE  Inv'
<1>1. Takes({"content_block_delta"})
  BY DEF OnBlockDelta
<1>2. PICK es, e, fs, p :
        /\ es = Done /\ e = Head(ch) /\ fs = sent /\ p = sp
        /\ Reads(es, e, fs, p) /\ e.type \in {"content_block_delta"}
        /\ AnswerInv' /\ ChannelInv' /\ Done' = fs /\ dialect' = dialect
        /\ outcome = "reading"
  BY <1>1, TakesFacts
<1>3. PICK q : q = sp'
  OBVIOUS
<1>4. q = Grown(p, e) /\ outcome' = "reading"
  BY <1>2, <1>3 DEF OnBlockDelta, Grown
<1>5. Parsed(fs, q)
  BY <1>2, <1>4, DeltaParsed
<1>6. ParserInv'
  BY <1>2, <1>3, <1>4, <1>5, ParserTook
<1> QED BY <1>2, <1>6 DEF Inv

LEMMA OnBlockStopKeeps ==
  ASSUME Inv, OnBlockStop
  PROVE  Inv'
<1>1. Takes({"content_block_stop"})
  BY DEF OnBlockStop
<1>2. PICK es, e, fs, p :
        /\ es = Done /\ e = Head(ch) /\ fs = sent /\ p = sp
        /\ Reads(es, e, fs, p) /\ e.type \in {"content_block_stop"}
        /\ AnswerInv' /\ ChannelInv' /\ Done' = fs /\ dialect' = dialect
        /\ outcome = "reading"
  BY <1>1, TakesFacts
<1>3. PICK q, r : q = sp' /\ r = Stopped(p)
  OBVIOUS
<1>4. q = [r EXCEPT !.currentBlockType = "none"] /\ outcome' = "reading"
  BY <1>2, <1>3 DEF OnBlockStop, Stopped
<1>5. Parsed(fs, q)
  BY <1>2, <1>3, <1>4, StopParsed
<1>6. ParserInv'
  BY <1>2, <1>3, <1>4, <1>5, ParserTook
<1> QED BY <1>2, <1>6 DEF Inv

LEMMA OnTextKeeps ==
  ASSUME Inv, OnText
  PROVE  Inv'
<1>1. Takes({"assistant_text"})
  BY DEF OnText
<1>2. PICK es, e, fs, p :
        /\ es = Done /\ e = Head(ch) /\ fs = sent /\ p = sp
        /\ Reads(es, e, fs, p) /\ e.type \in {"assistant_text"}
        /\ AnswerInv' /\ ChannelInv' /\ Done' = fs /\ dialect' = dialect
        /\ outcome = "reading"
  BY <1>1, TakesFacts
<1>3. PICK q : q = sp'
  OBVIOUS
<1>4. /\ q = [p EXCEPT !.currentText = Append(@, e.text), !.out = Shown(p, e)]
      /\ outcome' = "reading"
  BY <1>2, <1>3 DEF OnText
<1>5. Parsed(fs, q)
  BY <1>2, <1>4, TextParsed
<1>6. ParserInv'
  BY <1>2, <1>3, <1>4, <1>5, ParserTook
<1> QED BY <1>2, <1>6 DEF Inv

LEMMA OnToolUseKeeps ==
  ASSUME Inv, OnToolUse
  PROVE  Inv'
<1>1. Takes({"assistant_tool_use"})
  BY DEF OnToolUse
<1>2. PICK es, e, fs, p :
        /\ es = Done /\ e = Head(ch) /\ fs = sent /\ p = sp
        /\ Reads(es, e, fs, p) /\ e.type \in {"assistant_tool_use"}
        /\ AnswerInv' /\ ChannelInv' /\ Done' = fs /\ dialect' = dialect
        /\ outcome = "reading"
  BY <1>1, TakesFacts
<1>3. PICK q : q = sp'
  OBVIOUS
<1>4. /\ q = IF p.currentToolUse # <<>> /\ Head(p.currentToolUse).id = e.id
             THEN [p EXCEPT !.currentToolInputJSON = Joined(@, e.json)]
             ELSE [FinalizeToolUse(p) EXCEPT
                     !.currentToolUse = <<[id |-> e.id, input |-> "nil"]>>,
                     !.currentToolInputJSON = e.json]
      /\ outcome' = "reading"
  BY <1>2, <1>3 DEF OnToolUse
<1>5. Parsed(fs, q)
  BY <1>2, <1>4, ToolParsed
<1>6. ParserInv'
  BY <1>2, <1>3, <1>4, <1>5, ParserTook
<1> QED BY <1>2, <1>6 DEF Inv

LEMMA LoopLeftKeeps ==
  ASSUME Inv, OnError \/ Abort \/ RequestFails
  PROVE  Inv'
<1>1. outcome' \notin {"reading", "message"}
  BY DEF OnError, Abort, RequestFails
<1>2. ParserInv'
  BY <1>1, ParserLeft
<1>3. UNCHANGED <<dialect, answer, open, sent>>
  BY DEF OnError, Abort, RequestFails, Takes, provider
<1>4. (ch # <<>> /\ ch' = <<>>) \/ ch' = ch
  BY DEF OnError, Abort, RequestFails, Takes
<1>5. AnswerInv /\ ChannelInv
  BY DEF Inv
<1>6. ChannelInv'
  <2>1. CASE ch # <<>> /\ ch' = <<>>
    BY <1>3, <1>5, <2>1, TakeKeeps
  <2>2. CASE ch' = ch
    BY <1>3, <1>5, <2>2, ChannelFrame
  <2> QED BY <1>4, <2>1, <2>2
<1>7. OpenIs'
  <2>1. OpenIs
    BY <1>5 DEF AnswerInv
  <2> QED BY <1>3, <2>1 DEF OpenIs
<1>8. AnswerInv'
  BY <1>3, <1>4, <1>5, <1>7 DEF AnswerInv
<1> QED BY <1>2, <1>6, <1>8 DEF Inv

(* The channel is closed: the message is the answer.                       *)
LEMMA StreamOverKeeps ==
  ASSUME Inv, StreamOver
  PROVE  Inv'
<1>1. /\ outcome = "reading" /\ answer = "closed" /\ ch = <<>>
      /\ sp' = FlushOpenAI(sp) /\ outcome' = "message"
      /\ UNCHANGED <<dialect, answer, open, sent, ch>>
  BY DEF StreamOver, provider
<1>2. AnswerInv /\ ChannelInv /\ Parsed(sent, sp)
  BY <1>1 DEF Inv, ParserInv, Done
<1>3. PICK es, p, q : es = sent /\ p = sp /\ q = sp'
  OBVIOUS
<1>4. /\ p \in Parsers /\ Reported(p) /\ Counted(es, p)
      /\ dialect # "anthropic" => TextRead(es, p)
      /\ dialect = "openai_ids" => CallsRead(es, p)
      /\ dialect = "anthropic" => BlocksRead(es, p)
  BY <1>2, <1>3 DEF Parsed
<1>5. Formed(es)
  BY <1>2, <1>3 DEF ChannelInv, Sound
<1>6. Flushed(p, q)
  BY <1>1, <1>3, <1>4, Flushing
<1>7. Blocks' = Count(es)
  BY <1>1, <1>3 DEF Blocks, Count, Indices
<1>8. dialect = "anthropic" => q.content = BlocksOfAnswer(es, Count(es))
  BY <1>4, <1>5, <1>6, AllBlocks
<1>9. dialect = "openai_ids" => Calls(q.content) = CallsOfAnswer(es, Count(es))
  BY <1>4, <1>5, <1>6, AllCalls
<1>10. dialect # "anthropic" => TextOf(q.content) = TextsOf(es, 0)
  <2>1. TextOf(q.content) = TextOf(p.content) \o p.currentText
    BY <1>6 DEF Flushed
  <2>2. <<>> \o p.currentText = p.currentText
    <3>1. p.currentText \in Seq(Nat)
      BY <1>4, ParserFields
    <3> QED BY <3>1, ConcatEmptySeq
  <2> QED BY <1>4, <2>1, <2>2 DEF TextRead
<1>11. /\ Calls(q.out) = Calls(q.content) /\ TextOf(q.out) = TextOf(q.content)
       /\ (q.hasToolUse <=> Calls(q.content) # <<>>)
       /\ q.currentUsage = p.currentUsage
  BY <1>6 DEF Flushed
<1>12. \A e \in ToSet(es) : e.usage.out = 2 => q.currentUsage = [in |-> 2, out |-> 2]
  BY <1>4, <1>11 DEF Counted
<1>13. sent' = es /\ sp' = q /\ dialect' = dialect
  BY <1>1, <1>3
<1>14. MessageFaithful'
  BY <1>7, <1>8, <1>9, <1>10, <1>11, <1>12, <1>13 DEF MessageFaithful
<1>15. ParserInv'
  BY <1>1, <1>14 DEF ParserInv
<1>16. ChannelInv'
  BY <1>1, <1>2, ChannelFrame
<1>17. OpenIs'
  <2>1. OpenIs
    BY <1>2 DEF AnswerInv
  <2> QED BY <1>1, <2>1 DEF OpenIs
<1>18. AnswerInv'
  BY <1>1, <1>2, <1>17 DEF AnswerInv
<1> QED BY <1>15, <1>16, <1>18 DEF Inv

(* The steps of the request and of the context.                            *)
LEMMA RequestKeeps ==
  ASSUME Inv, OpenStream \/ UseFallback \/ StreamEnds \/ CancelContext
  PROVE  Inv'
<1>1. AnswerInv /\ ChannelInv /\ ParserInv
  BY DEF Inv
<1>2. UNCHANGED <<dialect, open, sent, ch, outcome>>
  BY DEF OpenStream, UseFallback, StreamEnds, CancelContext
<1>3. ChannelInv' /\ Done' = Done
  BY <1>1, <1>2, ChannelFrame
<1>4. OpenIs'
  <2>1. OpenIs
    BY <1>1 DEF AnswerInv
  <2> QED BY <1>2, <2>1 DEF OpenIs
<1>5. CASE OpenStream
  <2>1. outcome = "reading" /\ answer = "none" /\ answer' = "start" /\ sp' = NewParser
    BY <1>5 DEF OpenStream
  <2>2. sent = <<>> /\ ch = <<>> /\ open = NoBlock
    BY <1>1, <2>1 DEF AnswerInv
  <2>3. Done' = <<>>
    BY <1>2, <2>2 DEF Done
  <2>4. ParserInv'
    BY <1>2, <2>1, <2>3, NewParserParsed, ParserTook
  <2>5. AnswerInv'
    BY <1>1, <1>2, <1>4, <2>1, <2>2 DEF AnswerInv
  <2> QED BY <1>3, <2>4, <2>5 DEF Inv
<1>6. CASE UseFallback \/ StreamEnds \/ CancelContext
  <2>1. UNCHANGED sp /\ (answer' = answer \/ answer' = "closed")
    BY <1>6 DEF UseFallback, StreamEnds, CancelContext
  <2>2. outcome # "message"
    BY <1>1, <1>6 DEF ParserInv, UseFallback, StreamEnds, CancelContext
  <2>3. ParserInv'
    BY <1>1, <1>2, <1>3, <2>1, <2>2, ParserFrame
  <2>4. AnswerInv'
    BY <1>1, <1>2, <1>4, <2>1 DEF AnswerInv
  <2> QED BY <1>3, <2>3, <2>4 DEF Inv
<1> QED BY <1>5, <1>6

(* The steps of the provider.                                              *)
LEMMA ProviderKeeps ==
  ASSUME Inv, \/ MessageStart \/ BlockStart \/ BlockDelta \/ BlockStop \/ TextDelta
              \/ ToolCallStart \/ ToolCallDelta \/ MessageDelta \/ LastEvent \/ StreamError
  PROVE  Inv'
<1>1. AnswerInv /\ ChannelInv /\ ParserInv
  BY DEF Inv
<1>2. AnswerInv' /\ ChannelInv' /\ Done = sent /\ Done' = sent
  BY <1>1, MessageStartKeeps, BlockStartKeeps, BlockDeltaKeeps, BlockStopKeeps, TextDeltaKeeps,
     ToolCallStartKeeps, ToolCallDeltaKeeps, MessageDeltaKeeps, LastEventKeeps, StreamErrorKeeps
<1>3. answer # "closed" /\ UNCHANGED <<dialect, sp, outcome>>
  <2>1. \E e : Send(e)
    BY DEF MessageStart, BlockStart, BlockDelta, BlockStop, TextDelta, ToolCallStart,
           ToolCallDelta, MessageDelta, LastEvent, StreamError
  <2>2. answer # "closed"
    BY DEF MessageStart, BlockStart, BlockDelta, BlockStop, TextDelta, ToolCallStart,
           ToolCallDelta, MessageDelta, LastEvent, StreamError
  <2> QED BY <2>1, <2>2 DEF Send
<1>4. outcome # "message"
  BY <1>1, <1>3 DEF ParserInv
<1>5. ParserInv'
  BY <1>1, <1>2, <1>3, <1>4, ParserFrame
<1> QED BY <1>2, <1>5 DEF Inv

LEMMA StepInv == Inv /\ [Next]_vars => Inv'
<1> SUFFICES ASSUME Inv, [Next]_vars PROVE Inv'
  OBVIOUS
<1>1. CASE OpenStream \/ UseFallback \/ StreamEnds \/ CancelContext
  BY <1>1, RequestKeeps
<1>2. CASE \/ MessageStart \/ BlockStart \/ BlockDelta \/ BlockStop \/ TextDelta
           \/ ToolCallStart \/ ToolCallDelta \/ MessageDelta \/ LastEvent \/ StreamError
  BY <1>2, ProviderKeeps
<1>3. CASE OnError \/ Abort \/ RequestFails
  BY <1>3, LoopLeftKeeps
<1>4. CASE OnUsage
  BY <1>4, OnUsageKeeps
<1>5. CASE OnBlockStart
  BY <1>5, OnBlockStartKeeps
<1>6. CASE OnBlockDelta
  BY <1>6, OnBlockDeltaKeeps
<1>7. CASE OnBlockStop
  BY <1>7, OnBlockStopKeeps
<1>8. CASE OnText
  BY <1>8, OnTextKeeps
<1>9. CASE OnToolUse
  BY <1>9, OnToolUseKeeps
<1>10. CASE StreamOver
  BY <1>10, StreamOverKeeps
<1>11. CASE UNCHANGED vars
  <2>1. UNCHANGED <<dialect, answer, open, sent, ch, sp, outcome>>
    BY <1>11 DEF vars
  <2>2. AnswerInv /\ ChannelInv /\ ParserInv
    BY DEF Inv
  <2>3. ChannelInv' /\ Done' = Done
    BY <2>1, <2>2, ChannelFrame
  <2>4. OpenIs'
    <3>1. OpenIs
      BY <2>2 DEF AnswerInv
    <3> QED BY <2>1, <3>1 DEF OpenIs
  <2>5. AnswerInv'
    BY <2>1, <2>2, <2>4 DEF AnswerInv
  <2>6. PICK es, p : es = Done /\ p = sp
    OBVIOUS
  <2>7. Parsed(es, p)' <=> Parsed(es, p)
    BY <2>1, ParsedPrimed
  <2>8. MessageFaithful'
    BY <2>1, <2>2 DEF ParserInv, MessageFaithful, Blocks
  <2>9. ParserInv'
    BY <2>1, <2>2, <2>3, <2>6, <2>7, <2>8 DEF ParserInv
  <2> QED BY <2>3, <2>5, <2>9 DEF Inv
<1> QED BY <1>1, <1>2, <1>3, <1>4, <1>5, <1>6, <1>7, <1>8, <1>9, <1>10, <1>11 DEF Next

(* The events that a provider sends make up an answer whose blocks can be  *)
(* told apart, and while the loop of query.Query reads, the streamParser   *)
(* knows exactly what all of them but the one on the channel say.          *)
THEOREM ParserKnows == Spec => []Inv
<1>1. Init => Inv
  BY InitInv
<1>2. Inv /\ [Next]_vars => Inv'
  BY StepInv
<1> QED BY <1>1, <1>2, PTL DEF Spec

(* For answers of any number of events and blocks, in every dialect, cut   *)
(* wherever they are: the assistant message that query.Query returns is    *)
(* the answer, and what was reported to the engine on the way agrees with  *)
(* it (query/stream_parser.go).                                            *)
THEOREM MessageIsAnswer == Spec => []MessageFaithful
<1>1. Inv => MessageFaithful
  BY DEF Inv, ParserInv
<1> QED BY <1>1, ParserKnows, PTL
=============================================================================
