---------------------------- MODULE PlaybookProofs ----------------------------
(***************************************************************************)
(* Theorems about PlanParser and PlaybookExecutor, for every set of        *)
(* documents and runs: the plan of a document says what the document says; *)
(* the lock on agent creation is exact, variables hold results of          *)
(* completed agents, no agent is left behind, and success means that all   *)
(* completed.                                                              *)
(***************************************************************************)
EXTENDS PlaybookExecutor, FiniteSetTheorems, SequenceTheorems, WellFoundedInduction, Integers,
        TLAPS

-----------------------------------------------------------------------------
(* About the parser: induction over numbers, for what recursion computes.  *)

(* A set of numbers has a least one.                                       *)
LEMMA Least ==
  ASSUME NEW T, T \subseteq Nat, T # {}
  PROVE  \E x \in T : \A y \in T : x <= y
<1> DEFINE R == {ss \in Nat \X Nat : ss[1] < ss[2]}
<1>1. IsWellFoundedOn(R, Nat)
  BY NatLessThanWellFounded DEF OpToRel
<1>2. PICK x \in T : \A y \in T : ~ (<<y, x>> \in R)
  BY <1>1, WFMin
<1>3. ASSUME NEW y \in T PROVE x <= y
  <2>1. ~ (<<y, x>> \in R)
    BY <1>2
  <2> QED BY <2>1
<1> QED BY <1>3

(* Induction over 0 .. n, for a set of numbers in place of a predicate.    *)
LEMMA Induct ==
  ASSUME NEW n \in Nat, NEW T, 0 \in T, \A i \in 1 .. n : i - 1 \in T => i \in T
  PROVE  \A i \in 0 .. n : i \in T
<1> DEFINE Bad == {i \in 0 .. n : i \notin T}
<1>1. Bad \subseteq Nat
  OBVIOUS
<1>2. SUFFICES ASSUME Bad # {} PROVE FALSE
  OBVIOUS
<1>3. PICK i \in Bad : \A j \in Bad : i <= j
  <2> HIDE DEF Bad
  <2> QED BY <1>1, <1>2, Least
<1>4. i \in 1 .. n /\ i - 1 \in 0 .. n /\ i \notin T
  BY <1>3
<1>5. i - 1 \notin Bad
  BY <1>1, <1>3, <1>4
<1> QED BY <1>4, <1>5

(* A function defined by recursion over 0 .. n exists.                     *)
Recurs(f, n, b, G) == f[0] = b /\ \A i \in 1 .. n : f[i] = G[<<f[i - 1], i>>]

(* The function exists when its base and its step stay in a set.           *)
LEMMA Recursion ==
  ASSUME NEW S, NEW b \in S, NEW n \in Nat, NEW G \in [S \X (1 .. n) -> S]
  PROVE  \E f \in [0 .. n -> S] : Recurs(f, n, b, G)
<1> DEFINE T == {m \in 0 .. n : \E f \in [0 .. m -> S] : Recurs(f, m, b, G)}
<1>1. 0 \in T
  <2>1. 0 \in 0 .. n
    OBVIOUS
  <2>2. PICK f : f = [i \in 0 .. 0 |-> b]
    OBVIOUS
  <2>3. f \in [0 .. 0 -> S] /\ Recurs(f, 0, b, G)
    BY <2>2 DEF Recurs
  <2> QED BY <2>1, <2>3, Zenon
<1>2. ASSUME NEW m \in 1 .. n, m - 1 \in T
      PROVE  m \in T
  <2>1. PICK f \in [0 .. m - 1 -> S] : Recurs(f, m - 1, b, G)
    BY <1>2
  <2> DEFINE g == [i \in 0 .. m |-> IF i = m THEN G[<<f[m - 1], m>>] ELSE f[i]]
  <2>2. m - 1 \in 0 .. m - 1 /\ f[m - 1] \in S
    OBVIOUS
  <2>3. <<f[m - 1], m>> \in S \X (1 .. n)
    BY <2>2
  <2>4. g \in [0 .. m -> S]
    <3>1. ASSUME NEW i \in 0 .. m
          PROVE  (IF i = m THEN G[<<f[m - 1], m>>] ELSE f[i]) \in S
      <4>1. CASE i = m
        BY <2>3, <4>1
      <4>2. CASE i # m
        BY <4>2
      <4> QED BY <4>1, <4>2
    <3> QED BY <3>1
  <2>5. g[0] = b
    BY <2>1 DEF Recurs
  <2>6. ASSUME NEW i \in 1 .. m
        PROVE  g[i] = G[<<g[i - 1], i>>]
    <3>1. CASE i = m
      <4>1. g[m] = G[<<f[m - 1], m>>]
        OBVIOUS
      <4>2. g[m - 1] = f[m - 1]
        OBVIOUS
      <4> QED BY <3>1, <4>1, <4>2
    <3>2. CASE i # m
      <4>1. i \in 1 .. m - 1 /\ i - 1 \in 0 .. m - 1
        BY <3>2
      <4>2. g[i] = f[i] /\ g[i - 1] = f[i - 1]
        BY <4>1
      <4> QED BY <2>1, <4>1, <4>2 DEF Recurs
    <3> QED BY <3>1, <3>2
  <2> HIDE DEF g
  <2>7. Recurs(g, m, b, G)
    BY <2>5, <2>6 DEF Recurs
  <2> QED BY <2>4, <2>7
<1> HIDE DEF T
<1>3. n \in T
  BY <1>1, <1>2, Induct
<1> QED BY <1>3 DEF T

(* Min and Max are what their names say.                                   *)
LEMMA MinIs ==
  ASSUME NEW S, S \subseteq Nat, S # {}
  PROVE  Min(S) \in S /\ \A y \in S : Min(S) <= y
<1>1. \E x \in S : \A y \in S : x =< y
  BY Least
<1> QED BY <1>1 DEF Min

(* Max needs a bound on its set.                                           *)
LEMMA MaxIs ==
  ASSUME NEW n \in Nat, NEW S, S \subseteq 0 .. n, S # {}
  PROVE  Max(S) \in S /\ \A y \in S : y <= Max(S)
<1> DEFINE T == {n - x : x \in S}
<1>1. T \subseteq Nat /\ T # {}
  <2>1. ASSUME NEW x \in S PROVE n - x \in Nat
    <3>1. x \in 0 .. n
      OBVIOUS
    <3> QED BY <3>1
  <2> QED BY <2>1
<1>2. PICK z \in T : \A y \in T : z <= y
  <2> HIDE DEF T
  <2> QED BY <1>1, Least
<1>3. PICK x \in S : z = n - x
  BY <1>2
<1>4. \A y \in S : x >= y
  BY <1>2, <1>3
<1>5. \E w \in S : \A y \in S : w >= y
  BY <1>4
<1> HIDE DEF T
<1> QED BY <1>5 DEF Max

-----------------------------------------------------------------------------
(* Lines, and what is below one.                                           *)

(* A line of a document, and its indent.                                   *)
LEMMA LineIs ==
  ASSUME NEW lines \in Seq(Lines), NEW i \in 1 .. Len(lines)
  PROVE  /\ lines[i] \in Lines /\ lines[i].indent \in Nat /\ i \in DOMAIN lines
         /\ lines[i].indent \in Indents(lines)
<1>1. lines[i] \in Lines /\ i \in DOMAIN lines
  OBVIOUS
<1> QED BY <1>1 DEF Lines, Indents

(* The indents the parser may look for are numbers.                        *)
LEMMA IndentsTyped ==
  ASSUME NEW lines \in Seq(Lines)
  PROVE  Indents(lines) \subseteq Nat /\ 0 \in Indents(lines)
<1>1. ASSUME NEW i \in DOMAIN lines PROVE lines[i].indent \in Nat
  <2>1. lines[i] \in Lines
    OBVIOUS
  <2> QED BY <2>1 DEF Lines
<1> QED BY <1>1 DEF Indents

(* The line j is indented deeper than b, or says nothing.                  *)
Deeper(lines, j, b) == isEmpty(lines[j]) \/ lines[j].indent > b

(* childEnd is the next line that is not indented deeper.                  *)
LEMMA ChildEndIs ==
  ASSUME NEW lines \in Seq(Lines), NEW i \in 1 .. Len(lines)
  PROVE  LET e == childEnd(lines, i) IN
         /\ e \in (i + 1) .. (Len(lines) + 1)
         /\ \A j \in (i + 1) .. (e - 1) : Deeper(lines, j, lines[i].indent)
         /\ e <= Len(lines) => ~isEmpty(lines[e]) /\ lines[e].indent <= lines[i].indent
<1> DEFINE Outside == {j \in (i + 1) .. Len(lines) :
                         ~isEmpty(lines[j]) /\ lines[j].indent <= lines[i].indent}
<1>1. Len(lines) \in Nat /\ i \in Nat
  OBVIOUS
<1>2. ASSUME NEW j \in (i + 1) .. Len(lines) PROVE lines[j].indent \in Nat
  <2>1. j \in 1 .. Len(lines)
    OBVIOUS
  <2> QED BY <2>1, LineIs
<1>3. lines[i].indent \in Nat
  BY LineIs
<1>4. PICK e : e = childEnd(lines, i)
  OBVIOUS
<1>5. CASE Outside = {}
  <2>1. e = Len(lines) + 1
    BY <1>4, <1>5 DEF childEnd
  <2>2. ASSUME NEW j \in (i + 1) .. (e - 1) PROVE Deeper(lines, j, lines[i].indent)
    <3>1. j \in (i + 1) .. Len(lines)
      BY <1>1, <2>1
    <3> QED BY <1>2, <1>3, <1>5, <3>1 DEF Deeper
  <2> QED BY <1>1, <1>4, <2>1, <2>2
<1>6. CASE Outside # {}
  <2>1. e = Min(Outside)
    BY <1>4, <1>6 DEF childEnd
  <2>2. Outside \subseteq Nat
    OBVIOUS
  <2>3. e \in Outside /\ \A y \in Outside : e <= y
    <3> HIDE DEF Outside
    <3> QED BY <1>6, <2>1, <2>2, MinIs
  <2>4. ASSUME NEW j \in (i + 1) .. (e - 1) PROVE Deeper(lines, j, lines[i].indent)
    <3>1. j \in (i + 1) .. Len(lines) /\ j \notin Outside
      <4>1. j \in (i + 1) .. Len(lines) /\ ~(e <= j)
        BY <1>1, <2>3
      <4> QED BY <2>3, <4>1
    <3> QED BY <1>2, <1>3, <3>1 DEF Deeper
  <2> QED BY <1>1, <1>4, <2>3, <2>4
<1> QED BY <1>5, <1>6

(* The first item below a line gives the list its indent.                  *)
LEMMA ListIndentIs ==
  ASSUME NEW lines \in Seq(Lines), NEW i \in 1 .. Len(lines), ItemsBelow(lines, i) # {}
  PROVE  \E f \in ItemsBelow(lines, i) :
           /\ \A j \in ItemsBelow(lines, i) : f <= j
           /\ f \in (i + 1) .. Len(lines) /\ isItem(lines[f])
           /\ listIndent(lines, i) = lines[f].indent
           /\ lines[f].indent > lines[i].indent
           /\ listIndent(lines, i) \in Indents(lines)
<1>1. childEnd(lines, i) \in (i + 1) .. (Len(lines) + 1)
  BY ChildEndIs
<1>2. ItemsBelow(lines, i) \subseteq Nat
  BY <1>1 DEF ItemsBelow
<1>3. PICK f : f = Min(ItemsBelow(lines, i))
  OBVIOUS
<1>4. f \in ItemsBelow(lines, i) /\ \A y \in ItemsBelow(lines, i) : f <= y
  BY <1>2, <1>3, MinIs
<1>5. f \in (i + 1) .. (childEnd(lines, i) - 1) /\ isItem(lines[f])
  BY <1>4 DEF ItemsBelow
<1>6. f \in (i + 1) .. Len(lines) /\ f \in 1 .. Len(lines)
  BY <1>1, <1>5
<1>7. Deeper(lines, f, lines[i].indent)
  BY <1>5, ChildEndIs
<1>8. lines[f].indent > lines[i].indent
  BY <1>5, <1>7 DEF Deeper, isItem, isEmpty
<1>9. listIndent(lines, i) = lines[f].indent
  BY <1>3 DEF listIndent
<1>10. lines[f].indent \in Indents(lines)
  BY <1>6, LineIs
<1> QED BY <1>4, <1>5, <1>6, <1>8, <1>9, <1>10

(* Who has sub-steps has items below.                                      *)
LEMMA SubStepsBelow ==
  ASSUME NEW lines, NEW i, SubSteps(lines, i)
  PROVE  ItemsBelow(lines, i) # {}
BY DEF SubSteps, allChildrenAreProperties, childItems

-----------------------------------------------------------------------------
(* parseStepNodes is a function with the equation it is defined by.        *)

NodeList(lines, nodes, i, base) ==
  IF i > Len(lines) \/ (~isEmpty(lines[i]) /\ lines[i].indent < base) THEN <<>>
  ELSE IF isItem(lines[i]) /\ lines[i].indent = base
    THEN <<parseStepAt(lines, i,
             IF SubSteps(lines, i) THEN nodes[i + 1][listIndent(lines, i)] ELSE <<>>)>>
           \o nodes[childEnd(lines, i)][base]
    ELSE nodes[i + 1][base]
ParsedBy(nodes, lines) ==
  nodes = [i \in 1 .. (Len(lines) + 1) |-> [base \in Indents(lines) |->
             NodeList(lines, nodes, i, base)]]

ParsedFrom(nodes, lines, j) ==
  nodes = [i \in j .. (Len(lines) + 1) |-> [base \in Indents(lines) |->
             NodeList(lines, nodes, i, base)]]

(* It looks at later lines only.                                           *)
LEMMA LooksAhead ==
  ASSUME NEW lines \in Seq(Lines), NEW i \in 1 .. (Len(lines) + 1), NEW base \in Indents(lines),
         NEW f, NEW g,
         \A j \in (i + 1) .. (Len(lines) + 1) : \A b \in Indents(lines) : f[j][b] = g[j][b]
  PROVE  NodeList(lines, f, i, base) = NodeList(lines, g, i, base)
<1>1. CASE i > Len(lines)
  BY <1>1 DEF NodeList
<1>2. CASE ~(i > Len(lines))
  <2>1. i \in 1 .. Len(lines) /\ i + 1 \in (i + 1) .. (Len(lines) + 1)
    BY <1>2
  <2>2. childEnd(lines, i) \in (i + 1) .. (Len(lines) + 1)
    BY <2>1, ChildEndIs
  <2>3. SubSteps(lines, i) => listIndent(lines, i) \in Indents(lines)
    BY <2>1, SubStepsBelow, ListIndentIs
  <2>4. SubSteps(lines, i) => f[i + 1][listIndent(lines, i)] = g[i + 1][listIndent(lines, i)]
    BY <2>1, <2>3
  <2>5. f[childEnd(lines, i)][base] = g[childEnd(lines, i)][base] /\ f[i + 1][base] = g[i + 1][base]
    BY <2>1, <2>2
  <2> QED BY <2>4, <2>5 DEF NodeList
<1> QED BY <1>1, <1>2

(* A function with the equation of parseStepNodes exists, by induction     *)
(* from the last line.                                                     *)
LEMMA NodesExist ==
  ASSUME NEW lines \in Seq(Lines)
  PROVE  \E f : ParsedBy(f, lines)
<1>1. PICK n \in Nat : n = Len(lines)
  OBVIOUS
<1>2. PICK I : I = Indents(lines)
  OBVIOUS
<1> DEFINE T == {m \in 0 .. n : \E f : ParsedFrom(f, lines, n + 1 - m)}
<1>3. 0 \in T
  <2>1. PICK f : f = [i \in (n + 1) .. (n + 1) |-> [base \in I |-> <<>>]]
    OBVIOUS
  <2>2. \A i \in (n + 1) .. (n + 1), base \in I : NodeList(lines, f, i, base) = <<>>
    BY <1>1 DEF NodeList
  <2>3. f = [i \in (n + 1) .. (n + 1) |-> [base \in I |-> NodeList(lines, f, i, base)]]
    BY <2>1, <2>2
  <2>4. 0 \in 0 .. n /\ n + 1 - 0 = n + 1
    OBVIOUS
  <2>5. ParsedFrom(f, lines, n + 1)
    BY <1>1, <1>2, <2>3 DEF ParsedFrom
  <2> QED BY <2>4, <2>5
<1>4. ASSUME NEW m \in 1 .. n, m - 1 \in T
      PROVE  m \in T
  <2>1. PICK f : ParsedFrom(f, lines, n + 1 - (m - 1))
    BY <1>4
  <2>2. PICK g : g = [i \in (n + 1 - m) .. (n + 1) |-> [base \in I |-> NodeList(lines, f, i, base)]]
    OBVIOUS
  <2>3. ASSUME NEW i \in (n + 1 - (m - 1)) .. (n + 1), NEW base \in I
        PROVE  f[i][base] = g[i][base]
    <3>1. f[i][base] = NodeList(lines, f, i, base)
      <4>1. PICK j : j = n + 1 - (m - 1)
        OBVIOUS
      <4>2. PICK h : h = [k \in j .. (n + 1) |-> [b \in I |-> NodeList(lines, f, k, b)]]
        OBVIOUS
      <4>3. f = h
        BY <1>1, <1>2, <2>1, <4>1, <4>2, Zenon DEF ParsedFrom
      <4>4. h[i][base] = NodeList(lines, f, i, base)
        BY <4>1, <4>2
      <4> QED BY <4>3, <4>4
    <3>2. i \in (n + 1 - m) .. (n + 1)
      BY <1>1
    <3> QED BY <2>2, <3>1, <3>2
  <2>4. ASSUME NEW i \in (n + 1 - m) .. (n + 1), NEW base \in I
        PROVE  NodeList(lines, f, i, base) = NodeList(lines, g, i, base)
    <3>1. i \in 1 .. (Len(lines) + 1) /\ base \in Indents(lines)
      BY <1>1, <1>2
    <3>2. \A j \in (i + 1) .. (Len(lines) + 1) : \A b \in Indents(lines) : f[j][b] = g[j][b]
      <4>1. ASSUME NEW j \in (i + 1) .. (Len(lines) + 1)
            PROVE  j \in (n + 1 - (m - 1)) .. (n + 1)
        BY <1>1
      <4> QED BY <1>2, <2>3, <4>1
    <3> QED BY <3>1, <3>2, LooksAhead
  <2>5. ParsedFrom(g, lines, n + 1 - m)
    BY <1>1, <1>2, <2>2, <2>4 DEF ParsedFrom
  <2> QED BY <2>5
<1> HIDE DEF T
<1>5. n \in 0 .. n
  OBVIOUS
<1>6. n \in T
  BY <1>3, <1>4, <1>5, Induct
<1>7. PICK f : ParsedFrom(f, lines, n + 1 - n)
  BY <1>6 DEF T
<1>8. n + 1 - n = 1
  OBVIOUS
<1> QED BY <1>1, <1>7, <1>8 DEF ParsedBy, ParsedFrom

(* So parseStepNodes satisfies its equation on every line.                 *)
LEMMA NodesAre ==
  ASSUME NEW lines \in Seq(Lines), NEW i \in 1 .. (Len(lines) + 1), NEW base \in Indents(lines)
  PROVE  parseStepNodes(lines)[i][base] = NodeList(lines, parseStepNodes(lines), i, base)
<1> DEFINE f == CHOOSE f : ParsedBy(f, lines)
<1>1. ParsedBy(f, lines)
  BY NodesExist
<1>2. parseStepNodes(lines) = f
  BY DEF parseStepNodes, ParsedBy, NodeList
<1> HIDE DEF f
<1>3. f[i][base] = NodeList(lines, f, i, base)
  BY <1>1 DEF ParsedBy
<1> QED BY <1>2, <1>3

-----------------------------------------------------------------------------
(* What parseStepNodes returns: the steps on the items of a list, in order.*)

Node(lines, i) ==
  parseStepAt(lines, i,
    IF SubSteps(lines, i) THEN parseStepNodes(lines)[i + 1][listIndent(lines, i)] ELSE <<>>)
Nodes(lines) == {Node(lines, i) : i \in ItemLines(lines)}
Siblings(lines, i, base) ==
  {j \in ItemLines(lines) :
     /\ i <= j /\ lines[j].indent = base
     /\ \A k \in i .. j : isEmpty(lines[k]) \/ lines[k].indent >= base}
Listed(lines, s, P) ==
  /\ s \in Seq(Nodes(lines))
  /\ {s[k].at : k \in 1 .. Len(s)} = P
  /\ \A j, k \in 1 .. Len(s) : j < k => s[j].at < s[k].at

(* A step stands on its line.                                              *)
LEMMA NodeAt ==
  ASSUME NEW lines, NEW i
  PROVE  Node(lines, i).at = i
BY DEF Node, parseStepAt

(* A step of the document is the one on its line.                          *)
LEMMA NodeKnown ==
  ASSUME NEW lines, NEW n \in Nodes(lines)
  PROVE  n.at \in ItemLines(lines) /\ n = Node(lines, n.at)
<1>1. PICK i \in ItemLines(lines) : n = Node(lines, i)
  BY DEF Nodes
<1>2. n.at = i
  BY <1>1, NodeAt
<1> QED BY <1>1, <1>2

(* An item is a line that says something.                                  *)
LEMMA ItemIs ==
  ASSUME NEW lines \in Seq(Lines), NEW i \in ItemLines(lines)
  PROVE  i \in 1 .. Len(lines) /\ isItem(lines[i]) /\ ~isEmpty(lines[i])
         /\ lines[i].indent \in Nat /\ Node(lines, i) \in Nodes(lines)
<1>1. i \in 1 .. Len(lines) /\ isItem(lines[i])
  BY DEF ItemLines
<1>2. lines[i].indent \in Nat
  BY <1>1, LineIs
<1>3. ~isEmpty(lines[i])
  BY <1>1 DEF isItem, isEmpty
<1> QED BY <1>1, <1>2, <1>3 DEF Nodes

(* The empty list.                                                         *)
LEMMA NoneListed ==
  ASSUME NEW lines
  PROVE  Listed(lines, <<>>, {})
BY DEF Listed

(* A step before a list of later steps.                                    *)
LEMMA MoreListed ==
  ASSUME NEW lines \in Seq(Lines), NEW i \in ItemLines(lines), NEW t, NEW P, Listed(lines, t, P),
         \A j \in P : i < j
  PROVE  Listed(lines, <<Node(lines, i)>> \o t, {i} \cup P)
<1>1. t \in Seq(Nodes(lines)) /\ Node(lines, i) \in Nodes(lines) /\ i \in Nat
  BY ItemIs DEF Listed
<1>2. PICK s, x : s = <<x>> \o t /\ x = Node(lines, i)
  OBVIOUS
<1>3. /\ s \in Seq(Nodes(lines)) /\ Len(s) = Len(t) + 1 /\ s[1] = x
      /\ \A k \in 1 .. Len(t) : s[k + 1] = t[k]
  BY <1>1, <1>2
<1>4. x.at = i
  BY <1>2, NodeAt
<1>5. \A k \in 2 .. Len(s) : k - 1 \in 1 .. Len(t) /\ s[k] = t[k - 1]
  <2>1. ASSUME NEW k \in 2 .. Len(s)
        PROVE  k - 1 \in 1 .. Len(t) /\ s[k] = t[k - 1]
    <3>1. k - 1 \in 1 .. Len(t) /\ (k - 1) + 1 = k
      BY <1>1, <1>3
    <3>2. s[(k - 1) + 1] = t[k - 1]
      BY <1>3, <3>1
    <3> QED BY <3>1, <3>2
  <2> QED BY <2>1
<1>6. {s[k].at : k \in 1 .. Len(s)} = {i} \cup P
  <2>1. P = {t[k].at : k \in 1 .. Len(t)}
    BY DEF Listed
  <2>2. ASSUME NEW k \in 1 .. Len(s) PROVE s[k].at \in {i} \cup P
    <3>1. CASE k = 1
      BY <1>3, <1>4, <3>1
    <3>2. CASE k # 1
      <4>1. k \in 2 .. Len(s)
        BY <3>2
      <4> QED BY <1>5, <2>1, <4>1
    <3> QED BY <3>1, <3>2
  <2>3. ASSUME NEW j \in {i} \cup P PROVE \E k \in 1 .. Len(s) : s[k].at = j
    <3>1. CASE j = i
      <4>1. 1 \in 1 .. Len(s)
        BY <1>1, <1>3
      <4> QED BY <1>3, <1>4, <3>1, <4>1
    <3>2. CASE j \in P
      <4>1. PICK k \in 1 .. Len(t) : t[k].at = j
        BY <2>1, <3>2
      <4>2. k + 1 \in 1 .. Len(s) /\ s[k + 1].at = j
        BY <1>1, <1>3, <4>1
      <4> QED BY <4>2
    <3> QED BY <3>1, <3>2
  <2> QED BY <2>2, <2>3
<1>7. ASSUME NEW j \in 1 .. Len(s), NEW k \in 1 .. Len(s), j < k
      PROVE  s[j].at < s[k].at
  <2>1. k \in 2 .. Len(s) /\ k - 1 \in 1 .. Len(t) /\ s[k] = t[k - 1]
    BY <1>5, <1>7
  <2>2. CASE j = 1
    <3>1. t[k - 1].at \in P
      BY <2>1 DEF Listed
    <3> QED BY <1>3, <1>4, <2>1, <2>2, <3>1
  <2>3. CASE j # 1
    <3>1. j \in 2 .. Len(s) /\ j - 1 \in 1 .. Len(t) /\ s[j] = t[j - 1]
      BY <1>5, <2>3
    <3>2. j - 1 < k - 1
      BY <1>7
    <3> QED BY <2>1, <3>1, <3>2 DEF Listed
  <2> QED BY <2>2, <2>3
<1> QED BY <1>2, <1>3, <1>6, <1>7 DEF Listed

(* Where a list ends, and how it goes on.                                  *)
LEMMA NoSiblings ==
  ASSUME NEW lines \in Seq(Lines), NEW i \in 1 .. (Len(lines) + 1), NEW base \in Nat,
         i > Len(lines) \/ (~isEmpty(lines[i]) /\ lines[i].indent < base)
  PROVE  Siblings(lines, i, base) = {}
<1>1. SUFFICES ASSUME NEW j \in Siblings(lines, i, base) PROVE FALSE
  OBVIOUS
<1>2. j \in ItemLines(lines) /\ i <= j /\ \A k \in i .. j : isEmpty(lines[k]) \/ lines[k].indent >= base
  BY DEF Siblings
<1>3. j \in 1 .. Len(lines)
  BY <1>2, ItemIs
<1>4. i \in 1 .. Len(lines) /\ i \in i .. j
  BY <1>2, <1>3
<1>5. lines[i].indent \in Nat
  BY <1>4, LineIs
<1> QED BY <1>2, <1>4, <1>5

(* Lines that are deeper than the list are passed over.                    *)
LEMMA NextSiblings ==
  ASSUME NEW lines \in Seq(Lines), NEW i \in 1 .. Len(lines), NEW base \in Nat,
         NEW e \in (i + 1) .. (Len(lines) + 1),
         isEmpty(lines[i]) \/ lines[i].indent >= base,
         \A k \in (i + 1) .. (e - 1) : Deeper(lines, k, base)
  PROVE  Siblings(lines, i, base) =
           {k \in {i} : isItem(lines[i]) /\ lines[i].indent = base} \cup Siblings(lines, e, base)
<1>1. ASSUME NEW j \in Siblings(lines, i, base), j # i
      PROVE  j \in Siblings(lines, e, base)
  <2>1. /\ j \in ItemLines(lines) /\ i <= j /\ lines[j].indent = base
        /\ \A k \in i .. j : isEmpty(lines[k]) \/ lines[k].indent >= base
    BY DEF Siblings
  <2>2. j \in 1 .. Len(lines) /\ ~isEmpty(lines[j])
    BY <2>1, ItemIs
  <2>3. ~Deeper(lines, j, base)
    BY <2>1, <2>2 DEF Deeper
  <2>4. e <= j
    <3>1. ~(j \in (i + 1) .. (e - 1))
      BY <2>3
    <3> QED BY <1>1, <2>1, <2>2, <3>1
  <2>5. \A k \in e .. j : k \in i .. j
    BY <2>2
  <2> QED BY <2>1, <2>4, <2>5 DEF Siblings
<1>2. i \in Siblings(lines, i, base) => isItem(lines[i]) /\ lines[i].indent = base
  BY ItemIs DEF Siblings
<1>3. ASSUME isItem(lines[i]), lines[i].indent = base
      PROVE  i \in Siblings(lines, i, base)
  <2>1. i \in ItemLines(lines)
    BY <1>3 DEF ItemLines
  <2>2. \A k \in i .. i : k = i
    OBVIOUS
  <2> QED BY <1>3, <2>1, <2>2 DEF Siblings
<1>4. ASSUME NEW j \in Siblings(lines, e, base)
      PROVE  j \in Siblings(lines, i, base)
  <2>1. /\ j \in ItemLines(lines) /\ e <= j /\ lines[j].indent = base
        /\ \A k \in e .. j : isEmpty(lines[k]) \/ lines[k].indent >= base
    BY DEF Siblings
  <2>2. j \in 1 .. Len(lines)
    BY <2>1, ItemIs
  <2>3. ASSUME NEW k \in i .. j PROVE isEmpty(lines[k]) \/ lines[k].indent >= base
    <3>1. CASE k = i
      BY <3>1
    <3>2. CASE k \in (i + 1) .. (e - 1)
      <4>1. k \in 1 .. Len(lines)
        BY <2>2
      <4>2. lines[k].indent \in Nat
        BY <4>1, LineIs
      <4> QED BY <3>2, <4>2 DEF Deeper
    <3>3. CASE k \in e .. j
      BY <2>1, <3>3
    <3> QED BY <2>2, <3>1, <3>2, <3>3
  <2>4. i <= j
    BY <2>1, <2>2
  <2> QED BY <2>1, <2>3, <2>4 DEF Siblings
<1> QED BY <1>1, <1>2, <1>3, <1>4

(* parseStepNodes lists the siblings from a line on, all and in order.     *)
LEMMA NodesListed ==
  ASSUME NEW lines \in Seq(Lines), NEW i \in 1 .. (Len(lines) + 1), NEW base \in Indents(lines)
  PROVE  Listed(lines, parseStepNodes(lines)[i][base], Siblings(lines, i, base))
<1>1. PICK n \in Nat : n = Len(lines)
  OBVIOUS
<1>2. PICK f : f = parseStepNodes(lines)
  OBVIOUS
<1> DEFINE T == {m \in 0 .. n : \A j \in (n + 1 - m) .. (n + 1), b \in Indents(lines) :
                                  Listed(lines, f[j][b], Siblings(lines, j, b))}
<1>3. ASSUME NEW j \in 1 .. (n + 1), NEW b \in Indents(lines),
             \A k \in (j + 1) .. (n + 1), c \in Indents(lines) :
               Listed(lines, f[k][c], Siblings(lines, k, c))
      PROVE  Listed(lines, f[j][b], Siblings(lines, j, b))
  <2>1. f[j][b] = NodeList(lines, f, j, b) /\ b \in Nat
    BY <1>1, <1>2, NodesAre, IndentsTyped
  <2>2. CASE j > Len(lines) \/ (~isEmpty(lines[j]) /\ lines[j].indent < b)
    <3>1. f[j][b] = <<>>
      BY <2>1, <2>2 DEF NodeList
    <3>2. Siblings(lines, j, b) = {}
      BY <1>1, <2>1, <2>2, NoSiblings
    <3> QED BY <3>1, <3>2, NoneListed
  <2>3. CASE ~(j > Len(lines) \/ (~isEmpty(lines[j]) /\ lines[j].indent < b))
    <3>1. j \in 1 .. Len(lines)
      BY <1>1, <2>3
    <3>2. isEmpty(lines[j]) \/ lines[j].indent >= b
      BY <2>1, <2>3, <3>1, LineIs
    <3>3. CASE isItem(lines[j]) /\ lines[j].indent = b
      <4>1. PICK e : e = childEnd(lines, j)
        OBVIOUS
      <4>2. e \in (j + 1) .. (n + 1) /\ \A k \in (j + 1) .. (e - 1) : Deeper(lines, k, b)
        BY <1>1, <3>1, <3>3, <4>1, ChildEndIs
      <4>3. f[j][b] = <<Node(lines, j)>> \o f[e][b]
        BY <1>2, <2>1, <2>3, <3>3, <4>1 DEF NodeList, Node
      <4>4. Siblings(lines, j, b) = {j} \cup Siblings(lines, e, b)
        BY <1>1, <2>1, <3>1, <3>2, <3>3, <4>2, NextSiblings
      <4>5. Listed(lines, f[e][b], Siblings(lines, e, b))
        BY <1>3, <4>2
      <4>6. j \in ItemLines(lines)
        BY <3>1, <3>3 DEF ItemLines
      <4>7. \A k \in Siblings(lines, e, b) : j < k
        <5>1. ASSUME NEW k \in Siblings(lines, e, b) PROVE j < k
          <6>1. e <= k /\ k \in ItemLines(lines)
            BY DEF Siblings
          <6> QED BY <4>2, <6>1, ItemIs
        <5> QED BY <5>1
      <4> QED BY <4>3, <4>4, <4>5, <4>6, <4>7, MoreListed
    <3>4. CASE ~(isItem(lines[j]) /\ lines[j].indent = b)
      <4>1. f[j][b] = f[j + 1][b]
        BY <2>1, <2>3, <3>4 DEF NodeList
      <4>2. Siblings(lines, j, b) = Siblings(lines, j + 1, b)
        <5>1. j + 1 \in (j + 1) .. (Len(lines) + 1) /\ (j + 1) .. ((j + 1) - 1) = {}
          BY <3>1
        <5>2. PICK e : e = j + 1 /\ e \in (j + 1) .. (Len(lines) + 1) /\ (j + 1) .. (e - 1) = {}
          BY <5>1
        <5>3. Siblings(lines, j, b) =
                {k \in {j} : isItem(lines[j]) /\ lines[j].indent = b} \cup Siblings(lines, e, b)
          BY <2>1, <3>1, <3>2, <5>2, NextSiblings
        <5> QED BY <3>4, <5>2, <5>3
      <4>3. j + 1 \in (j + 1) .. (n + 1)
        BY <1>1, <3>1
      <4> QED BY <1>3, <4>1, <4>2, <4>3
    <3> QED BY <3>3, <3>4
  <2> QED BY <2>2, <2>3
<1>4. 0 \in T
  <2>1. ASSUME NEW j \in (n + 1 - 0) .. (n + 1), NEW b \in Indents(lines)
        PROVE  Listed(lines, f[j][b], Siblings(lines, j, b))
    <3>1. j \in 1 .. (n + 1) /\ (j + 1) .. (n + 1) = {}
      OBVIOUS
    <3> QED BY <1>3, <3>1
  <2> QED BY <2>1
<1>5. ASSUME NEW m \in 1 .. n, m - 1 \in T
      PROVE  m \in T
  <2>1. ASSUME NEW j \in (n + 1 - m) .. (n + 1), NEW b \in Indents(lines)
        PROVE  Listed(lines, f[j][b], Siblings(lines, j, b))
    <3>1. j \in 1 .. (n + 1) /\ \A k \in (j + 1) .. (n + 1) : k \in (n + 1 - (m - 1)) .. (n + 1)
      OBVIOUS
    <3>2. \A k \in (j + 1) .. (n + 1), c \in Indents(lines) :
            Listed(lines, f[k][c], Siblings(lines, k, c))
      BY <1>5, <3>1
    <3> QED BY <1>3, <3>1, <3>2
  <2> QED BY <2>1
<1> HIDE DEF T
<1>6. n \in 0 .. n /\ n \in T
  BY <1>4, <1>5, Induct
<1>7. \A j \in (n + 1 - n) .. (n + 1), b \in Indents(lines) :
        Listed(lines, f[j][b], Siblings(lines, j, b))
  BY <1>6 DEF T
<1>8. i \in (n + 1 - n) .. (n + 1)
  BY <1>1
<1> QED BY <1>2, <1>7, <1>8

-----------------------------------------------------------------------------
(* What buildExecutionPlan makes of a sequence of steps.                   *)

Phases(lines) == [parallel : BOOLEAN, steps : Seq(Nodes(lines)) \ {<<>>}]

(* The step n joins the last phase of p, or opens a phase of its own.      *)
Joins(lines, p, n, q) ==
  /\ p # <<>> /\ Len(q) = Len(p) /\ \A k \in 1 .. (Len(p) - 1) : q[k] = p[k]
  /\ p[Len(p)].parallel = ~ordered(lines, n)
  /\ q[Len(p)].parallel = p[Len(p)].parallel
  /\ q[Len(p)].steps = Append(p[Len(p)].steps, n)
Opens(lines, p, n, q) ==
  /\ Len(q) = Len(p) + 1 /\ \A k \in 1 .. Len(p) : q[k] = p[k]
  /\ p # <<>> => p[Len(p)].parallel # ~ordered(lines, n)
  /\ q[Len(p) + 1].parallel = ~ordered(lines, n)
  /\ q[Len(p) + 1].steps = <<n>>

(* A step is added to the last phase if that is of its kind, and no phase  *)
(* is empty.                                                               *)
LEMMA AddStepIs ==
  ASSUME NEW lines, NEW p \in Seq(Phases(lines)), NEW n \in Nodes(lines),
         NEW q, q = AddStep(lines, p, n)
  PROVE  /\ q \in Seq(Phases(lines))
         /\ Joins(lines, p, n, q) \/ Opens(lines, p, n, q)
<1>1. ordered(lines, n) \in BOOLEAN
  BY DEF ordered
<1>2. q = AddStep(lines, p, n)
  OBVIOUS
<1>3. CASE p # <<>> /\ Last(p).parallel = ~ordered(lines, n)
  <2>1. Len(p) \in 1 .. Len(p) /\ p[Len(p)] \in Phases(lines) /\ Last(p) = p[Len(p)]
    BY <1>3 DEF Last
  <2>2. p[Len(p)].steps \in Seq(Nodes(lines)) /\ p[Len(p)].parallel \in BOOLEAN
    BY <2>1 DEF Phases
  <2>3. PICK x : x = [parallel |-> p[Len(p)].parallel, steps |-> Append(p[Len(p)].steps, n)]
    OBVIOUS
  <2>9. PICK t : t = Append(p[Len(p)].steps, n)
    OBVIOUS
  <2>10. t \in Seq(Nodes(lines)) /\ t # <<>>
    BY <2>2, <2>9
  <2>4. x \in Phases(lines) /\ x.parallel = p[Len(p)].parallel
        /\ x.steps = Append(p[Len(p)].steps, n)
    BY <2>2, <2>3, <2>9, <2>10 DEF Phases
  <2>5. PICK r : r = Front(p)
    OBVIOUS
  <2>6. r \in Seq(Phases(lines)) /\ Len(r) = Len(p) - 1 /\ \A k \in 1 .. Len(r) : r[k] = p[k]
    <3>1. PICK z : z = Len(p) - 1 /\ z \in 0 .. Len(p)
      BY <2>1
    <3>2. r = SubSeq(p, 1, z)
      BY <2>5, <3>1 DEF Front
    <3>3. r \in Seq(Phases(lines)) /\ Len(r) = z /\ \A k \in 1 .. z : r[k] = p[k]
      BY <3>1, <3>2
    <3> QED BY <3>1, <3>3
  <2>7. q = Append(r, x)
    BY <1>2, <1>3, <2>1, <2>3, <2>5 DEF AddStep
  <2>8. /\ q \in Seq(Phases(lines)) /\ Len(q) = Len(p) /\ q[Len(p)] = x
        /\ \A k \in 1 .. (Len(p) - 1) : q[k] = p[k]
    BY <2>1, <2>4, <2>6, <2>7
  <2> QED BY <1>2, <1>3, <2>1, <2>4, <2>8 DEF Joins
<1>4. CASE ~(p # <<>> /\ Last(p).parallel = ~ordered(lines, n))
  <2>1. PICK x : x = [parallel |-> ~ordered(lines, n), steps |-> <<n>>]
    OBVIOUS
  <2>2. x \in Phases(lines) /\ x.parallel = ~ordered(lines, n) /\ x.steps = <<n>>
    BY <1>1, <2>1 DEF Phases
  <2>3. q = Append(p, x)
    BY <1>2, <1>4, <2>1 DEF AddStep
  <2>4. /\ q \in Seq(Phases(lines)) /\ Len(q) = Len(p) + 1 /\ q[Len(p) + 1] = x
        /\ \A k \in 1 .. Len(p) : q[k] = p[k]
    BY <2>2, <2>3
  <2> QED BY <1>2, <1>4, <2>2, <2>4 DEF Last, Opens
<1> QED BY <1>3, <1>4

(* The plan p holds the first m steps of s: step k is in phase ph[k] at    *)
(* place pl[k].                                                            *)
Grouped(lines, p, s, m, ph, pl) ==
  /\ p \in Seq(Phases(lines)) /\ ph \in [1 .. m -> Nat] /\ pl \in [1 .. m -> Nat]
  /\ \A k \in 1 .. m :
       /\ ph[k] \in 1 .. Len(p) /\ pl[k] \in 1 .. Len(p[ph[k]].steps)
       /\ p[ph[k]].steps[pl[k]] = s[k] /\ p[ph[k]].parallel = ~ordered(lines, s[k])
  /\ \A q \in 1 .. Len(p) : \A j \in 1 .. Len(p[q].steps) :
       \E k \in 1 .. m : ph[k] = q /\ pl[k] = j
  /\ m = 0 => p = <<>>
  /\ m > 0 => p # <<>> /\ ph[m] = Len(p) /\ pl[m] = Len(p[Len(p)].steps)
  /\ \A k \in 2 .. m : \/ ph[k] = ph[k - 1] /\ pl[k] = pl[k - 1] + 1
                       \/ ph[k] = ph[k - 1] + 1 /\ p[ph[k]].parallel # p[ph[k - 1]].parallel

(* Adding the next step keeps the plan grouped.                            *)
LEMMA GroupedNext ==
  ASSUME NEW lines, NEW s \in Seq(Nodes(lines)), NEW m \in 1 .. Len(s), NEW p, NEW ph, NEW pl,
         Grouped(lines, p, s, m - 1, ph, pl)
  PROVE  \E gh, gl : Grouped(lines, AddStep(lines, p, s[m]), s, m, gh, gl)
<1>1. PICK q, n : q = AddStep(lines, p, n) /\ n = s[m]
  OBVIOUS
<1>2. n \in Nodes(lines) /\ m \in Nat /\ m - 1 \in Nat /\ p \in Seq(Phases(lines))
  BY <1>1 DEF Grouped
<1>3. ph \in [1 .. (m - 1) -> Nat] /\ pl \in [1 .. (m - 1) -> Nat]
  BY DEF Grouped
<1>8. \A k \in 1 .. (m - 1) : ph[k] \in 1 .. Len(p)
  BY DEF Grouped
<1>9. \A k \in 1 .. (m - 1) :
        /\ pl[k] \in 1 .. Len(p[ph[k]].steps)
        /\ p[ph[k]].steps[pl[k]] = s[k] /\ p[ph[k]].parallel = ~ordered(lines, s[k])
  BY DEF Grouped
<1>10. \A r \in 1 .. Len(p) : \A j \in 1 .. Len(p[r].steps) :
         \E k \in 1 .. (m - 1) : ph[k] = r /\ pl[k] = j
  BY DEF Grouped
<1>11. m - 1 > 0 => p # <<>> /\ ph[m - 1] = Len(p) /\ pl[m - 1] = Len(p[Len(p)].steps)
  BY DEF Grouped
<1>12. m - 1 = 0 => p = <<>>
  BY DEF Grouped
<1>13. \A k \in 2 .. (m - 1) :
         \/ ph[k] = ph[k - 1] /\ pl[k] = pl[k - 1] + 1
         \/ ph[k] = ph[k - 1] + 1 /\ p[ph[k]].parallel # p[ph[k - 1]].parallel
  BY DEF Grouped
<1>4. \A r \in 1 .. Len(p) : p[r].steps \in Seq(Nodes(lines))
  <2>1. ASSUME NEW r \in 1 .. Len(p) PROVE p[r].steps \in Seq(Nodes(lines))
    <3>1. p[r] \in Phases(lines)
      BY <1>2
    <3> QED BY <3>1 DEF Phases
  <2> QED BY <2>1
<1>5. q \in Seq(Phases(lines))
  BY <1>1, <1>2, AddStepIs
<1>6. CASE Joins(lines, p, n, q)
  <2> USE DEF Joins
  <2>1. Len(p) \in 1 .. Len(p) /\ p[Len(p)].steps \in Seq(Nodes(lines))
    BY <1>2, <1>4, <1>6
  <2>2. PICK l \in Nat : l = Len(p[Len(p)].steps)
    BY <2>1
  <2>3. /\ Len(q[Len(p)].steps) = l + 1 /\ q[Len(p)].steps[l + 1] = n
        /\ \A j \in 1 .. l : q[Len(p)].steps[j] = p[Len(p)].steps[j]
    BY <1>2, <1>6, <2>1, <2>2
  <2>4. PICK gh : gh = [k \in 1 .. m |-> IF k = m THEN Len(p) ELSE ph[k]]
    OBVIOUS
  <2>5. PICK gl : gl = [k \in 1 .. m |-> IF k = m THEN l + 1 ELSE pl[k]]
    OBVIOUS
  <2>6. \A r \in 1 .. Len(p) : /\ q[r].parallel = p[r].parallel
                               /\ Len(p[r].steps) <= Len(q[r].steps)
                               /\ \A j \in 1 .. Len(p[r].steps) : q[r].steps[j] = p[r].steps[j]
    <3>1. ASSUME NEW r \in 1 .. Len(p)
          PROVE  /\ q[r].parallel = p[r].parallel
                 /\ Len(p[r].steps) <= Len(q[r].steps)
                 /\ \A j \in 1 .. Len(p[r].steps) : q[r].steps[j] = p[r].steps[j]
      <4>1. CASE r = Len(p)
        <5>1. q[r].parallel = p[r].parallel
          BY <1>6, <4>1
        <5>2. Len(p[r].steps) <= Len(q[r].steps)
          BY <2>2, <2>3, <4>1
        <5>3. \A j \in 1 .. Len(p[r].steps) : q[r].steps[j] = p[r].steps[j]
          BY <2>2, <2>3, <4>1
        <5> QED BY <5>1, <5>2, <5>3
      <4>2. CASE r # Len(p)
        <5>1. q[r] = p[r]
          BY <1>2, <1>6, <4>2
        <5> QED BY <1>4, <5>1
      <4> QED BY <4>1, <4>2
    <3> QED BY <3>1
  <2>7. m \in 1 .. m /\ gh[m] = Len(p) /\ gl[m] = l + 1
        /\ \A k \in 1 .. (m - 1) : k \in 1 .. m /\ gh[k] = ph[k] /\ gl[k] = pl[k]
    BY <1>2, <2>4, <2>5
  <2>8. gh \in [1 .. m -> Nat] /\ gl \in [1 .. m -> Nat]
    BY <1>2, <1>3, <2>1, <2>4, <2>5
  <2>9. ASSUME NEW k \in 1 .. m
        PROVE  /\ gh[k] \in 1 .. Len(q) /\ gl[k] \in 1 .. Len(q[gh[k]].steps)
               /\ q[gh[k]].steps[gl[k]] = s[k] /\ q[gh[k]].parallel = ~ordered(lines, s[k])
    <3>1. CASE k = m
      BY <1>1, <1>6, <2>1, <2>3, <2>7, <3>1
    <3>2. CASE k # m
      <4>1. k \in 1 .. (m - 1)
        BY <1>2, <3>2
      <4>2. gh[k] = ph[k] /\ gl[k] = pl[k] /\ ph[k] \in 1 .. Len(p)
        BY <1>8, <2>7, <4>1
      <4>3. Len(q[ph[k]].steps) \in Nat /\ Len(p[ph[k]].steps) \in Nat
        <5>1. q[ph[k]] \in Phases(lines)
          BY <1>5, <1>6, <4>2
        <5>2. q[ph[k]].steps \in Seq(Nodes(lines))
          BY <5>1 DEF Phases
        <5>3. p[ph[k]].steps \in Seq(Nodes(lines))
          BY <1>4, <4>2
        <5> QED BY <5>2, <5>3
      <4>4. /\ pl[k] \in 1 .. Len(p[ph[k]].steps) /\ p[ph[k]].steps[pl[k]] = s[k]
            /\ p[ph[k]].parallel = ~ordered(lines, s[k])
        BY <1>9, <4>1
      <4>5. /\ q[ph[k]].parallel = p[ph[k]].parallel
            /\ Len(p[ph[k]].steps) <= Len(q[ph[k]].steps)
            /\ q[ph[k]].steps[pl[k]] = p[ph[k]].steps[pl[k]]
        BY <2>6, <4>2, <4>4
      <4>6. pl[k] \in 1 .. Len(q[ph[k]].steps) /\ ph[k] \in 1 .. Len(q)
        BY <1>6, <4>2, <4>3, <4>4, <4>5
      <4> QED BY <4>2, <4>4, <4>5, <4>6
    <3> QED BY <3>1, <3>2
  <2>10. ASSUME NEW r \in 1 .. Len(q), NEW j \in 1 .. Len(q[r].steps)
         PROVE  \E k \in 1 .. m : gh[k] = r /\ gl[k] = j
    <3>1. CASE r = Len(p) /\ j = l + 1
      BY <2>7, <3>1
    <3>2. CASE ~(r = Len(p) /\ j = l + 1)
      <4>1. r \in 1 .. Len(p) /\ j \in 1 .. Len(p[r].steps)
        <5>1. CASE r = Len(p)
          BY <1>6, <2>2, <2>3, <3>2, <5>1
        <5>2. CASE r # Len(p)
          <6>1. q[r] = p[r]
            BY <1>2, <1>6, <5>2
          <6> QED BY <1>6, <6>1
        <5> QED BY <5>1, <5>2
      <4>2. PICK k \in 1 .. (m - 1) : ph[k] = r /\ pl[k] = j
        BY <1>10, <4>1
      <4>3. k \in 1 .. m /\ gh[k] = r /\ gl[k] = j
        BY <2>7, <4>2
      <4> QED BY <4>3
    <3> QED BY <3>1, <3>2
  <2>11. ASSUME NEW k \in 2 .. m
         PROVE  \/ gh[k] = gh[k - 1] /\ gl[k] = gl[k - 1] + 1
                \/ gh[k] = gh[k - 1] + 1 /\ q[gh[k]].parallel # q[gh[k - 1]].parallel
    <3>1. CASE k = m
      <4>1. m - 1 \in 1 .. (m - 1) /\ m - 1 > 0
        BY <1>2, <3>1
      <4> QED BY <1>11, <2>2, <2>7, <3>1, <4>1
    <3>2. CASE k # m
      <4>1. k \in 2 .. (m - 1) /\ k \in 1 .. (m - 1) /\ k - 1 \in 1 .. (m - 1)
        BY <1>2, <3>2
      <4>2. ph[k] \in 1 .. Len(p) /\ ph[k - 1] \in 1 .. Len(p)
        BY <1>8, <4>1
      <4>3. q[ph[k]].parallel = p[ph[k]].parallel /\ q[ph[k - 1]].parallel = p[ph[k - 1]].parallel
        BY <2>6, <4>2
      <4> QED BY <1>13, <2>7, <4>1, <4>3
    <3> QED BY <3>1, <3>2
  <2>12. q # <<>> /\ Len(q[Len(q)].steps) = l + 1 /\ Len(q) = Len(p)
    BY <1>2, <1>6, <2>1, <2>3
  <2>13. Grouped(lines, q, s, m, gh, gl)
    BY <1>2, <1>5, <2>7, <2>8, <2>9, <2>10, <2>11, <2>12 DEF Grouped
  <2> QED BY <1>1, <2>13
<1>7. CASE Opens(lines, p, n, q)
  <2> USE DEF Opens
  <2>1. Len(p) \in Nat /\ Len(q[Len(q)].steps) = 1 /\ q[Len(q)].steps[1] = n /\ q # <<>>
    BY <1>2, <1>7
  <2>2. PICK gh : gh = [k \in 1 .. m |-> IF k = m THEN Len(q) ELSE ph[k]]
    OBVIOUS
  <2>3. PICK gl : gl = [k \in 1 .. m |-> IF k = m THEN 1 ELSE pl[k]]
    OBVIOUS
  <2>4. m \in 1 .. m /\ gh[m] = Len(q) /\ gl[m] = 1
        /\ \A k \in 1 .. (m - 1) : k \in 1 .. m /\ gh[k] = ph[k] /\ gl[k] = pl[k]
    BY <1>2, <2>2, <2>3
  <2>5. gh \in [1 .. m -> Nat] /\ gl \in [1 .. m -> Nat]
    BY <1>2, <1>3, <1>7, <2>1, <2>2, <2>3
  <2>6. ASSUME NEW k \in 1 .. m
        PROVE  /\ gh[k] \in 1 .. Len(q) /\ gl[k] \in 1 .. Len(q[gh[k]].steps)
               /\ q[gh[k]].steps[gl[k]] = s[k] /\ q[gh[k]].parallel = ~ordered(lines, s[k])
    <3>1. CASE k = m
      BY <1>1, <1>7, <2>1, <2>4, <3>1
    <3>2. CASE k # m
      <4>1. k \in 1 .. (m - 1)
        BY <1>2, <3>2
      <4>2. gh[k] = ph[k] /\ gl[k] = pl[k] /\ ph[k] \in 1 .. Len(p)
        BY <1>8, <2>4, <4>1
      <4>3. q[ph[k]] = p[ph[k]]
        BY <1>7, <4>2
      <4> QED BY <1>9, <2>1, <1>7, <4>1, <4>2, <4>3
    <3> QED BY <3>1, <3>2
  <2>7. ASSUME NEW r \in 1 .. Len(q), NEW j \in 1 .. Len(q[r].steps)
        PROVE  \E k \in 1 .. m : gh[k] = r /\ gl[k] = j
    <3>1. CASE r = Len(q)
      <4>1. q[r].steps = <<n>>
        BY <1>7, <3>1
      <4>2. j = 1
        BY <4>1
      <4> QED BY <2>4, <3>1, <4>2
    <3>2. CASE r # Len(q)
      <4>1. r \in 1 .. Len(p) /\ j \in 1 .. Len(p[r].steps)
        <5>1. r \in 1 .. Len(p)
          BY <1>7, <2>1, <3>2
        <5>2. q[r] = p[r]
          BY <1>7, <5>1
        <5> QED BY <5>1, <5>2
      <4>2. PICK k \in 1 .. (m - 1) : ph[k] = r /\ pl[k] = j
        BY <1>10, <4>1
      <4>3. k \in 1 .. m /\ gh[k] = r /\ gl[k] = j
        BY <2>4, <4>2
      <4> QED BY <4>3
    <3> QED BY <3>1, <3>2
  <2>8. ASSUME NEW k \in 2 .. m
        PROVE  \/ gh[k] = gh[k - 1] /\ gl[k] = gl[k - 1] + 1
               \/ gh[k] = gh[k - 1] + 1 /\ q[gh[k]].parallel # q[gh[k - 1]].parallel
    <3>1. CASE k = m
      <4>1. m - 1 \in 1 .. (m - 1) /\ m - 1 > 0
        BY <1>2, <3>1
      <4>2. p # <<>> /\ ph[m - 1] = Len(p) /\ Len(p) \in 1 .. Len(p)
        BY <1>2, <1>11, <4>1
      <4>3. q[Len(q)].parallel # q[Len(p)].parallel
        BY <1>7, <4>2
      <4> QED BY <1>7, <2>4, <3>1, <4>1, <4>2, <4>3
    <3>2. CASE k # m
      <4>1. k \in 2 .. (m - 1) /\ k \in 1 .. (m - 1) /\ k - 1 \in 1 .. (m - 1)
        BY <1>2, <3>2
      <4>2. ph[k] \in 1 .. Len(p) /\ ph[k - 1] \in 1 .. Len(p)
        BY <1>8, <4>1
      <4>3. q[ph[k]] = p[ph[k]] /\ q[ph[k - 1]] = p[ph[k - 1]]
        BY <1>7, <4>2
      <4>4. gh[k] = ph[k] /\ gl[k] = pl[k] /\ gh[k - 1] = ph[k - 1] /\ gl[k - 1] = pl[k - 1]
        BY <2>4, <4>1
      <4>5. \/ ph[k] = ph[k - 1] /\ pl[k] = pl[k - 1] + 1
            \/ ph[k] = ph[k - 1] + 1 /\ p[ph[k]].parallel # p[ph[k - 1]].parallel
        BY <1>13, <4>1
      <4> QED BY <4>3, <4>4, <4>5
    <3> QED BY <3>1, <3>2
  <2>9. Grouped(lines, q, s, m, gh, gl)
    BY <1>2, <1>5, <2>1, <2>4, <2>5, <2>6, <2>7, <2>8 DEF Grouped
  <2> QED BY <1>1, <2>9
<1>14. Joins(lines, p, n, q) \/ Opens(lines, p, n, q)
  BY <1>1, <1>2, AddStepIs
<1> QED BY <1>6, <1>7, <1>14


(* In a plan that holds the steps in order, phases and places grow, and    *)
(* steps share a phase when all between them are of one kind.              *)
LEMMA GroupedGrows ==
  ASSUME NEW lines, NEW p, NEW s, NEW m \in Nat, NEW ph, NEW pl, Grouped(lines, p, s, m, ph, pl),
         NEW j \in 1 .. m, NEW k \in 1 .. m, j < k
  PROVE  ph[j] < ph[k] \/ (ph[j] = ph[k] /\ pl[j] < pl[k])
<1>1. PICK n \in Nat : n = m - j - 1
  OBVIOUS
<1> DEFINE T == {d \in 0 .. n : \/ ph[j] < ph[j + 1 + d]
                                \/ ph[j] = ph[j + 1 + d] /\ pl[j] < pl[j + 1 + d]}
<1>2. \A l \in 1 .. m : ph[l] \in Nat /\ pl[l] \in Nat
  BY DEF Grouped
<1>3. \A l \in 2 .. m : \/ ph[l] = ph[l - 1] /\ pl[l] = pl[l - 1] + 1
                        \/ ph[l] = ph[l - 1] + 1
  BY DEF Grouped
<1>4. 0 \in T
  <2>1. j + 1 + 0 = j + 1 /\ (j + 1) - 1 = j /\ j + 1 \in 2 .. m /\ j + 1 \in 1 .. m /\ 0 \in 0 .. n
    BY <1>1
  <2>2. \/ ph[j + 1] = ph[j] /\ pl[j + 1] = pl[j] + 1
        \/ ph[j + 1] = ph[j] + 1
    BY <1>3, <2>1
  <2>3. ph[j] \in Nat /\ pl[j] \in Nat /\ ph[j + 1] \in Nat /\ pl[j + 1] \in Nat
    BY <1>2, <2>1
  <2>4. ph[j] < ph[j + 1] \/ (ph[j] = ph[j + 1] /\ pl[j] < pl[j + 1])
    BY <2>2, <2>3
  <2> QED BY <2>1, <2>4
<1>5. ASSUME NEW d \in 1 .. n, d - 1 \in T
      PROVE  d \in T
  <2>1. PICK l : l = j + 1 + d /\ l \in 2 .. m /\ l \in 1 .. m /\ l - 1 \in 1 .. m
                 /\ l - 1 = j + 1 + (d - 1)
    BY <1>1
  <2>2. \/ ph[l] = ph[l - 1] /\ pl[l] = pl[l - 1] + 1
        \/ ph[l] = ph[l - 1] + 1
    BY <1>3, <2>1
  <2>3. ph[l] \in Nat /\ pl[l] \in Nat /\ ph[l - 1] \in Nat /\ pl[l - 1] \in Nat
        /\ ph[j] \in Nat /\ pl[j] \in Nat
    BY <1>2, <2>1
  <2>4. ph[j] < ph[l - 1] \/ (ph[j] = ph[l - 1] /\ pl[j] < pl[l - 1])
    BY <1>5, <2>1
  <2>5. ph[j] < ph[l] \/ (ph[j] = ph[l] /\ pl[j] < pl[l])
    BY <2>2, <2>3, <2>4
  <2> QED BY <2>1, <2>5
<1> HIDE DEF T
<1>6. \A d \in 0 .. n : d \in T
  BY <1>4, <1>5, Induct
<1>7. k - j - 1 \in 0 .. n /\ j + 1 + (k - j - 1) = k
  BY <1>1
<1>8. k - j - 1 \in T
  BY <1>6, <1>7
<1> QED BY <1>7, <1>8 DEF T

OneKind(lines, s, j, k) == \A l \in j .. k : ordered(lines, s[l]) = ordered(lines, s[j])

(* Two steps share a phase when all between them are of one kind.          *)
LEMMA GroupedOrder ==
  ASSUME NEW lines, NEW p, NEW s, NEW m \in Nat, NEW ph, NEW pl, Grouped(lines, p, s, m, ph, pl),
         NEW j \in 1 .. m, NEW k \in 1 .. m, j < k
  PROVE  ph[j] = ph[k] <=> OneKind(lines, s, j, k)
<1>1. \A l \in 1 .. m : ph[l] \in Nat /\ p[ph[l]].parallel = ~ordered(lines, s[l])
  BY DEF Grouped
<1>2. \A l : ordered(lines, l) \in BOOLEAN
  BY DEF ordered
<1>3. ASSUME ph[j] = ph[k], NEW l \in j .. k
      PROVE  ordered(lines, s[l]) = ordered(lines, s[j])
  <2>1. l \in 1 .. m
    OBVIOUS
  <2>2. j = l \/ ph[j] <= ph[l]
    <3>1. CASE j < l
      <4>1. ph[j] < ph[l] \/ ph[j] = ph[l]
        BY <2>1, <3>1, GroupedGrows
      <4> QED BY <1>1, <2>1, <4>1
    <3> QED BY <3>1
  <2>3. l = k \/ ph[l] <= ph[k]
    <3>1. CASE l < k
      <4>1. ph[l] < ph[k] \/ ph[l] = ph[k]
        BY <2>1, <3>1, GroupedGrows
      <4> QED BY <1>1, <2>1, <4>1
    <3> QED BY <3>1
  <2>4. ph[l] = ph[j]
    BY <1>1, <1>3, <2>1, <2>2, <2>3
  <2>5. (~ordered(lines, s[l])) = (~ordered(lines, s[j]))
    BY <1>1, <2>1, <2>4
  <2> QED BY <1>2, <2>5
<1>4. ASSUME \A l \in j .. k : ordered(lines, s[l]) = ordered(lines, s[j])
      PROVE  ph[j] = ph[k]
  <2>1. PICK n \in Nat : n = k - j
    OBVIOUS
  <2> DEFINE T == {d \in 0 .. n : ph[j + d] = ph[j]}
  <2>2. 0 \in T
    OBVIOUS
  <2>3. ASSUME NEW d \in 1 .. n, d - 1 \in T
        PROVE  d \in T
    <3>1. PICK l : l = j + d /\ l \in 2 .. m /\ l \in 1 .. m /\ l - 1 \in 1 .. m
                   /\ l - 1 = j + (d - 1) /\ l \in j .. k /\ l - 1 \in j .. k
      BY <2>1
    <3>2. \/ ph[l] = ph[l - 1]
          \/ p[ph[l]].parallel # p[ph[l - 1]].parallel
      BY <3>1 DEF Grouped
    <3>3. ordered(lines, s[l]) = ordered(lines, s[l - 1])
      BY <1>4, <3>1
    <3>4. p[ph[l]].parallel = ~ordered(lines, s[l]) /\ p[ph[l - 1]].parallel = ~ordered(lines, s[l - 1])
      BY <1>1, <3>1
    <3>5. p[ph[l]].parallel = p[ph[l - 1]].parallel
      BY <3>3, <3>4
    <3> QED BY <2>3, <3>1, <3>2, <3>5
  <2> HIDE DEF T
  <2>4. n \in 0 .. n /\ n \in T
    BY <2>2, <2>3, Induct
  <2>5. j + n = k
    BY <2>1
  <2> QED BY <2>4, <2>5 DEF T
<1> QED BY <1>3, <1>4 DEF OneKind

PlanBy(f, lines, nodes) ==
  f = [k \in 0 .. Len(nodes) |-> IF k = 0 THEN <<>> ELSE AddStep(lines, f[k - 1], nodes[k])]

(* The function that buildExecutionPlan is the end of exists.              *)
LEMMA PlanExists ==
  ASSUME NEW lines, NEW s \in Seq(Nodes(lines))
  PROVE  \E f : PlanBy(f, lines, s)
<1>1. PICK n \in Nat : n = Len(s)
  OBVIOUS
<1>2. PICK S : S = Seq(Phases(lines))
  OBVIOUS
<1>3. PICK G : G = [x \in S \X (1 .. n) |-> AddStep(lines, x[1], s[x[2]])]
  OBVIOUS
<1>4. ASSUME NEW x \in S \X (1 .. n) PROVE AddStep(lines, x[1], s[x[2]]) \in S
  <2>1. x[1] \in Seq(Phases(lines)) /\ s[x[2]] \in Nodes(lines)
    BY <1>1, <1>2
  <2> QED BY <1>2, <2>1, AddStepIs
<1>5. G \in [S \X (1 .. n) -> S]
  BY <1>3, <1>4
<1>6. <<>> \in S
  BY <1>2
<1>7. PICK f \in [0 .. n -> S] : Recurs(f, n, <<>>, G)
  BY <1>5, <1>6, Recursion
<1>8. ASSUME NEW k \in 0 .. n
      PROVE  f[k] = IF k = 0 THEN <<>> ELSE AddStep(lines, f[k - 1], s[k])
  <2>1. CASE k = 0
    BY <1>7, <2>1 DEF Recurs
  <2>2. CASE k # 0
    <3>1. k \in 1 .. n /\ k - 1 \in 0 .. n
      BY <2>2
    <3>2. PICK x : x = <<f[k - 1], k>> /\ x \in S \X (1 .. n)
      BY <3>1
    <3>3. f[k] = G[x]
      BY <1>7, <3>1, <3>2 DEF Recurs
    <3>4. G[x] = AddStep(lines, f[k - 1], s[k])
      BY <1>3, <3>2
    <3> QED BY <2>2, <3>3, <3>4
  <2> QED BY <2>1, <2>2
<1>9. PICK h : h = [k \in 0 .. n |-> IF k = 0 THEN <<>> ELSE AddStep(lines, f[k - 1], s[k])]
  OBVIOUS
<1>10. f = h
  BY <1>8, <1>9
<1>11. PlanBy(f, lines, s)
  BY <1>1, <1>9, <1>10 DEF PlanBy
<1> QED BY <1>11

(* buildExecutionPlan groups all steps of its list.                        *)
LEMMA Built ==
  ASSUME NEW lines, NEW s \in Seq(Nodes(lines))
  PROVE  \E ph, pl : Grouped(lines, buildExecutionPlan(lines, s), s, Len(s), ph, pl)
<1>1. PICK n \in Nat : n = Len(s)
  OBVIOUS
<1> DEFINE f == CHOOSE f : PlanBy(f, lines, s)
<1>2. PlanBy(f, lines, s)
  BY PlanExists
<1>3. buildExecutionPlan(lines, s) = f[n]
  BY <1>1 DEF buildExecutionPlan, PlanBy
<1> HIDE DEF f
<1>4. f[0] = <<>> /\ \A k \in 1 .. n : f[k] = AddStep(lines, f[k - 1], s[k])
  <2>1. PICK h : h = [k \in 0 .. n |-> IF k = 0 THEN <<>> ELSE AddStep(lines, f[k - 1], s[k])]
    OBVIOUS
  <2>2. f = h
    BY <1>1, <1>2, <2>1, Zenon DEF PlanBy
  <2>3. h[0] = <<>> /\ \A k \in 1 .. n : h[k] = AddStep(lines, f[k - 1], s[k])
    BY <2>1
  <2> QED BY <2>2, <2>3
<1> DEFINE T == {k \in 0 .. n : \E ph, pl : Grouped(lines, f[k], s, k, ph, pl)}
<1>5. 0 \in T
  <2>1. PICK e : e = [k \in 1 .. 0 |-> 0]
    OBVIOUS
  <2>2. e \in [1 .. 0 -> Nat] /\ 1 .. 0 = {} /\ 2 .. 0 = {}
    BY <2>1
  <2>3. Grouped(lines, <<>>, s, 0, e, e)
    BY <2>2 DEF Grouped
  <2> QED BY <1>4, <2>3
<1>6. ASSUME NEW k \in 1 .. n, k - 1 \in T
      PROVE  k \in T
  <2>1. PICK ph, pl : Grouped(lines, f[k - 1], s, k - 1, ph, pl)
    BY <1>6
  <2>2. PICK gh, gl : Grouped(lines, AddStep(lines, f[k - 1], s[k]), s, k, gh, gl)
    BY <1>1, <2>1, GroupedNext
  <2> QED BY <1>4, <2>2
<1> HIDE DEF T
<1>7. \A k \in 0 .. n : k \in T
  BY <1>5, <1>6, Induct
<1>8. n \in T
  BY <1>7
<1> QED BY <1>1, <1>3, <1>8 DEF T

-----------------------------------------------------------------------------
(* The steps of a plan that was built from a list, one level of it.        *)

Entry(lines, s, ph, pl, parent, k) ==
  [step |-> s[k], parent |-> parent, phase |-> ph[k], place |-> pl[k],
   parallel |-> ~ordered(lines, s[k])]

(* Below of a grouped plan has an entry for each step of its list.         *)
LEMMA BelowGrouped ==
  ASSUME NEW lines, NEW p, NEW s, NEW m, NEW ph, NEW pl, NEW parent,
         Grouped(lines, p, s, m, ph, pl)
  PROVE  Below(p, parent) = {Entry(lines, s, ph, pl, parent, k) : k \in 1 .. m}
<1>1. p \in Seq(Phases(lines)) /\ DOMAIN p = 1 .. Len(p)
  BY DEF Grouped
<1>2. \A q \in 1 .. Len(p) : DOMAIN p[q].steps = 1 .. Len(p[q].steps)
  <2>1. ASSUME NEW q \in 1 .. Len(p) PROVE p[q].steps \in Seq(Nodes(lines))
    <3>1. p[q] \in Phases(lines)
      BY <1>1
    <3> QED BY <3>1 DEF Phases
  <2> QED BY <2>1
<1>3. ASSUME NEW k \in 1 .. m PROVE Entry(lines, s, ph, pl, parent, k) \in Below(p, parent)
  <2>1. /\ ph[k] \in DOMAIN p /\ pl[k] \in DOMAIN p[ph[k]].steps
        /\ p[ph[k]].steps[pl[k]] = s[k] /\ p[ph[k]].parallel = ~ordered(lines, s[k])
    BY <1>1, <1>2 DEF Grouped
  <2>2. PICK q, j : q = ph[k] /\ j = pl[k]
    OBVIOUS
  <2>3. PICK e : e = [step |-> p[q].steps[j], parent |-> parent, phase |-> q, place |-> j,
                      parallel |-> p[q].parallel]
    OBVIOUS
  <2>4. e \in Below(p, parent)
    BY <2>1, <2>2, <2>3 DEF Below
  <2>5. e = Entry(lines, s, ph, pl, parent, k)
    BY <2>1, <2>2, <2>3 DEF Entry
  <2> QED BY <2>4, <2>5
<1>4. ASSUME NEW e \in Below(p, parent)
      PROVE  \E k \in 1 .. m : e = Entry(lines, s, ph, pl, parent, k)
  <2>1. PICK q \in DOMAIN p : \E j \in DOMAIN p[q].steps :
          e = [step |-> p[q].steps[j], parent |-> parent, phase |-> q, place |-> j,
               parallel |-> p[q].parallel]
    BY DEF Below
  <2>9. PICK j \in DOMAIN p[q].steps :
          e = [step |-> p[q].steps[j], parent |-> parent, phase |-> q, place |-> j,
               parallel |-> p[q].parallel]
    BY <2>1
  <2>2. PICK k \in 1 .. m : ph[k] = q /\ pl[k] = j
    BY <1>1, <1>2 DEF Grouped
  <2>3. p[ph[k]].steps[pl[k]] = s[k] /\ p[ph[k]].parallel = ~ordered(lines, s[k])
    BY DEF Grouped
  <2> QED BY <2>2, <2>3, <2>9 DEF Entry
<1> QED BY <1>3, <1>4

(* What one level of a plan says about its steps: all are there once, in   *)
(* order, and grouped by kind.                                             *)
LEMMA BelowIs ==
  ASSUME NEW lines \in Seq(Lines), NEW s, NEW P, Listed(lines, s, P), NEW parent,
         NEW B, B = Below(buildExecutionPlan(lines, s), parent)
  PROVE  /\ \A e \in B : /\ e.step \in Nodes(lines) /\ e.step.at \in P /\ e.parent = parent
                         /\ e.parallel = ~ordered(lines, e.step)
         /\ \A i \in P : \E e \in B : e.step.at = i
         /\ \A m, n \in B : m.step.at = n.step.at => m = n
         /\ \A m, n \in B : m.step.at < n.step.at =>
              /\ m.phase < n.phase \/ (m.phase = n.phase /\ m.place < n.place)
              /\ m.phase = n.phase <=>
                   \A e \in B : e.step.at \in m.step.at .. n.step.at =>
                     ordered(lines, e.step) = ordered(lines, m.step)
<1>1. s \in Seq(Nodes(lines)) /\ Len(s) \in Nat
  BY DEF Listed
<1>2. PICK ph, pl : Grouped(lines, buildExecutionPlan(lines, s), s, Len(s), ph, pl)
  BY <1>1, Built
<1>3. B = {Entry(lines, s, ph, pl, parent, k) : k \in 1 .. Len(s)}
  BY <1>2, BelowGrouped
<1>4. \A k \in 1 .. Len(s) : s[k] \in Nodes(lines) /\ s[k].at \in P /\ s[k].at \in Nat
  <2>1. ASSUME NEW k \in 1 .. Len(s)
        PROVE  s[k] \in Nodes(lines) /\ s[k].at \in P /\ s[k].at \in Nat
    <3>1. s[k] \in Nodes(lines) /\ s[k].at \in P
      BY <1>1 DEF Listed
    <3>2. s[k].at \in 1 .. Len(lines)
      BY <3>1, NodeKnown, ItemIs
    <3> QED BY <3>1, <3>2
  <2> QED BY <2>1
<1>5. \A j, k \in 1 .. Len(s) : j < k => s[j].at < s[k].at
  BY DEF Listed
<1>6. \A k : /\ Entry(lines, s, ph, pl, parent, k).step = s[k]
             /\ Entry(lines, s, ph, pl, parent, k).parent = parent
             /\ Entry(lines, s, ph, pl, parent, k).phase = ph[k]
             /\ Entry(lines, s, ph, pl, parent, k).place = pl[k]
             /\ Entry(lines, s, ph, pl, parent, k).parallel = ~ordered(lines, s[k])
  BY DEF Entry
<1>7. \A e \in B : /\ e.step \in Nodes(lines) /\ e.step.at \in P /\ e.parent = parent
                   /\ e.parallel = ~ordered(lines, e.step)
  BY <1>3, <1>4, <1>6
<1>8. ASSUME NEW i \in P PROVE \E e \in B : e.step.at = i
  <2>1. PICK k \in 1 .. Len(s) : s[k].at = i
    BY DEF Listed
  <2> QED BY <1>3, <1>6, <2>1
<1>9. ASSUME NEW m \in B, NEW n \in B, m.step.at = n.step.at PROVE m = n
  <2>1. PICK j \in 1 .. Len(s), k \in 1 .. Len(s) :
          m = Entry(lines, s, ph, pl, parent, j) /\ n = Entry(lines, s, ph, pl, parent, k)
    BY <1>3
  <2>2. s[j].at = s[k].at /\ s[j].at \in Nat
    BY <1>4, <1>6, <1>9, <2>1
  <2>3. ~(j < k) /\ ~(k < j)
    BY <1>5, <2>2
  <2> QED BY <2>1, <2>3
<1>10. ASSUME NEW m \in B, NEW n \in B, m.step.at < n.step.at
       PROVE  /\ m.phase < n.phase \/ (m.phase = n.phase /\ m.place < n.place)
              /\ m.phase = n.phase <=>
                   \A e \in B : e.step.at \in m.step.at .. n.step.at =>
                     ordered(lines, e.step) = ordered(lines, m.step)
  <2>1. PICK j \in 1 .. Len(s), k \in 1 .. Len(s) :
          m = Entry(lines, s, ph, pl, parent, j) /\ n = Entry(lines, s, ph, pl, parent, k)
    BY <1>3
  <2>2. /\ m.step = s[j] /\ m.phase = ph[j] /\ m.place = pl[j]
        /\ n.step = s[k] /\ n.phase = ph[k] /\ n.place = pl[k]
    BY <1>6, <2>1
  <2>3. s[j].at \in Nat /\ s[k].at \in Nat /\ s[j].at < s[k].at
    BY <1>4, <1>10, <2>2
  <2>4. j < k
    <3>1. ~(k < j) /\ j # k
      BY <1>5, <2>3
    <3> QED BY <3>1
  <2>5. ph[j] < ph[k] \/ (ph[j] = ph[k] /\ pl[j] < pl[k])
    BY <1>1, <1>2, <2>4, GroupedGrows
  <2>6. ph[j] = ph[k] <=> OneKind(lines, s, j, k)
    BY <1>1, <1>2, <2>4, GroupedOrder
  <2>7. \A l \in 1 .. Len(s) : s[l].at \in s[j].at .. s[k].at <=> l \in j .. k
    <3>1. ASSUME NEW l \in 1 .. Len(s) PROVE s[l].at \in s[j].at .. s[k].at <=> l \in j .. k
      <4>1. s[l].at \in Nat
        BY <1>4
      <4>2. /\ l < j => s[l].at < s[j].at
            /\ k < l => s[k].at < s[l].at
            /\ j < l => s[j].at < s[l].at
            /\ l < k => s[l].at < s[k].at
        BY <1>5
      <4> QED BY <2>3, <2>4, <4>1, <4>2
    <3> QED BY <3>1
  <2>8. OneKind(lines, s, j, k) <=>
        (\A e \in B : e.step.at \in m.step.at .. n.step.at =>
                        ordered(lines, e.step) = ordered(lines, m.step))
    <3>1. ASSUME \A l \in j .. k : ordered(lines, s[l]) = ordered(lines, s[j]),
                 NEW e \in B, e.step.at \in m.step.at .. n.step.at
          PROVE  ordered(lines, e.step) = ordered(lines, m.step)
      <4>1. PICK l \in 1 .. Len(s) : e = Entry(lines, s, ph, pl, parent, l)
        BY <1>3
      <4>2. e.step = s[l]
        BY <1>6, <4>1
      <4>3. l \in j .. k
        BY <2>2, <2>7, <3>1, <4>2
      <4> QED BY <2>2, <3>1, <4>2, <4>3
    <3>2. ASSUME \A e \in B : e.step.at \in m.step.at .. n.step.at =>
                   ordered(lines, e.step) = ordered(lines, m.step),
                 NEW l \in j .. k
          PROVE  ordered(lines, s[l]) = ordered(lines, s[j])
      <4>1. l \in 1 .. Len(s)
        OBVIOUS
      <4>2. PICK e : e = Entry(lines, s, ph, pl, parent, l)
        OBVIOUS
      <4>3. e \in B /\ e.step = s[l]
        BY <1>3, <1>6, <4>1, <4>2
      <4>4. e.step.at \in m.step.at .. n.step.at
        BY <2>2, <2>7, <4>1, <4>3
      <4> QED BY <2>2, <3>2, <4>3, <4>4
    <3> QED BY <3>1, <3>2 DEF OneKind
  <2> QED BY <2>2, <2>5, <2>6, <2>8
<1> QED BY <1>7, <1>8, <1>9, <1>10

-----------------------------------------------------------------------------
(* The tree of the steps: which items are below which, by the parser.      *)

Children(lines, a) ==
  IF a = 0 THEN Siblings(lines, 1, 0)
  ELSE IF SubSteps(lines, a) THEN Siblings(lines, a + 1, listIndent(lines, a)) ELSE {}
Under(lines, a) ==
  IF a = 0 THEN parseStepNodes(lines)[1][0]
  ELSE IF SubSteps(lines, a) THEN parseStepNodes(lines)[a + 1][listIndent(lines, a)] ELSE <<>>
Members(lines, a) == Below(buildExecutionPlan(lines, Under(lines, a)), a)
Places(lines) == {0} \cup ItemLines(lines)

(* What the parser lists below an item, or at the top.                     *)
LEMMA UnderIs ==
  ASSUME NEW lines \in Seq(Lines), NEW a \in Places(lines)
  PROVE  Listed(lines, Under(lines, a), Children(lines, a))
<1>1. CASE a = 0
  <2>1. 1 \in 1 .. (Len(lines) + 1) /\ 0 \in Indents(lines)
    BY IndentsTyped
  <2> QED BY <1>1, <2>1, NodesListed DEF Under, Children
<1>2. CASE a # 0 /\ SubSteps(lines, a)
  <2>1. a \in 1 .. Len(lines)
    BY <1>2, ItemIs DEF Places
  <2>2. a + 1 \in 1 .. (Len(lines) + 1) /\ listIndent(lines, a) \in Indents(lines)
    BY <1>2, <2>1, SubStepsBelow, ListIndentIs
  <2> QED BY <1>2, <2>2, NodesListed DEF Under, Children
<1>3. CASE a # 0 /\ ~SubSteps(lines, a)
  BY <1>3, NoneListed DEF Under, Children
<1> QED BY <1>1, <1>2, <1>3

(* The sub-plan of a step is built from what is listed below its item.     *)
LEMMA SubIs ==
  ASSUME NEW lines \in Seq(Lines), NEW n \in Nodes(lines)
  PROVE  /\ n.at \in ItemLines(lines) /\ n.at \in 1 .. Len(lines) /\ n.at \in Places(lines)
         /\ n.sub = buildExecutionPlan(lines, Under(lines, n.at))
<1>1. n.at \in ItemLines(lines) /\ n = Node(lines, n.at)
  BY NodeKnown
<1>2. n.at \in 1 .. Len(lines)
  BY <1>1, ItemIs
<1>3. PICK i \in 1 .. Len(lines) : i = n.at
  BY <1>2
<1>4. Node(lines, i).sub = buildExecutionPlan(lines, Under(lines, i))
  BY <1>3 DEF Node, parseStepAt, Under
<1> QED BY <1>1, <1>2, <1>3, <1>4 DEF Places

(* Children come after their item, are indented deeper, and nothing        *)
(* between is indented less than they are.                                 *)
LEMMA ChildIs ==
  ASSUME NEW lines \in Seq(Lines), NEW a \in Places(lines), NEW c \in Children(lines, a)
  PROVE  /\ c \in ItemLines(lines) /\ c \in 1 .. Len(lines) /\ a \in Nat /\ a < c
         /\ a = 0 => lines[c].indent = 0
         /\ a # 0 => /\ SubSteps(lines, a) /\ lines[c].indent = listIndent(lines, a)
                     /\ lines[a].indent < lines[c].indent
         /\ \A k \in (a + 1) .. c : isEmpty(lines[k]) \/ lines[k].indent >= lines[c].indent
<1>1. CASE a = 0
  BY <1>1, ItemIs DEF Children, Siblings
<1>2. CASE a # 0
  <2>1. a \in 1 .. Len(lines) /\ SubSteps(lines, a) /\ c \in Siblings(lines, a + 1, listIndent(lines, a))
    BY <1>2, ItemIs DEF Places, Children
  <2>2. lines[a].indent < listIndent(lines, a) /\ lines[a].indent \in Nat
    BY <2>1, SubStepsBelow, ListIndentIs, LineIs
  <2>3. c \in ItemLines(lines) /\ a + 1 <= c /\ lines[c].indent = listIndent(lines, a)
        /\ \A k \in (a + 1) .. c : isEmpty(lines[k]) \/ lines[k].indent >= lines[c].indent
    BY <2>1 DEF Siblings
  <2>4. c \in 1 .. Len(lines)
    BY <2>3, ItemIs
  <2> QED BY <1>2, <2>1, <2>2, <2>3, <2>4
<1> QED BY <1>1, <1>2

(* The entries of one level.                                               *)
LEMMA MembersAre ==
  ASSUME NEW lines \in Seq(Lines), NEW a \in Places(lines), NEW e \in Members(lines, a)
  PROVE  /\ e.step \in Nodes(lines) /\ e.step.at \in Children(lines, a) /\ e.parent = a
         /\ e.parallel = ~ordered(lines, e.step)
         /\ Below(e.step.sub, e.step.at) = Members(lines, e.step.at)
         /\ e.step.at \in 1 .. Len(lines) /\ e.step.at \in Places(lines) /\ a < e.step.at
<1>1. e.step \in Nodes(lines) /\ e.step.at \in Children(lines, a) /\ e.parent = a
      /\ e.parallel = ~ordered(lines, e.step)
  BY UnderIs, BelowIs DEF Members
<1>2. Below(e.step.sub, e.step.at) = Members(lines, e.step.at)
  BY <1>1, SubIs DEF Members
<1> QED BY <1>1, <1>2, SubIs, ChildIs

(* The levels of StepsOf.                                                  *)
Sink(U) == U \cup UNION {Below(e.step.sub, e.step.at) : e \in U}
LevelsBy(f, lines) ==
  f = [d \in 0 .. Len(lines) |-> IF d = 0 THEN Below(ParsePlan(lines), 0) ELSE Sink(f[d - 1])]

(* The function that StepsOf is the end of exists.                         *)
LEMMA LevelsExist ==
  ASSUME NEW lines \in Seq(Lines)
  PROVE  \E f : LevelsBy(f, lines)
<1>1. PICK n \in Nat : n = Len(lines)
  OBVIOUS
<1>2. PICK S : S = SUBSET UNION {Members(lines, a) : a \in Places(lines)}
  OBVIOUS
<1>3. PICK b : b = Below(ParsePlan(lines), 0)
  OBVIOUS
<1>4. b \in S
  <2>1. b = Members(lines, 0)
    BY <1>3 DEF ParsePlan, PlanFrom, Members, Under
  <2> QED BY <1>2, <2>1 DEF Places
<1>5. ASSUME NEW U \in S PROVE Sink(U) \in S
  <2>1. ASSUME NEW e \in U PROVE Below(e.step.sub, e.step.at) \in S
    <3>1. PICK a \in Places(lines) : e \in Members(lines, a)
      BY <1>2
    <3>2. Below(e.step.sub, e.step.at) = Members(lines, e.step.at) /\ e.step.at \in Places(lines)
      BY <3>1, MembersAre
    <3> QED BY <1>2, <3>2
  <2> QED BY <1>2, <2>1 DEF Sink
<1>6. PICK G : G = [x \in S \X (1 .. n) |-> Sink(x[1])]
  OBVIOUS
<1>7. G \in [S \X (1 .. n) -> S]
  BY <1>5, <1>6
<1>8. PICK f \in [0 .. n -> S] : Recurs(f, n, b, G)
  BY <1>4, <1>7, Recursion
<1>9. ASSUME NEW k \in 0 .. n
      PROVE  f[k] = IF k = 0 THEN b ELSE Sink(f[k - 1])
  <2>1. CASE k = 0
    BY <1>8, <2>1 DEF Recurs
  <2>2. CASE k # 0
    <3>1. k \in 1 .. n /\ k - 1 \in 0 .. n
      BY <2>2
    <3>2. PICK x : x = <<f[k - 1], k>> /\ x \in S \X (1 .. n)
      BY <3>1
    <3>3. f[k] = G[x]
      BY <1>8, <3>1, <3>2 DEF Recurs
    <3>4. G[x] = Sink(f[k - 1])
      BY <1>6, <3>2
    <3> QED BY <2>2, <3>3, <3>4
  <2> QED BY <2>1, <2>2
<1>10. PICK h : h = [k \in 0 .. n |-> IF k = 0 THEN b ELSE Sink(f[k - 1])]
  OBVIOUS
<1>11. f = h
  BY <1>9, <1>10
<1>12. LevelsBy(f, lines)
  BY <1>1, <1>3, <1>10, <1>11 DEF LevelsBy
<1> QED BY <1>12

Levelled(f, lines, n) ==
  /\ n = Len(lines) /\ f[n] = StepsOf(lines)
  /\ f[0] = Members(lines, 0) /\ \A d \in 1 .. n : f[d] = Sink(f[d - 1])

(* StepsOf is the last level, and each level sinks from the one before.    *)
LEMMA LevelsAre ==
  ASSUME NEW lines \in Seq(Lines)
  PROVE  \E f, n : n \in Nat /\ Levelled(f, lines, n)
<1>1. PICK n \in Nat : n = Len(lines)
  OBVIOUS
<1> DEFINE f == CHOOSE f : LevelsBy(f, lines)
<1>2. LevelsBy(f, lines)
  BY LevelsExist
<1>3. StepsOf(lines) = f[n]
  BY <1>1 DEF StepsOf, LevelsBy, Sink
<1> HIDE DEF f
<1>4. f[0] = Below(ParsePlan(lines), 0) /\ \A d \in 1 .. n : f[d] = Sink(f[d - 1])
  <2>1. PICK h : h = [d \in 0 .. n |-> IF d = 0 THEN Below(ParsePlan(lines), 0) ELSE Sink(f[d - 1])]
    OBVIOUS
  <2>2. f = h
    BY <1>1, <1>2, <2>1, Zenon DEF LevelsBy
  <2>3. h[0] = Below(ParsePlan(lines), 0) /\ \A d \in 1 .. n : h[d] = Sink(f[d - 1])
    BY <2>1
  <2> QED BY <2>2, <2>3
<1>5. Below(ParsePlan(lines), 0) = Members(lines, 0)
  BY DEF ParsePlan, PlanFrom, Members, Under
<1>6. Levelled(f, lines, n)
  BY <1>1, <1>3, <1>4, <1>5 DEF Levelled
<1> QED BY <1>6

(* A level keeps the one before and adds what is below it.                 *)
LEMMA SinkIs ==
  ASSUME NEW U
  PROVE  /\ U \subseteq Sink(U)
         /\ \A m \in U : Below(m.step.sub, m.step.at) \subseteq Sink(U)
         /\ \A e \in Sink(U) : e \in U \/ \E m \in U : e \in Below(m.step.sub, m.step.at)
BY DEF Sink

(* All steps are those at the top and those below a step.                  *)
LEMMA StepHas ==
  ASSUME NEW lines \in Seq(Lines), NEW e \in StepsOf(lines)
  PROVE  \E a \in Places(lines) :
           e \in Members(lines, a) /\ (a # 0 => \E m \in StepsOf(lines) : m.step.at = a)
<1>0. PICK n \in Nat : \E f : Levelled(f, lines, n)
  BY LevelsAre
<1>1. PICK f : Levelled(f, lines, n)
  BY <1>0
<1> DEFINE Fits(d) ==
      \A x \in f[d] : \E a \in Places(lines) :
        x \in Members(lines, a) /\ (a # 0 => \E m \in f[d] : m.step.at = a)
<1> DEFINE T == {d \in 0 .. n : Fits(d)}
<1>2. 0 \in T
  BY <1>1 DEF Levelled, Places
<1>3. ASSUME NEW d \in 1 .. n, d - 1 \in T
      PROVE  d \in T
  <2>1. f[d] = Sink(f[d - 1]) /\ f[d - 1] \subseteq f[d] /\ Fits(d - 1)
    BY <1>1, <1>3, SinkIs DEF Levelled
  <2>2. ASSUME NEW x \in f[d]
        PROVE  \E a \in Places(lines) :
                 x \in Members(lines, a) /\ (a # 0 => \E m \in f[d] : m.step.at = a)
    <3>1. CASE x \in f[d - 1]
      BY <2>1, <3>1
    <3>2. CASE x \notin f[d - 1]
      <4>1. PICK m \in f[d - 1] : x \in Below(m.step.sub, m.step.at)
        BY <2>1, <2>2, <3>2, SinkIs
      <4>2. PICK a \in Places(lines) : m \in Members(lines, a)
        BY <2>1
      <4>3. x \in Members(lines, m.step.at) /\ m.step.at \in Places(lines) /\ m \in f[d]
        BY <2>1, <4>1, <4>2, MembersAre
      <4> QED BY <4>3
    <3> QED BY <3>1, <3>2
  <2> QED BY <2>2
<1> HIDE DEF T
<1>4. \A d \in 0 .. n : d \in T
  BY <1>2, <1>3, Induct
<1>5. n \in T /\ f[n] = StepsOf(lines)
  BY <1>1, <1>4 DEF Levelled
<1> QED BY <1>5 DEF T

(* The steps at the top are there, and those below a step: a plan is no    *)
(* deeper than its document is long.                                       *)
LEMMA StepsHave ==
  ASSUME NEW lines \in Seq(Lines)
  PROVE  /\ Members(lines, 0) \subseteq StepsOf(lines)
         /\ \A m \in StepsOf(lines) : Members(lines, m.step.at) \subseteq StepsOf(lines)
<1>0. PICK n \in Nat : \E f : Levelled(f, lines, n)
  BY LevelsAre
<1>1. PICK f : Levelled(f, lines, n)
  BY <1>0
<1>2. n = Len(lines) /\ f[n] = StepsOf(lines) /\ f[0] = Members(lines, 0)
      /\ \A d \in 1 .. n : f[d] = Sink(f[d - 1])
  BY <1>1 DEF Levelled
<1>3. \A d \in 0 .. n : f[0] \subseteq f[d]
  <2> DEFINE T == {d \in 0 .. n : f[0] \subseteq f[d]}
  <2>1. 0 \in T
    OBVIOUS
  <2>2. ASSUME NEW d \in 1 .. n, d - 1 \in T PROVE d \in T
    <3>1. f[d - 1] \subseteq f[d]
      BY <1>2, SinkIs
    <3> QED BY <2>2, <3>1
  <2> HIDE DEF T
  <2>3. \A d \in 0 .. n : d \in T
    BY <2>1, <2>2, Induct
  <2> QED BY <2>3 DEF T
(* A step stands on every level from the one before its line on.           *)
<1> DEFINE Stays(d) ==
      \A x \in f[d] : /\ \E a \in Places(lines) : x \in Members(lines, a)
                      /\ \A k \in 0 .. n : x.step.at <= k + 1 => x \in f[k]
<1> DEFINE T == {d \in 0 .. n : Stays(d)}
<1>4. 0 \in T
  <2>1. \A x \in f[0] : \E a \in Places(lines) : x \in Members(lines, a)
    BY <1>2 DEF Places
  <2> QED BY <1>3, <2>1
<1>5. ASSUME NEW d \in 1 .. n, d - 1 \in T
      PROVE  d \in T
  <2>1. f[d] = Sink(f[d - 1]) /\ Stays(d - 1)
    BY <1>2, <1>5
  <2>2. ASSUME NEW x \in f[d]
        PROVE  /\ \E a \in Places(lines) : x \in Members(lines, a)
               /\ \A k \in 0 .. n : x.step.at <= k + 1 => x \in f[k]
    <3>1. CASE x \in f[d - 1]
      BY <2>1, <3>1
    <3>2. CASE x \notin f[d - 1]
      <4>1. PICK m \in f[d - 1] : x \in Below(m.step.sub, m.step.at)
        BY <2>1, <2>2, <3>2, SinkIs
      <4>2. PICK a \in Places(lines) : m \in Members(lines, a)
        BY <2>1
      <4>3. x \in Members(lines, m.step.at) /\ m.step.at \in Places(lines) /\ m.step.at \in 1 .. Len(lines)
        BY <4>1, <4>2, MembersAre
      <4>4. m.step.at < x.step.at /\ x.step.at \in 1 .. Len(lines)
        BY <4>3, MembersAre
      <4>5. ASSUME NEW k \in 0 .. n, x.step.at <= k + 1 PROVE x \in f[k]
        <5>1. k \in 1 .. n /\ k - 1 \in 0 .. n /\ m.step.at <= (k - 1) + 1
          BY <4>3, <4>4, <4>5
        <5>2. m \in f[k - 1]
          BY <2>1, <5>1
        <5>3. f[k] = Sink(f[k - 1])
          BY <1>2, <5>1
        <5> QED BY <4>1, <5>2, <5>3, SinkIs
      <4> QED BY <4>3, <4>5
    <3> QED BY <3>1, <3>2
  <2> QED BY <2>2
<1> HIDE DEF T
<1>6. \A d \in 0 .. n : d \in T
  BY <1>4, <1>5, Induct
<1>7. Stays(n)
  BY <1>6 DEF T
<1>8. ASSUME NEW m \in StepsOf(lines), NEW e \in Members(lines, m.step.at)
      PROVE  e \in StepsOf(lines)
  <2>1. m \in f[n]
    BY <1>2
  <2>2. PICK a \in Places(lines) : m \in Members(lines, a)
    BY <1>7, <2>1
  <2>3. /\ m.step.at \in Places(lines) /\ m.step.at \in 1 .. Len(lines)
        /\ Below(m.step.sub, m.step.at) = Members(lines, m.step.at)
    BY <2>2, MembersAre
  <2>4. m.step.at < e.step.at /\ e.step.at \in 1 .. Len(lines)
    BY <2>3, MembersAre
  <2>5. n \in 1 .. n /\ n - 1 \in 0 .. n /\ m.step.at <= (n - 1) + 1
    BY <1>2, <2>3, <2>4
  <2>6. m \in f[n - 1]
    BY <1>7, <2>1, <2>5
  <2> QED BY <1>2, <2>3, <2>5, <2>6, SinkIs
<1>9. n \in 0 .. n
  OBVIOUS
<1> QED BY <1>2, <1>3, <1>8, <1>9

(* So a step's siblings are all there, whatever it is below.               *)
LEMMA StepsAre ==
  ASSUME NEW lines \in Seq(Lines), NEW e \in StepsOf(lines)
  PROVE  /\ e.parent \in Places(lines) /\ e \in Members(lines, e.parent)
         /\ Members(lines, e.parent) \subseteq StepsOf(lines)
         /\ e.step.at \in Places(lines) /\ e.step.at \in ItemLines(lines)
<1>1. PICK a \in Places(lines) :
        e \in Members(lines, a) /\ (a # 0 => \E m \in StepsOf(lines) : m.step.at = a)
  BY StepHas
<1>2. e.parent = a /\ e.step.at \in Places(lines) /\ e.step \in Nodes(lines)
  BY <1>1, MembersAre
<1>3. Members(lines, a) \subseteq StepsOf(lines)
  <2>1. CASE a = 0
    BY <2>1, StepsHave
  <2>2. CASE a # 0
    <3>1. PICK m \in StepsOf(lines) : m.step.at = a
      BY <1>1, <2>2
    <3> QED BY <3>1, StepsHave
  <2> QED BY <2>1, <2>2
<1> QED BY <1>1, <1>2, <1>3, SubIs

-----------------------------------------------------------------------------
(* The tree of the parser and the tree of the layout.                      *)

(* No item is below two others: the later of the two would be indented     *)
(* less than the item, between it and the earlier one.                     *)
LEMMA OneParent ==
  ASSUME NEW lines \in Seq(Lines), NEW a \in Places(lines), NEW b \in Places(lines),
         NEW c, c \in Children(lines, a), c \in Children(lines, b)
  PROVE  a = b
<1>1. ASSUME NEW x \in Places(lines), NEW y \in Places(lines),
             c \in Children(lines, x), c \in Children(lines, y), x < y
      PROVE  FALSE
  <2>1. x \in Nat /\ y \in Nat /\ y < c /\ c \in Nat
    BY <1>1, ChildIs
  <2>2. y # 0 /\ y \in ItemLines(lines)
    BY <1>1, <2>1 DEF Places
  <2>3. lines[y].indent < lines[c].indent /\ ~isEmpty(lines[y]) /\ lines[y].indent \in Nat
    BY <1>1, <2>2, ChildIs, ItemIs
  <2>4. lines[c].indent \in Nat
    BY <1>1, ChildIs, ItemIs
  <2>5. y \in (x + 1) .. c
    BY <1>1, <2>1
  <2>6. lines[y].indent >= lines[c].indent
    BY <1>1, <2>3, <2>5, ChildIs
  <2> QED BY <2>3, <2>4, <2>6
<1>2. a \in Nat /\ b \in Nat
  BY ChildIs
<1> QED BY <1>1, <1>2

(* Above is the last item before a line that is indented less.             *)
LEMMA AboveIs ==
  ASSUME NEW lines \in Seq(Lines), NEW i \in ItemLines(lines)
  PROVE  /\ Above(lines, i) \in Places(lines) /\ Above(lines, i) \in Nat /\ Above(lines, i) < i
         /\ Above(lines, i) # 0 => lines[Above(lines, i)].indent < lines[i].indent
         /\ \A j \in ItemLines(lines) :
              j < i /\ lines[j].indent < lines[i].indent => j <= Above(lines, i)
<1>1. i \in 1 .. Len(lines)
  BY ItemIs
<1>2. PICK S : S = {0} \cup {j \in ItemLines(lines) : j < i /\ lines[j].indent < lines[i].indent}
  OBVIOUS
<1>3. S \subseteq 0 .. Len(lines) /\ S # {}
  BY <1>2, ItemIs
<1>4. PICK a : a = Max(S)
  OBVIOUS
<1>5. a \in S /\ \A y \in S : y <= a
  <2>1. Len(lines) \in Nat
    OBVIOUS
  <2> QED BY <1>3, <1>4, <2>1, MaxIs
<1>6. Above(lines, i) = a
  BY <1>2, <1>4 DEF Above
<1>7. a \in Places(lines) /\ a \in Nat /\ a < i
  BY <1>1, <1>2, <1>3, <1>5 DEF Places
<1> QED BY <1>2, <1>5, <1>6, <1>7

(* And the only one with nothing between that is indented less.            *)
LEMMA AboveUnique ==
  ASSUME NEW lines \in Seq(Lines), NEW i \in ItemLines(lines), NEW a \in Places(lines),
         a < i, a # 0 => lines[a].indent < lines[i].indent,
         \A j \in ItemLines(lines) : a < j /\ j < i => lines[j].indent >= lines[i].indent
  PROVE  Above(lines, i) = a
<1>1. PICK b : b = Above(lines, i)
  OBVIOUS
<1>2. b \in Places(lines) /\ b \in Nat /\ b < i /\ (b # 0 => lines[b].indent < lines[i].indent)
  BY <1>1, AboveIs
<1>3. a \in Nat
  BY ItemIs DEF Places
<1>4. a <= b
  <2>1. CASE a = 0
    BY <1>2, <2>1
  <2>2. CASE a # 0
    <3>1. a \in ItemLines(lines)
      BY <2>2 DEF Places
    <3> QED BY <1>1, <2>2, <3>1, AboveIs
  <2> QED BY <2>1, <2>2
<1>5. ~(a < b)
  <2>1. SUFFICES ASSUME a < b PROVE FALSE
    OBVIOUS
  <2>2. b # 0 /\ b \in ItemLines(lines)
    BY <1>2, <1>3, <2>1 DEF Places
  <2>3. lines[b].indent \in Nat /\ lines[i].indent \in Nat
    BY <2>2, ItemIs
  <2> QED BY <1>2, <2>1, <2>2, <2>3
<1> QED BY <1>1, <1>2, <1>3, <1>4, <1>5

(* What the parser puts below a step is indented under it.                 *)
LEMMA ChildAbove ==
  ASSUME NEW lines \in Seq(Lines), NEW a \in Places(lines), NEW c \in Children(lines, a)
  PROVE  Above(lines, c) = a
<1>1. c \in ItemLines(lines) /\ c \in Nat /\ a \in Nat /\ a < c
      /\ (a # 0 => lines[a].indent < lines[c].indent)
  BY ChildIs
<1>2. ASSUME NEW j \in ItemLines(lines), a < j, j < c
      PROVE  lines[j].indent >= lines[c].indent
  <2>1. j \in 1 .. Len(lines) /\ ~isEmpty(lines[j])
    BY ItemIs
  <2>2. j \in (a + 1) .. c
    BY <1>1, <1>2, <2>1
  <2> QED BY <2>1, <2>2, ChildIs
<1> QED BY <1>1, <1>2, AboveUnique

-----------------------------------------------------------------------------
(* Documents without surprises.                                            *)

StepLines(lines) == {i \in ItemLines(lines) : lines[i].kind # "prop"}

(* What a document without surprises has.                                  *)
LEMMA RegularIs ==
  ASSUME NEW lines, Regular(lines)
  PROVE  /\ \A i \in ItemLines(lines) :
              \/ Above(lines, i) \in StepLines(lines)
              \/ lines[i].indent = 0 /\ i \in StepLines(lines)
         /\ \A i, j \in ItemLines(lines) : Above(lines, i) = Above(lines, j) =>
              lines[i].indent = lines[j].indent /\ (i \in StepLines(lines) <=> j \in StepLines(lines))
         /\ \A i \in DOMAIN lines : lines[i].kind = "text" =>
              \E j \in ItemLines(lines) :
                /\ j < i /\ lines[j].indent < lines[i].indent
                /\ \A k \in ItemLines(lines) :
                     \/ k <= j
                     \/ k > i /\ (Above(lines, k) = j => lines[k].indent <= lines[i].indent)
BY DEF Regular, StepLines

(* An item below another, by the parser.                                   *)
LEMMA ItemBelowIs ==
  ASSUME NEW lines \in Seq(Lines), NEW a \in ItemLines(lines), NEW j \in ItemsBelow(lines, a)
  PROVE  /\ j \in ItemLines(lines) /\ a < j /\ j < childEnd(lines, a)
         /\ lines[a].indent < lines[j].indent /\ a <= Above(lines, j)
<1>1. a \in 1 .. Len(lines) /\ lines[a].indent \in Nat
  BY ItemIs
<1>2. childEnd(lines, a) \in (a + 1) .. (Len(lines) + 1)
  BY <1>1, ChildEndIs
<1>3. j \in (a + 1) .. (childEnd(lines, a) - 1) /\ isItem(lines[j])
  BY DEF ItemsBelow
<1>4. j \in ItemLines(lines) /\ a < j /\ j < childEnd(lines, a)
  BY <1>1, <1>2, <1>3 DEF ItemLines
<1>5. Deeper(lines, j, lines[a].indent)
  BY <1>1, <1>3, ChildEndIs
<1>6. lines[a].indent < lines[j].indent
  BY <1>1, <1>4, <1>5, ItemIs DEF Deeper
<1>7. a <= Above(lines, j)
  BY <1>4, <1>6, AboveIs
<1> QED BY <1>4, <1>6, <1>7

(* No item below one is indented less than the first.                      *)
LEMMA FirstIsOuter ==
  ASSUME NEW lines \in Seq(Lines), Regular(lines), NEW a \in ItemLines(lines),
         NEW i \in ItemsBelow(lines, a)
  PROVE  listIndent(lines, a) \in Nat /\ lines[i].indent >= listIndent(lines, a)
<1>1. a \in 1 .. Len(lines)
  BY ItemIs
<1>2. PICK f \in ItemsBelow(lines, a) :
        (\A j \in ItemsBelow(lines, a) : f <= j) /\ listIndent(lines, a) = lines[f].indent
  BY <1>1, ListIndentIs
<1>3. \A j \in ItemsBelow(lines, a) :
        /\ j \in ItemLines(lines) /\ a < j /\ j < childEnd(lines, a) /\ a <= Above(lines, j)
        /\ j \in Nat /\ lines[j].indent \in Nat
  BY ItemBelowIs, ItemIs
<1> DEFINE S == {j \in ItemsBelow(lines, a) : lines[j].indent < lines[f].indent}
<1>4. SUFFICES ASSUME S # {} PROVE FALSE
  BY <1>2, <1>3
<1>5. S \subseteq Nat
  BY <1>3
<1>6. PICK k \in S : \A j \in S : k <= j
  <2> HIDE DEF S
  <2> QED BY <1>4, <1>5, Least
<1>7. \A j \in ItemsBelow(lines, a) : j <= k => Above(lines, j) = a
                                                \/ Above(lines, j) \in ItemsBelow(lines, a)
  <2>1. ASSUME NEW j \in ItemsBelow(lines, a), Above(lines, j) # a
        PROVE  Above(lines, j) \in ItemsBelow(lines, a)
    <3>1. j \in ItemLines(lines)
      BY <1>3
    <3>2. /\ Above(lines, j) \in Places(lines) /\ Above(lines, j) \in Nat /\ Above(lines, j) < j
          /\ a < Above(lines, j)
      BY <1>1, <1>3, <2>1, <3>1, AboveIs
    <3>3. isItem(lines[Above(lines, j)])
      BY <1>1, <3>2 DEF Places, ItemLines
    <3>4. childEnd(lines, a) \in Nat /\ j < childEnd(lines, a) /\ j \in Nat
      BY <1>1, <1>3, ChildEndIs
    <3>5. Above(lines, j) \in (a + 1) .. (childEnd(lines, a) - 1)
      BY <1>1, <3>2, <3>4
    <3> QED BY <3>3, <3>5 DEF ItemsBelow
  <2> QED BY <2>1
<1>8. Above(lines, k) = a
  <2>1. k \in ItemsBelow(lines, a) /\ lines[k].indent < lines[f].indent
    BY <1>6
  <2>2. SUFFICES ASSUME Above(lines, k) \in ItemsBelow(lines, a) PROVE FALSE
    BY <1>3, <1>7, <2>1
  <2>3. PICK l : l = Above(lines, k)
    OBVIOUS
  <2>4. l \in ItemsBelow(lines, a) /\ l < k /\ l # 0 /\ lines[l].indent < lines[k].indent
    BY <1>1, <1>3, <2>1, <2>2, <2>3, AboveIs
  <2>5. l \in S
    BY <1>3, <2>1, <2>4
  <2>6. k <= l
    BY <1>6, <2>5
  <2> QED BY <1>3, <2>1, <2>4, <2>6
<1>9. Above(lines, f) = a
  <2>1. f <= k
    BY <1>2, <1>6
  <2>2. SUFFICES ASSUME Above(lines, f) \in ItemsBelow(lines, a) PROVE FALSE
    BY <1>7, <2>1
  <2>3. f <= Above(lines, f) /\ Above(lines, f) < f /\ Above(lines, f) \in Nat
    BY <1>2, <1>3, <2>2, AboveIs
  <2> QED BY <1>3, <2>3
<1>10. lines[k].indent = lines[f].indent
  BY <1>3, <1>6, <1>8, <1>9, RegularIs
<1> QED BY <1>3, <1>6, <1>10

(* Text below an item is indented deeper than an item before it that is    *)
(* not above the first: so it does not end what is below the item.         *)
LEMMA TextContinues ==
  ASSUME NEW lines \in Seq(Lines), Regular(lines), NEW a \in ItemLines(lines),
         NEW t \in 1 .. Len(lines), lines[t].kind = "text", a < t, t <= childEnd(lines, a)
  PROVE  \E j \in ItemLines(lines) :
           /\ j < t /\ lines[j].indent < lines[t].indent /\ lines[t].indent > lines[a].indent
           /\ j = a \/ j \in ItemsBelow(lines, a)
           /\ \A k \in ItemLines(lines) :
                \/ k <= j
                \/ k > t /\ (Above(lines, k) = j => lines[k].indent <= lines[t].indent)
<1>1. a \in 1 .. Len(lines) /\ lines[a].indent \in Nat /\ lines[t].indent \in Nat
  BY ItemIs, LineIs
<1>2. t \in DOMAIN lines
  OBVIOUS
<1>3. PICK j \in ItemLines(lines) :
        /\ j < t /\ lines[j].indent < lines[t].indent
        /\ \A k \in ItemLines(lines) :
             \/ k <= j
             \/ k > t /\ (Above(lines, k) = j => lines[k].indent <= lines[t].indent)
  BY <1>2, RegularIs
<1>4. j \in 1 .. Len(lines) /\ lines[j].indent \in Nat /\ isItem(lines[j])
  BY ItemIs
<1>5. a <= j
  BY <1>1, <1>3
<1>6. childEnd(lines, a) \in Nat
  BY <1>1, ChildEndIs
<1>7. CASE j = a
  BY <1>3, <1>7
<1>8. CASE j # a
  <2>1. j \in (a + 1) .. (childEnd(lines, a) - 1)
    BY <1>1, <1>3, <1>4, <1>5, <1>6, <1>8
  <2>2. j \in ItemsBelow(lines, a)
    BY <1>4, <2>1 DEF ItemsBelow
  <2>3. lines[t].indent > lines[a].indent
    BY <1>1, <1>3, <1>4, <2>2, ItemBelowIs
  <2> QED BY <1>3, <2>2, <2>3
<1> QED BY <1>7, <1>8

(* A line that is no item is empty or text.                                *)
LEMMA NoItemIsText ==
  ASSUME NEW lines \in Seq(Lines), NEW k \in 1 .. Len(lines)
  PROVE  isEmpty(lines[k]) \/ lines[k].kind = "text" \/ k \in ItemLines(lines)
<1>1. lines[k] \in Lines
  BY LineIs
<1> QED BY <1>1 DEF Lines, Kinds, isEmpty, isItem, ItemLines

(* The items below a step at its list's indent are those indented under it.*)
LEMMA ChildItemsAre ==
  ASSUME NEW lines \in Seq(Lines), Regular(lines), NEW a \in ItemLines(lines)
  PROVE  childItems(lines, a) = {i \in ItemLines(lines) : Above(lines, i) = a}
<1>1. a \in 1 .. Len(lines) /\ lines[a].indent \in Nat
  BY ItemIs
<1>2. a # 0 /\ a \in Places(lines)
  BY <1>1 DEF Places
<1>3. childEnd(lines, a) \in (a + 1) .. (Len(lines) + 1)
  BY <1>1, ChildEndIs
<1>4. ASSUME NEW i \in childItems(lines, a)
      PROVE  i \in ItemLines(lines) /\ Above(lines, i) = a
  <2>1. i \in ItemsBelow(lines, a) /\ lines[i].indent = listIndent(lines, a)
    BY DEF childItems
  <2>2. i \in ItemLines(lines) /\ a < i /\ i < childEnd(lines, a) /\ lines[a].indent < lines[i].indent
    BY <2>1, ItemBelowIs
  <2>3. ASSUME NEW j \in ItemLines(lines), a < j, j < i
        PROVE  lines[j].indent >= lines[i].indent
    <3>1. j \in 1 .. Len(lines) /\ isItem(lines[j])
      BY ItemIs
    <3>2. i \in Nat
      BY <2>2, ItemIs
    <3>3. j \in (a + 1) .. (childEnd(lines, a) - 1)
      BY <1>1, <1>3, <2>2, <2>3, <3>1, <3>2
    <3>4. j \in ItemsBelow(lines, a)
      BY <3>1, <3>3 DEF ItemsBelow
    <3> QED BY <2>1, <3>4, FirstIsOuter
  <2> QED BY <1>2, <2>2, <2>3, AboveUnique
<1>5. ASSUME NEW i \in ItemLines(lines), Above(lines, i) = a
      PROVE  i \in childItems(lines, a)
  <2>1. a < i /\ lines[a].indent < lines[i].indent
    BY <1>2, <1>5, AboveIs
  <2>2. i \in 1 .. Len(lines) /\ isItem(lines[i]) /\ lines[i].indent \in Nat
    BY ItemIs
  <2>3. PICK e : e = childEnd(lines, a)
    OBVIOUS
  <2>4. i < e
    <3>1. SUFFICES ASSUME e <= i PROVE FALSE
      BY <1>3, <2>2, <2>3
    <3>2. e \in 1 .. Len(lines) /\ a < e /\ ~isEmpty(lines[e]) /\ lines[e].indent <= lines[a].indent
      BY <1>1, <1>3, <2>2, <2>3, <3>1, ChildEndIs
    <3>3. lines[e].indent \in Nat
      BY <3>2, LineIs
    <3>4. CASE e \in ItemLines(lines)
      <4>1. e < i /\ lines[e].indent < lines[i].indent
        <5>1. lines[e].indent < lines[i].indent
          BY <1>1, <2>1, <2>2, <3>2, <3>3
        <5>2. e # i
          BY <2>2, <5>1
        <5> QED BY <2>2, <3>1, <3>2, <5>1, <5>2
      <4>2. e <= a
        BY <1>5, <3>4, <4>1, AboveIs
      <4> QED BY <1>1, <3>2, <4>2
    <3>5. CASE e \notin ItemLines(lines)
      <4>1. lines[e].kind = "text"
        BY <3>2, <3>5, NoItemIsText
      <4>2. e <= childEnd(lines, a)
        BY <2>3, <3>2
      <4>3. lines[e].indent > lines[a].indent
        BY <3>2, <4>1, <4>2, TextContinues
      <4> QED BY <1>1, <3>2, <3>3, <4>3
    <3> QED BY <3>4, <3>5
  <2>5. i \in (a + 1) .. (e - 1)
    BY <1>1, <1>3, <2>1, <2>2, <2>3, <2>4
  <2>6. i \in ItemsBelow(lines, a)
    BY <2>2, <2>3, <2>5 DEF ItemsBelow
  <2>7. PICK f \in ItemsBelow(lines, a) :
          (\A j \in ItemsBelow(lines, a) : f <= j) /\ listIndent(lines, a) = lines[f].indent
    BY <1>1, <2>6, ListIndentIs
  <2>8. f \in childItems(lines, a)
    BY <2>7 DEF childItems
  <2>9. f \in ItemLines(lines) /\ Above(lines, f) = a
    BY <1>4, <2>8
  <2>10. lines[i].indent = lines[f].indent
    BY <1>5, <2>9, RegularIs
  <2> QED BY <2>6, <2>7, <2>10 DEF childItems
<1> QED BY <1>4, <1>5

(* And if they are its sub-steps, the parser finds all of them.            *)
LEMMA ChildrenAre ==
  ASSUME NEW lines \in Seq(Lines), Regular(lines), NEW i \in StepLines(lines)
  PROVE  i \in Children(lines, Above(lines, i)) /\ Above(lines, i) \in {0} \cup StepLines(lines)
<1>1. i \in ItemLines(lines) /\ i \in 1 .. Len(lines) /\ lines[i].indent \in Nat /\ lines[i].kind # "prop"
  BY ItemIs DEF StepLines
<1>2. PICK a : a = Above(lines, i)
  OBVIOUS
<1>3. a \in Places(lines) /\ a \in Nat /\ a < i
  BY <1>1, <1>2, AboveIs
<1>4. CASE a = 0
  <2>1. 0 \notin ItemLines(lines)
    BY ItemIs
  <2>2. lines[i].indent = 0
    BY <1>1, <1>2, <1>4, <2>1, RegularIs DEF StepLines
  <2>3. \A k \in 1 .. i : lines[k].indent >= 0
    <3>1. ASSUME NEW k \in 1 .. i PROVE lines[k].indent >= 0
      <4>1. k \in 1 .. Len(lines)
        BY <1>1
      <4>2. lines[k].indent \in Nat
        BY <4>1, LineIs
      <4> QED BY <4>2
    <3> QED BY <3>1
  <2>4. i \in Siblings(lines, 1, 0)
    BY <1>1, <2>2, <2>3 DEF Siblings
  <2> QED BY <1>2, <1>4, <2>4 DEF Children
<1>5. CASE a # 0
  <2>1. a \in ItemLines(lines) /\ a \in 1 .. Len(lines) /\ lines[a].indent \in Nat
    BY <1>3, <1>5, ItemIs DEF Places
  <2>2. lines[a].indent < lines[i].indent
    BY <1>1, <1>2, <1>5, AboveIs
  <2>3. a \in StepLines(lines)
    BY <1>1, <1>2, <2>1, <2>2, RegularIs
  <2>4. i \in childItems(lines, a)
    BY <1>1, <1>2, <2>1, ChildItemsAre
  <2>5. SubSteps(lines, a)
    BY <1>1, <2>4 DEF SubSteps, allChildrenAreProperties
  <2>6. i \in ItemsBelow(lines, a) /\ lines[i].indent = listIndent(lines, a)
    BY <2>4 DEF childItems
  <2>7. i < childEnd(lines, a) /\ childEnd(lines, a) \in Nat
    BY <2>1, <2>6, ItemBelowIs, ChildEndIs
  <2>8. ASSUME NEW k \in (a + 1) .. i
        PROVE  isEmpty(lines[k]) \/ lines[k].indent >= lines[i].indent
    <3>1. k \in 1 .. Len(lines) /\ k < childEnd(lines, a) /\ a < k
      BY <1>1, <2>1, <2>7
    <3>2. CASE k \in ItemLines(lines)
      <4>1. k \in (a + 1) .. (childEnd(lines, a) - 1) /\ isItem(lines[k])
        BY <2>1, <2>7, <3>1, <3>2, ItemIs
      <4>2. k \in ItemsBelow(lines, a)
        BY <4>1 DEF ItemsBelow
      <4> QED BY <2>1, <2>6, <4>2, FirstIsOuter
    <3>3. CASE lines[k].kind = "text"
      <4>1. k <= childEnd(lines, a)
        BY <2>7, <3>1
      <4>2. PICK j \in ItemLines(lines) :
              /\ j < k /\ lines[j].indent < lines[k].indent
              /\ j = a \/ j \in ItemsBelow(lines, a)
              /\ \A l \in ItemLines(lines) :
                   \/ l <= j
                   \/ l > k /\ (Above(lines, l) = j => lines[l].indent <= lines[k].indent)
        BY <2>1, <3>1, <3>3, <4>1, TextContinues
      <4>3. CASE j = a
        <5>1. ~(i <= j)
          BY <1>1, <1>2, <1>3, <4>3
        <5>2. lines[i].indent <= lines[k].indent
          BY <1>1, <1>2, <4>2, <4>3, <5>1
        <5>3. lines[k].indent \in Nat
          BY <3>1, LineIs
        <5> QED BY <1>1, <5>2, <5>3
      <4>4. CASE j \in ItemsBelow(lines, a)
        <5>1. lines[j].indent >= listIndent(lines, a)
          BY <2>1, <4>4, FirstIsOuter
        <5>2. lines[j].indent \in Nat /\ lines[k].indent \in Nat
          BY <3>1, ItemIs, LineIs
        <5> QED BY <1>1, <2>6, <4>2, <5>1, <5>2
      <4> QED BY <4>2, <4>3, <4>4
    <3> QED BY <3>1, <3>2, <3>3, NoItemIsText
  <2>9. a + 1 <= i
    BY <1>1, <1>3
  <2>10. i \in Siblings(lines, a + 1, listIndent(lines, a))
    BY <1>1, <2>6, <2>8, <2>9 DEF Siblings
  <2> QED BY <1>2, <1>5, <2>3, <2>5, <2>10 DEF Children
<1> QED BY <1>4, <1>5

(* What the parser takes for a step is one.                                *)
LEMMA ChildIsStep ==
  ASSUME NEW lines \in Seq(Lines), Regular(lines), NEW a \in Places(lines),
         NEW c \in Children(lines, a)
  PROVE  c \in StepLines(lines)
<1>1. c \in ItemLines(lines) /\ Above(lines, c) = a
  BY ChildIs, ChildAbove
<1>2. CASE a = 0
  <2>1. 0 \notin ItemLines(lines)
    BY ItemIs
  <2> QED BY <1>1, <1>2, <2>1, RegularIs DEF StepLines
<1>3. CASE a # 0
  <2>1. a \in ItemLines(lines) /\ SubSteps(lines, a)
    BY <1>3, ChildIs DEF Places
  <2>2. PICK j \in childItems(lines, a) : lines[j].kind # "prop"
    BY <2>1 DEF SubSteps, allChildrenAreProperties
  <2>3. j \in ItemLines(lines) /\ Above(lines, j) = a
    BY <2>1, ChildItemsAre
  <2>4. j \in StepLines(lines)
    BY <2>2, <2>3 DEF StepLines
  <2> QED BY <1>1, <2>3, <2>4, RegularIs
<1> QED BY <1>2, <1>3

(* And what it takes for properties are all of them.                       *)
LEMMA PropsAre ==
  ASSUME NEW lines \in Seq(Lines), Regular(lines), NEW a \in ItemLines(lines)
  PROVE  Node(lines, a).props =
           {i \in ItemLines(lines) : lines[i].kind = "prop" /\ Above(lines, i) = a}
<1>1. Node(lines, a).props = IF SubSteps(lines, a) THEN {} ELSE childItems(lines, a)
  BY DEF Node, parseStepAt
<1>2. childItems(lines, a) = {i \in ItemLines(lines) : Above(lines, i) = a}
  BY ChildItemsAre
<1>3. CASE ~SubSteps(lines, a)
  BY <1>1, <1>2, <1>3 DEF SubSteps, allChildrenAreProperties
<1>4. CASE SubSteps(lines, a)
  <2>1. PICK j \in childItems(lines, a) : lines[j].kind # "prop"
    BY <1>4 DEF SubSteps, allChildrenAreProperties
  <2>2. j \in StepLines(lines) /\ j \in ItemLines(lines) /\ Above(lines, j) = a
    BY <1>2, <2>1 DEF StepLines
  <2>3. ASSUME NEW i \in ItemLines(lines), Above(lines, i) = a PROVE lines[i].kind # "prop"
    <3>1. i \in StepLines(lines)
      BY <2>2, <2>3, RegularIs
    <3> QED BY <3>1 DEF StepLines
  <2> QED BY <1>1, <1>4, <2>3
<1> QED BY <1>3, <1>4

(* No step of the document is lost: the first lost one would be below one  *)
(* that is not.                                                            *)
LEMMA StepsFound ==
  ASSUME NEW lines \in Seq(Lines), Regular(lines), NEW i \in StepLines(lines)
  PROVE  \E e \in StepsOf(lines) : e.step.at = i
<1> DEFINE Lost == {j \in StepLines(lines) : ~ \E e \in StepsOf(lines) : e.step.at = j}
<1>1. SUFFICES ASSUME Lost # {} PROVE FALSE
  OBVIOUS
<1>2. Lost \subseteq Nat
  BY ItemIs DEF StepLines
<1>3. PICK j \in Lost : \A k \in Lost : j <= k
  <2> HIDE DEF Lost
  <2> QED BY <1>1, <1>2, Least
<1>4. PICK a : a = Above(lines, j)
  OBVIOUS
<1>5. j \in Children(lines, a) /\ a \in {0} \cup StepLines(lines)
  BY <1>3, <1>4, ChildrenAre
<1>6. j \in ItemLines(lines) /\ a \in Nat /\ a < j /\ a \in Places(lines) /\ j \in Nat
  BY <1>2, <1>3, <1>4, AboveIs DEF StepLines
<1>7. Members(lines, a) \subseteq StepsOf(lines)
  <2>1. CASE a = 0
    BY <2>1, StepsHave
  <2>2. CASE a # 0
    <3>1. a \notin Lost
      BY <1>3, <1>6
    <3>2. PICK m \in StepsOf(lines) : m.step.at = a
      BY <1>5, <2>2, <3>1
    <3> QED BY <3>2, StepsHave
  <2> QED BY <2>1, <2>2
<1>8. \E e \in Members(lines, a) : e.step.at = j
  BY <1>5, <1>6, UnderIs, BelowIs DEF Members
<1> QED BY <1>3, <1>7, <1>8

(* Steps below the same item are members of one list.                      *)
LEMMA SameList ==
  ASSUME NEW lines \in Seq(Lines), NEW m \in StepsOf(lines)
  PROVE  Members(lines, m.parent) = {e \in StepsOf(lines) : e.parent = m.parent}
<1>1. m.parent \in Places(lines) /\ Members(lines, m.parent) \subseteq StepsOf(lines)
  BY StepsAre
<1>2. ASSUME NEW e \in Members(lines, m.parent) PROVE e.parent = m.parent
  BY <1>1, MembersAre
<1>3. ASSUME NEW e \in StepsOf(lines), e.parent = m.parent PROVE e \in Members(lines, m.parent)
  BY <1>3, StepsAre
<1> QED BY <1>1, <1>2, <1>3

(* The plan of any document says what the document says.                   *)
LEMMA StepsFaithful ==
  ASSUME NEW lines \in Seq(Lines)
  PROVE  PlanFaithful(lines)
<1>1. PICK all : all = StepsOf(lines)
  OBVIOUS
<1>2. \A n : (lines[n.step.at].kind = "num") = ordered(lines, n.step)
  BY DEF ordered
<1>3. ASSUME NEW m \in all, NEW n \in all, m.step.at = n.step.at
      PROVE  m = n
  <2>1. /\ m.parent \in Places(lines) /\ m \in Members(lines, m.parent)
        /\ n.parent \in Places(lines) /\ n \in Members(lines, n.parent)
    BY <1>1, StepsAre
  <2>2. m.step.at \in Children(lines, m.parent) /\ n.step.at \in Children(lines, n.parent)
    BY <2>1, MembersAre
  <2>3. m.parent = n.parent
    BY <1>3, <2>1, <2>2, OneParent
  <2>4. n \in Members(lines, m.parent)
    BY <2>1, <2>3
  <2> QED BY <1>3, <2>1, <2>4, UnderIs, BelowIs DEF Members
<1>4. ASSUME NEW n \in all
      PROVE  /\ n.step.at \in ItemLines(lines) /\ n.parent < n.step.at
             /\ n.parallel = ~(lines[n.step.at].kind = "num")
             /\ n.parent # 0 =>
                  \A j \in (n.parent + 1) .. n.step.at :
                    isEmpty(lines[j]) \/ lines[j].indent > lines[n.parent].indent
  <2>1. n.parent \in Places(lines) /\ n \in Members(lines, n.parent) /\ n.step.at \in ItemLines(lines)
    BY <1>1, StepsAre
  <2>2. n.step.at \in Children(lines, n.parent) /\ n.parallel = ~ordered(lines, n.step)
    BY <2>1, MembersAre
  <2>3. PICK a, c : a = n.parent /\ c = n.step.at
    OBVIOUS
  <2>4. c \in 1 .. Len(lines) /\ a \in Nat /\ a < c /\ lines[c].indent \in Nat
    BY <2>1, <2>2, <2>3, ChildIs, ItemIs
  <2>5. ASSUME a # 0, NEW j \in (a + 1) .. c
        PROVE  isEmpty(lines[j]) \/ lines[j].indent > lines[a].indent
    <3>1. a \in ItemLines(lines) /\ lines[a].indent \in Nat
      BY <2>1, <2>3, <2>5, ItemIs DEF Places
    <3>2. lines[a].indent < lines[c].indent
      BY <2>1, <2>2, <2>3, <2>5, ChildIs
    <3>3. isEmpty(lines[j]) \/ lines[j].indent >= lines[c].indent
      BY <2>1, <2>2, <2>3, <2>5, ChildIs
    <3>4. j \in 1 .. Len(lines)
      BY <2>4
    <3>5. lines[j].indent \in Nat
      BY <3>4, LineIs
    <3> QED BY <2>4, <3>1, <3>2, <3>3, <3>5
  <2>6. n.parallel = ~(lines[n.step.at].kind = "num")
    BY <2>2 DEF ordered
  <2> QED BY <2>1, <2>3, <2>4, <2>5, <2>6
<1>5. ASSUME NEW m \in all, NEW n \in all, m.step.at < n.step.at, m.parent = n.parent
      PROVE  /\ lines[m.step.at].indent = lines[n.step.at].indent
             /\ m.phase < n.phase \/ (m.phase = n.phase /\ m.place < n.place)
             /\ m.phase = n.phase <=>
                  \A e \in {e \in all : e.parent = m.parent /\ e.step.at \in m.step.at .. n.step.at} :
                    (lines[e.step.at].kind = "num") = (lines[m.step.at].kind = "num")
  <2>1. PICK a : a = m.parent
    OBVIOUS
  <2>2. a \in Places(lines) /\ m \in Members(lines, a) /\ n \in Members(lines, a)
    BY <1>1, <1>5, <2>1, StepsAre
  <2>3. m.step.at \in Children(lines, a) /\ n.step.at \in Children(lines, a)
    BY <2>2, MembersAre
  <2>4. lines[m.step.at].indent = lines[n.step.at].indent
    BY <2>2, <2>3, ChildIs
  <2>5. PICK B : B = Members(lines, a)
    OBVIOUS
  <2>6. /\ m.phase < n.phase \/ (m.phase = n.phase /\ m.place < n.place)
        /\ m.phase = n.phase <=>
             \A e \in B : e.step.at \in m.step.at .. n.step.at =>
               ordered(lines, e.step) = ordered(lines, m.step)
    <3>1. /\ Listed(lines, Under(lines, a), Children(lines, a))
          /\ B = Below(buildExecutionPlan(lines, Under(lines, a)), a)
          /\ m \in B /\ n \in B
      BY <2>2, <2>5, UnderIs DEF Members
    <3> QED BY <1>5, <3>1, BelowIs
  <2>7. B = {e \in all : e.parent = m.parent}
    BY <1>1, <2>1, <2>5, SameList
  <2>8. (\A e \in B : e.step.at \in m.step.at .. n.step.at =>
                        ordered(lines, e.step) = ordered(lines, m.step)) <=>
        (\A e \in {e \in all : e.parent = m.parent /\ e.step.at \in m.step.at .. n.step.at} :
           (lines[e.step.at].kind = "num") = (lines[m.step.at].kind = "num"))
    BY <2>7 DEF ordered
  <2> QED BY <2>4, <2>6, <2>8
<1>6. ASSUME Regular(lines)
      PROVE  /\ {n.step.at : n \in all} = {i \in ItemLines(lines) : lines[i].kind # "prop"}
             /\ \A n \in all :
                  /\ n.parent = Above(lines, n.step.at)
                  /\ n.step.props = {i \in ItemLines(lines) :
                       lines[i].kind = "prop" /\ Above(lines, i) = n.step.at}
  <2>1. ASSUME NEW n \in all
        PROVE  /\ n.step.at \in StepLines(lines) /\ n.parent = Above(lines, n.step.at)
               /\ n.step.props = {i \in ItemLines(lines) :
                    lines[i].kind = "prop" /\ Above(lines, i) = n.step.at}
    <3>1. n.parent \in Places(lines) /\ n \in Members(lines, n.parent) /\ n.step.at \in ItemLines(lines)
      BY <1>1, StepsAre
    <3>2. n.step.at \in Children(lines, n.parent) /\ n.step \in Nodes(lines)
      BY <3>1, MembersAre
    <3>3. n.step.at \in StepLines(lines) /\ n.parent = Above(lines, n.step.at)
      BY <1>6, <3>1, <3>2, ChildIsStep, ChildAbove
    <3>4. n.step = Node(lines, n.step.at)
      BY <3>2, NodeKnown
    <3>5. PICK i \in ItemLines(lines) : i = n.step.at
      BY <3>1
    <3>6. n.step.props = Node(lines, i).props
      BY <3>4, <3>5
    <3>7. Node(lines, i).props =
            {k \in ItemLines(lines) : lines[k].kind = "prop" /\ Above(lines, k) = i}
      BY <1>6, PropsAre
    <3> QED BY <3>3, <3>5, <3>6, <3>7
  <2>2. ASSUME NEW i \in StepLines(lines) PROVE \E n \in all : n.step.at = i
    BY <1>1, <1>6, StepsFound
  <2>3. {n.step.at : n \in all} = StepLines(lines)
    BY <2>1, <2>2
  <2> QED BY <2>1, <2>3 DEF StepLines
<1> QED BY <1>1, <1>3, <1>4, <1>5, <1>6 DEF PlanFaithful

(* What the executor needs of plans, the parser ensures: a plan that is    *)
(* executed has a phase, and the sub-plan of a step is a plan or empty.    *)
LEMMA NodePlan ==
  ASSUME NEW lines \in Documents, NEW n \in Nodes(lines)
  PROVE  n.sub \in Plans \cup {<<>>}
<1>1. lines \in Seq(Lines)
  BY DocumentsAssumption
<1>2. n.at \in 1 .. Len(lines) /\ n.sub = buildExecutionPlan(lines, Under(lines, n.at))
  BY <1>1, SubIs
<1>3. PICK a \in 1 .. Len(lines) : a = n.at
  BY <1>2
<1>4. CASE SubSteps(lines, a)
  <2>1. a + 1 \in 1 .. (Len(lines) + 1) /\ listIndent(lines, a) \in Indents(lines)
    BY <1>1, <1>4, SubStepsBelow, ListIndentIs
  <2>2. n.sub = PlanFrom(lines, a + 1, listIndent(lines, a))
    BY <1>2, <1>3, <1>4 DEF Under, PlanFrom
  <2>3. n.sub \in PlansIn(lines)
    BY <2>1, <2>2 DEF PlansIn
  <2> QED BY <2>3 DEF Plans
<1>5. CASE ~SubSteps(lines, a)
  <2>1. Under(lines, n.at) = <<>>
    BY <1>3, <1>5 DEF Under
  <2>5. PICK s : s = <<>>
    OBVIOUS
  <2>2. s \in Seq(Nodes(lines)) /\ s = <<>> /\ Len(s) = 0
    BY <2>5
  <2>3. PICK ph, pl : Grouped(lines, buildExecutionPlan(lines, s), s, Len(s), ph, pl)
    BY <2>2, Built
  <2>4. buildExecutionPlan(lines, s) = <<>>
    BY <2>2, <2>3 DEF Grouped
  <2> QED BY <1>2, <2>1, <2>2, <2>4
<1> QED BY <1>4, <1>5

(* The plans a playbook may run are plans of its documents.                *)
LEMMA PlansOfAre ==
  ASSUME NEW r \in Runs
  PROVE  PlansOf[r] \subseteq Plans
<1> SUFFICES ASSUME NEW plan \in PlansOf[r] PROVE plan \in Plans
  OBVIOUS
<1>1. PICK lines \in DocumentsOf[r] : plan = ParsePlan(lines) /\ plan # <<>>
  BY DEF PlansOf
<1>2. lines \in Documents /\ lines \in Seq(Lines)
  BY RunsAssumption, DocumentsAssumption
<1>3. 1 \in 1 .. (Len(lines) + 1) /\ 0 \in Indents(lines)
  BY <1>2, IndentsTyped
<1>4. plan \in PlansIn(lines)
  BY <1>1, <1>3 DEF ParsePlan, PlansIn
<1> QED BY <1>1, <1>2, <1>4 DEF Plans

(* Every plan, and so every sub-plan, has phases, none of them empty.      *)
LEMMA PlanIs ==
  ASSUME NEW plan \in Plans
  PROVE  /\ Len(plan) \in Nat \ {0}
         /\ \A ph \in 1 .. Len(plan) :
              /\ plan[ph].parallel \in BOOLEAN /\ Len(plan[ph].steps) \in Nat \ {0}
              /\ \A s \in 1 .. Len(plan[ph].steps) : plan[ph].steps[s].sub \in Plans \cup {<<>>}
<1>1. PICK lines \in Documents : plan \in PlansIn(lines) /\ plan # <<>>
  BY DEF Plans
<1>2. lines \in Seq(Lines)
  BY DocumentsAssumption
<1>3. PICK i \in 1 .. (Len(lines) + 1), base \in Indents(lines) : plan = PlanFrom(lines, i, base)
  BY <1>1 DEF PlansIn
<1>4. PICK s : s = parseStepNodes(lines)[i][base]
  OBVIOUS
<1>5. s \in Seq(Nodes(lines)) /\ plan = buildExecutionPlan(lines, s)
  BY <1>2, <1>3, <1>4, NodesListed DEF Listed, PlanFrom
<1>6. plan \in Seq(Phases(lines))
  <2>1. PICK ph, pl : Grouped(lines, plan, s, Len(s), ph, pl)
    BY <1>5, Built
  <2> QED BY <2>1 DEF Grouped
<1>7. ASSUME NEW ph \in 1 .. Len(plan)
      PROVE  /\ plan[ph].parallel \in BOOLEAN /\ Len(plan[ph].steps) \in Nat \ {0}
             /\ \A k \in 1 .. Len(plan[ph].steps) : plan[ph].steps[k].sub \in Plans \cup {<<>>}
  <2>1. plan[ph] \in Phases(lines)
    BY <1>6
  <2>2. plan[ph].parallel \in BOOLEAN /\ plan[ph].steps \in Seq(Nodes(lines)) \ {<<>>}
    BY <2>1 DEF Phases
  <2>3. ASSUME NEW k \in 1 .. Len(plan[ph].steps)
        PROVE  plan[ph].steps[k].sub \in Plans \cup {<<>>}
    <3>1. plan[ph].steps[k] \in Nodes(lines)
      BY <2>2
    <3> QED BY <3>1, NodePlan
  <2> QED BY <2>2, <2>3
<1> QED BY <1>1, <1>6, <1>7

-----------------------------------------------------------------------------
(* The lock and the engine's tools.                                        *)

LEMMA LockInit == Init => LockByStage
  BY DEF Init, LockByStage, Active, Full

(* The steps between Execute's lock and its unlock, and all steps of       *)
(* agents, of users and of the engine's turns, move no playbook from one   *)
(* stage to another, except the last return.                               *)
LEMMA LockFrame ==
  ASSUME LockByStage, UNCHANGED <<stage, saved, tools, locked, overlapped>>
  PROVE  LockByStage'
BY DEF LockByStage, Active

(* The steps of the one playbook under way.                                *)
LEMMA LockMove ==
  ASSUME NEW r \in Runs, LockByStage,
         stage'[r] \notin {"idle", "over"}, \A s \in Runs \ {r} : stage'[s] = stage[s],
         ~overlapped' => ~overlapped /\ \A s \in Runs : Active(s) => s = r,
         ~overlapped' => saved'[r] = Full,
         ~overlapped' => tools' = IF stage'[r] = "got" THEN Full ELSE Full \ {"agent"},
         ~overlapped' => locked' <=> (stage'[r] \in {"exec", "returned"})
  PROVE  LockByStage'
<1>1. Active(r)' /\ \A s \in Runs \ {r} : Active(s)' <=> Active(s)
  BY DEF Active
<1>2. ~overlapped' => \A s \in Runs : Active(s)' => s = r
  BY <1>1
<1> HIDE DEF Active
<1>3. QED
  BY <1>1, <1>2 DEF LockByStage

LEMMA LockNext ==
  TypeOK /\ (\A r \in Runs : StageExact(r)) /\ LockByStage /\ [Next]_allVars => LockByStage'
<1> SUFFICES ASSUME TypeOK, \A r \in Runs : StageExact(r), LockByStage, [Next]_allVars
             PROVE  LockByStage'
  OBVIOUS
<1> USE DEF agentVars, execVars, toolVars
<1>1. /\ stage \in [Runs -> {"idle", "got", "filtered", "exec", "returned", "unlocked", "over"}]
      /\ saved \in [Runs -> SUBSET Full] /\ locked \in BOOLEAN /\ overlapped \in BOOLEAN
  BY DEF TypeOK
<1>2. ASSUME NEW r \in Runs, Active(r), ~overlapped
      PROVE  /\ \A s \in Runs : Active(s) => s = r
             /\ saved[r] = Full
             /\ tools = IF stage[r] = "got" THEN Full ELSE Full \ {"agent"}
             /\ locked <=> (stage[r] \in {"exec", "returned"})
  BY <1>2 DEF LockByStage
<1>3. ASSUME NEW r \in Runs, GetTools(r)
      PROVE  LockByStage'
  <2>1. ~overlapped' => ~overlapped /\ \A s \in Runs : ~Active(s)
    BY <1>1, <1>3 DEF GetTools
  <2>2. ~overlapped' => saved'[r] = Full /\ tools' = Full /\ ~locked'
    BY <1>1, <1>3, <2>1 DEF GetTools, LockByStage
  <2>3. stage'[r] = "got" /\ \A s \in Runs \ {r} : stage'[s] = stage[s]
    BY <1>1, <1>3 DEF GetTools
  <2>4. QED
    BY <2>1, <2>2, <2>3, LockMove
<1>4. ASSUME NEW r \in Runs, FilterTools(r)
      PROVE  LockByStage'
  <2>1. Active(r) /\ stage'[r] = "filtered" /\ \A s \in Runs \ {r} : stage'[s] = stage[s]
    BY <1>1, <1>4 DEF FilterTools, Active
  <2>2. ~overlapped => saved'[r] = Full /\ tools' = Full \ {"agent"} /\ ~locked'
    BY <1>1, <1>2, <1>4, <2>1 DEF FilterTools
  <2>3. overlapped' = overlapped
    BY <1>4 DEF FilterTools
  <2>4. QED
    BY <1>2, <2>1, <2>2, <2>3, LockMove
<1>5. ASSUME NEW r \in Runs, Execute(r)
      PROVE  LockByStage'
  <2>1. Active(r) /\ stage'[r] = "exec" /\ \A s \in Runs \ {r} : stage'[s] = stage[s]
    BY <1>1, <1>5 DEF Execute, Active
  <2>2. ~overlapped => saved'[r] = Full /\ tools' = Full \ {"agent"} /\ locked'
    BY <1>2, <1>5, <2>1 DEF Execute
  <2>3. overlapped' = overlapped
    BY <1>5 DEF Execute
  <2>4. QED
    BY <1>2, <2>1, <2>2, <2>3, LockMove
<1>6. ASSUME NEW r \in Runs, Unlock(r)
      PROVE  LockByStage'
  <2>1. Active(r) /\ stage'[r] = "unlocked" /\ \A s \in Runs \ {r} : stage'[s] = stage[s]
    BY <1>1, <1>6 DEF Unlock, Active
  <2>2. ~overlapped => saved'[r] = Full /\ tools' = Full \ {"agent"} /\ ~locked'
    BY <1>2, <1>6, <2>1 DEF Unlock
  <2>3. overlapped' = overlapped
    BY <1>6 DEF Unlock
  <2>4. QED
    BY <1>2, <2>1, <2>2, <2>3, LockMove
<1>7. ASSUME NEW r \in Runs, RestoreTools(r)
      PROVE  LockByStage'
  <2>1. Active(r) /\ stage[r] = "unlocked" /\ stage' = [stage EXCEPT ![r] = "over"]
        /\ tools' = saved[r] /\ UNCHANGED <<saved, locked, overlapped>>
    BY <1>7 DEF RestoreTools, Active
  <2>2. /\ ~Active(r)' /\ \A s \in Runs \ {r} : stage'[s] = stage[s] /\ (Active(s)' <=> Active(s))
    BY <1>1, <2>1 DEF Active
  <2>3. ~overlapped => \A s \in Runs : ~Active(s)'
    BY <1>2, <2>1, <2>2
  <2>4. ~overlapped => tools' = Full /\ ~locked'
    BY <1>1, <1>2, <2>1
  <2>5. QED
    BY <2>1, <2>3, <2>4 DEF LockByStage
<1>8. ASSUME NEW r \in Runs, PlanReturns(r)
      PROVE  LockByStage'
  <2>1. CASE UNCHANGED stage
    BY <1>8, <2>1, LockFrame DEF PlanReturns
  <2>2. CASE stage' = [stage EXCEPT ![r] = "returned"]
    <3>1. /\ Active(r) /\ stage[r] = "exec"
          /\ stage'[r] = "returned" /\ \A s \in Runs \ {r} : stage'[s] = stage[s]
      BY <1>1, <1>8, <2>2 DEF PlanReturns, StageExact, Active
    <3>2. ~overlapped => saved'[r] = Full /\ tools' = Full \ {"agent"} /\ locked'
      BY <1>2, <1>8, <3>1 DEF PlanReturns
    <3>3. overlapped' = overlapped
      BY <1>8 DEF PlanReturns
    <3>4. QED
      BY <1>2, <3>1, <3>2, <3>3, LockMove
  <2>3. QED
    BY <1>8, <2>1, <2>2 DEF PlanReturns
<1>9. ASSUME NEW r \in Runs, spawnStep(r) \/ Wait(r) \/ StepOver(r) \/ NextPhase(r) \/ Answer(r)
      PROVE  LockByStage'
  BY <1>9, LockFrame DEF spawnStep, Wait, StepOver, NextPhase, Answer
<1>10. ASSUME NEW a \in Agents, AgentEnds(a) \/ StopAgent(a)
       PROVE  LockByStage'
  BY <1>10, LockFrame DEF AgentEnds, StopAgent
<1>11. CASE StartTurn \/ CheckLock \/ ToolSpawn \/ EndTurn \/ UNCHANGED allVars
  BY <1>11, LockFrame DEF StartTurn, CheckLock, ToolSpawn, EndTurn, allVars
<1>12. QED
  BY <1>3, <1>4, <1>5, <1>6, <1>7, <1>8, <1>9, <1>10, <1>11 DEF Next

-----------------------------------------------------------------------------
(* Frames, and what the executor does to one.                              *)

LEMMA PlanFacts ==
  ASSUME NEW plan \in Plans
  PROVE  Frame(plan) \in Frames /\ FrameOK(Frame(plan)) /\ Frame(plan).ids = <<>>
         /\ Frame(plan).err = "none" /\ Frame(plan).done = 0
<1> DEFINE f == Frame(plan)
<1>1. /\ f.plan = plan /\ f.ph = 1 /\ f.ids = <<>> /\ f.done = 0 /\ f.err = "none"
      /\ f \in Frames
  BY DEF Frame, Frames
<1>2. 1 \in 1 .. Len(plan) /\ plan[1].parallel \in BOOLEAN /\ Len(plan[1].steps) \in Nat
  BY PlanIs
<1>3. Parallel(f) \in BOOLEAN /\ Len(Steps(f)) \in Nat
  BY <1>1, <1>2 DEF Parallel, Steps
<1> HIDE DEF f
<1>4. FrameOK(f)
  BY <1>1, <1>2, <1>3 DEF FrameOK
<1>5. QED
  BY <1>1, <1>4 DEF f

LEMMA FrameFacts ==
  ASSUME NEW f \in Frames, FrameOK(f)
  PROVE  /\ f.plan \in Plans /\ f.ph \in Nat /\ f.ids \in Seq(Agents) /\ f.done \in Nat
         /\ f.err \in {"none", "spawn", "agent", "sub"}
         /\ Parallel(f) \in BOOLEAN /\ Len(Steps(f)) \in Nat
         /\ \A s \in 1 .. Len(Steps(f)) : Steps(f)[s].sub \in Plans \cup {<<>>}
<1>1. /\ f.plan \in Plans /\ f.ph \in Nat /\ f.ids \in Seq(Agents) /\ f.done \in Nat
      /\ f.err \in {"none", "spawn", "agent", "sub"}
  BY DEF Frames
<1>2. f.ph \in 1 .. Len(f.plan)
  BY DEF FrameOK
<1>3. QED
  BY <1>1, <1>2, PlanIs DEF Parallel, Steps

LEMMA DueFacts ==
  ASSUME NEW f \in Frames, NEW k \in Due(f)
  PROVE  k \in Nat \ {0} /\ k \in 1 .. Len(f.ids) /\ k > f.done /\ f.ids[k] \in Agents
<1>1. f.ids \in Seq(Agents) /\ f.done \in Nat
  BY DEF Frames
<1>2. QED
  BY <1>1 DEF Due

(* A phase can spawn only while no error is noted.                         *)
LEMMA SpawningFrame ==
  ASSUME NEW f \in Frames, FrameOK(f), ToSpawn(f)
  PROVE  /\ f.err = "none" /\ Len(f.ids) < Len(Steps(f))
         /\ Parallel(f) => f.done = 0
         /\ ~Parallel(f) => f.done = Len(f.ids)
BY FrameFacts DEF ToSpawn, Going, FrameOK

(* A phase that is waited for has spawned all it will, and has an agent    *)
(* due; it neither spawns, nor goes on to the next phase, nor returns.     *)
LEMMA WaitingFrame ==
  ASSUME NEW f \in Frames, FrameOK(f), ToWait(f)
  PROVE  /\ ~ToSpawn(f) /\ ~PhaseOver(f) /\ ~Ended(f)
         /\ f.done + 1 \in Due(f) /\ f.done + 1 \in 1 .. Len(Steps(f))
         /\ f.err # "spawn"
         /\ Parallel(f) => Len(f.ids) = Len(Steps(f))
         /\ ~Parallel(f) => f.err = "none" /\ Len(f.ids) = f.done + 1
BY FrameFacts DEF ToWait, ToSpawn, Going, FrameOK, PhaseOver, Ended, Due

(* When a phase is over or a plan ends, nothing is due any more, except    *)
(* after a failed spawn of a parallel phase.                               *)
LEMMA EndingFrame ==
  ASSUME NEW f \in Frames, FrameOK(f), PhaseOver(f) \/ Ended(f)
  PROVE  Due(f) = {} \/ (Parallel(f) /\ f.err = "spawn")
BY FrameFacts DEF Ended, Going, FrameOK, PhaseOver, Due

-----------------------------------------------------------------------------
(* The invariant, run by run.                                              *)

VarsOf(r) ==
  /\ wait[r].val # "nil"
  /\ \A v \in DOMAIN vars[r] :
       /\ owner[vars[r][v]] = r
       /\ phase[vars[r][v]] = "done" /\ result[vars[r][v]] = "completed"
AccountedOf(r) ==
  \A a \in Running(Own(r)) \ killed :
    \E i \in DOMAIN stack[r] : a \in Pending(stack[r][i]) /\ stack[r][i].err # "agent"
RunInv(r) ==
  /\ StageExact(r) /\ FramesExact(r) /\ DueOnce(r) /\ WaitsForDue(r)
  /\ SpawnFailureKills(r) /\ NoneLost(r) /\ VarsOf(r) /\ AccountedOf(r)

LEMMA ExecInvByRun == ExecInv <=> TypeOK /\ ResultsKept /\ \A r \in Runs : RunInv(r)
  BY DEF ExecInv, RunInv, VarsOf, AccountedOf, VarsFromCompleted, AgentsAccounted

LEMMA StackType ==
  ASSUME TypeOK, NEW r \in Runs
  PROVE  /\ stack[r] \in Seq(Frames) /\ Len(stack[r]) \in Nat
         /\ DOMAIN stack[r] = 1 .. Len(stack[r])
         /\ \A i \in DOMAIN stack[r] : stack[r][i] \in Frames
         /\ stack[r] # <<>> => Top(r) = stack[r][1] /\ 1 \in DOMAIN stack[r]
<1>1. stack[r] \in Seq(Frames)
  BY DEF TypeOK
<1>2. QED
  BY <1>1 DEF Top

(* What a step of the agents or of another run may do to those of run r.   *)
Kept(r) ==
  \A a \in Agents :
    /\ owner'[a] = r => owner[a] = r
    /\ phase[a] # "unborn" => owner'[a] = owner[a] /\ phase'[a] # "unborn"
    /\ phase[a] = "done" => phase'[a] = "done" /\ result'[a] = result[a]
    /\ owner'[a] = r /\ phase'[a] = "running" =>
         phase[a] = "running" /\ (a \in killed => a \in killed')
    /\ owner'[a] = r /\ phase'[a] = "done" =>
         /\ phase[a] # "done" => a \in kept'
         /\ a \in kept => a \in kept' \/ (wait'[r].st = "done" /\ wait'[r].id = a)

LEMMA RunFrame ==
  ASSUME NEW r \in Runs, TypeOK, RunInv(r), Kept(r),
         UNCHANGED <<stack[r], vars[r], outcome[r]>>,
         wait[r].st = "done" => wait'[r] = wait[r], wait'[r].val # "nil",
         StageExact(r)', WaitsForDue(r)'
  PROVE  RunInv(r)'
<1>1. FramesExact(r)'
  BY DEF RunInv, FramesExact
<1>2. ASSUME NEW i \in DOMAIN stack[r], NEW k \in Due(stack[r][i])
      PROVE  stack[r][i].ids[k] \in Agents
  BY <1>2, StackType, DueFacts
<1>3. DueOnce(r)'
  <2> SUFFICES ASSUME NEW i \in DOMAIN stack[r], NEW k \in Due(stack[r][i]),
                      NEW a, a = stack[r][i].ids[k]
               PROVE  /\ owner'[a] = r /\ phase'[a] # "unborn"
                      /\ phase'[a] = "done" =>
                           a \in kept' \/ (wait'[r].st = "done" /\ wait'[r].id = a)
                      /\ \A j \in DOMAIN stack[r] : \A l \in Due(stack[r][j]) :
                           stack[r][j].ids[l] = a => j = i /\ l = k
    BY DEF DueOnce
  <2>1. /\ a \in Agents /\ owner[a] = r /\ phase[a] # "unborn"
        /\ phase[a] = "done" => a \in kept \/ (wait[r].st = "done" /\ wait[r].id = a)
        /\ \A j \in DOMAIN stack[r] : \A l \in Due(stack[r][j]) :
             stack[r][j].ids[l] = a => j = i /\ l = k
    BY <1>2 DEF RunInv, DueOnce
  <2>2. QED
    BY <2>1 DEF Kept
<1>4. SpawnFailureKills(r)'
  <2> SUFFICES ASSUME NEW i \in DOMAIN stack[r], Parallel(stack[r][i]),
                      stack[r][i].err = "spawn", NEW a \in Pending(stack[r][i]),
                      phase'[a] = "running"
               PROVE  a \in killed'
    BY DEF SpawnFailureKills, Running
  <2>1. a \in Agents /\ owner[a] = r /\ phase[a] # "unborn"
    BY <1>2 DEF RunInv, DueOnce, Pending
  <2>2. phase[a] = "running" => a \in killed
    BY DEF RunInv, SpawnFailureKills, Running
  <2>3. QED
    BY <2>1, <2>2 DEF Kept
<1>5. NoneLost(r)'
  BY DEF RunInv, NoneLost, NoErrorSoFar, Own, Kept, Pending, Due
<1>6. VarsOf(r)'
  <2>1. \A v \in DOMAIN vars[r] : vars[r][v] \in Agents
    BY DEF TypeOK
  <2>2. QED
    BY <2>1 DEF RunInv, VarsOf, Kept
<1>7. AccountedOf(r)'
  BY DEF RunInv, AccountedOf, Running, Own, Kept, Pending, Due
<1>8. QED
  BY <1>1, <1>3, <1>4, <1>5, <1>6, <1>7 DEF RunInv

LEMMA AllRuns ==
  ASSUME TypeOK', ResultsKept', \A r \in Runs : RunInv(r)'
  PROVE  ExecInv'
BY DEF ExecInv, RunInv, VarsOf, AccountedOf, VarsFromCompleted, AgentsAccounted

LEMMA ExecInit == Init => ExecInv
<1> SUFFICES ASSUME Init PROVE ExecInv
  OBVIOUS
<1>1. /\ phase = [a \in Agents |-> "unborn"] /\ result = [a \in Agents |-> "none"]
      /\ kept = {} /\ killed = {} /\ owner = [a \in Agents |-> "none"]
      /\ wait = [r \in Runs |-> [st |-> "idle", id |-> 0, val |-> "none"]]
      /\ stage = [r \in Runs |-> "idle"] /\ stack = [r \in Runs |-> <<>>]
      /\ vars = [r \in Runs |-> <<>>] /\ outcome = [r \in Runs |-> "none"]
      /\ saved = [r \in Runs |-> {}] /\ tools = Full /\ locked = FALSE /\ overlapped = FALSE
  BY DEF Init, Service!Init, Service!Idle, Agents
<1>2. 0 \in Service!Ids
  BY BoundsAssumption DEF Service!Ids
<1>3. TypeOK
  <2>1. wait \in [Runs -> [st : {"idle", "wait", "done"}, id : Service!Ids,
                           val : Service!Outcomes \cup {"none", "nil"}]]
    BY <1>1, <1>2
  <2>2. stack \in [Runs -> Seq(Frames)]
    BY <1>1
  <2>3. DOMAIN vars = Runs /\ \A r \in Runs : \A v \in DOMAIN vars[r] : vars[r][v] \in Agents
    BY <1>1
  <2>4. QED
    BY <1>1, <2>1, <2>2, <2>3 DEF TypeOK
<1>4. ResultsKept
  BY <1>1 DEF ResultsKept
<1>5. ASSUME NEW r \in Runs PROVE RunInv(r)
  <2>1. stack[r] = <<>> /\ vars[r] = <<>> /\ Own(r) = {}
    BY <1>1, BoundsAssumption DEF Own
  <2>2. wait[r].st = "idle" /\ wait[r].val = "none" /\ outcome[r] = "none" /\ stage[r] = "idle"
    BY <1>1
  <2>3. QED
    BY <2>1, <2>2 DEF RunInv, StageExact, FramesExact, DueOnce, WaitsForDue,
       SpawnFailureKills, NoneLost, VarsOf, AccountedOf, Running
<1>6. QED
  BY <1>3, <1>4, <1>5, ExecInvByRun

(* Steps that leave agents, calls and variables alone.                     *)
LEMMA QuietStep ==
  ASSUME ExecInv, TypeOK', UNCHANGED <<agentVars, execVars>>,
         \A r \in Runs :
           /\ stage'[r] = "exec" <=> stage[r] = "exec"
           /\ stage'[r] \in {"idle", "got", "filtered", "exec"}
                <=> stage[r] \in {"idle", "got", "filtered", "exec"}
  PROVE  ExecInv'
<1> USE DEF agentVars, execVars
<1>1. ResultsKept'
  BY DEF ExecInv, ResultsKept
<1>2. ASSUME NEW r \in Runs PROVE RunInv(r)'
  <2>1. RunInv(r) /\ TypeOK
    BY ExecInvByRun
  <2>2. Kept(r)
    BY DEF Kept
  <2>3. StageExact(r)' /\ WaitsForDue(r)' /\ wait'[r].val # "nil"
    BY <2>1 DEF RunInv, StageExact, WaitsForDue, VarsOf, Top
  <2>4. QED
    BY <2>1, <2>2, <2>3, RunFrame
<1>3. QED
  BY <1>1, <1>2, AllRuns

LEMMA GoroutineStep ==
  ASSUME ExecInv, NEW r \in Runs,
         GetTools(r) \/ FilterTools(r) \/ Unlock(r) \/ RestoreTools(r)
  PROVE  ExecInv'
<1> USE DEF agentVars, execVars, toolVars
<1>1. TypeOK /\ stage \in [Runs -> {"idle", "got", "filtered", "exec", "returned", "unlocked", "over"}]
      /\ saved \in [Runs -> SUBSET Full] /\ tools \subseteq Full
  BY DEF ExecInv, TypeOK
<1>2. CASE GetTools(r)
  <2>1. stage' = [stage EXCEPT ![r] = "got"] /\ stage[r] = "idle"
        /\ saved' = [saved EXCEPT ![r] = tools] /\ overlapped' \in BOOLEAN
        /\ UNCHANGED <<agentVars, execVars, tools, locked>>
    BY <1>1, <1>2 DEF GetTools, TypeOK
  <2>2. TypeOK'
    BY <1>1, <2>1 DEF TypeOK
  <2>3. QED
    BY <1>1, <2>1, <2>2, QuietStep
<1>3. CASE FilterTools(r)
  <2>1. stage' = [stage EXCEPT ![r] = "filtered"] /\ stage[r] = "got" /\ tools' \subseteq Full
        /\ UNCHANGED <<agentVars, execVars, saved, locked, overlapped>>
    BY <1>1, <1>3 DEF FilterTools
  <2>2. TypeOK'
    BY <1>1, <2>1 DEF TypeOK
  <2>3. QED
    BY <1>1, <2>1, <2>2, QuietStep
<1>4. CASE Unlock(r)
  <2>1. stage' = [stage EXCEPT ![r] = "unlocked"] /\ stage[r] = "returned" /\ locked' \in BOOLEAN
        /\ UNCHANGED <<agentVars, execVars, saved, tools, overlapped>>
    BY <1>4 DEF Unlock
  <2>2. TypeOK'
    BY <1>1, <2>1 DEF TypeOK
  <2>3. QED
    BY <1>1, <2>1, <2>2, QuietStep
<1>5. CASE RestoreTools(r)
  <2>1. stage' = [stage EXCEPT ![r] = "over"] /\ stage[r] = "unlocked" /\ tools' \subseteq Full
        /\ UNCHANGED <<agentVars, execVars, saved, locked, overlapped>>
    BY <1>1, <1>5 DEF RestoreTools
  <2>2. TypeOK'
    BY <1>1, <2>1 DEF TypeOK
  <2>3. QED
    BY <1>1, <2>1, <2>2, QuietStep
<1>6. QED
  BY <1>2, <1>3, <1>4, <1>5

LEMMA EngineStep ==
  ASSUME ExecInv, StartTurn \/ CheckLock \/ ToolSpawn \/ EndTurn \/ UNCHANGED allVars
  PROVE  ExecInv'
<1>1. UNCHANGED <<agentVars, execVars, stage, saved, tools, locked, overlapped>>
  BY DEF StartTurn, CheckLock, ToolSpawn, EndTurn, allVars, toolVars
<1>2. TypeOK'
  BY <1>1 DEF ExecInv, TypeOK, agentVars, execVars
<1>3. QED
  BY <1>1, <1>2, QuietStep

-----------------------------------------------------------------------------
(* The steps of the agents and of those who wait for or stop them.         *)

LEMMA WaitType ==
  ASSUME TypeOK, NEW r \in Runs
  PROVE  /\ wait[r] \in [st : {"idle", "wait", "done"}, id : Service!Ids,
                         val : Service!Outcomes \cup {"none", "nil"}]
         /\ wait[r].st \in {"idle", "wait", "done"}
BY DEF TypeOK

LEMMA AgentIds == Agents \subseteq Service!Ids
  BY BoundsAssumption DEF Agents, Service!Agents, Service!Ids

(* Whom a run waits for is its own, due in its innermost call.             *)
LEMMA WaitedFor ==
  ASSUME ExecInv, NEW r \in Runs, stack[r] # <<>>, ToWait(Top(r))
  PROVE  LET a == Top(r).ids[Top(r).done + 1] IN
         /\ a \in Agents /\ owner[a] = r /\ phase[a] # "unborn"
         /\ phase[a] = "done" => a \in kept \/ (wait[r].st = "done" /\ wait[r].id = a)
<1>1. /\ TypeOK /\ RunInv(r)
  BY ExecInvByRun
<1>2. 1 \in DOMAIN stack[r] /\ Top(r) = stack[r][1] /\ Top(r) \in Frames
  BY <1>1, StackType
<1>3. FrameOK(Top(r))
  BY <1>1, <1>2 DEF RunInv, FramesExact
<1>4. Top(r).done + 1 \in Due(Top(r))
  BY <1>2, <1>3, WaitingFrame
<1>5. QED
  BY <1>1, <1>2, <1>4, DueFacts DEF RunInv, DueOnce

LEMMA AgentsStep ==
  ASSUME ExecInv, TypeOK', ResultsKept', UNCHANGED <<owner, stage, execVars>>,
         \A r \in Runs :
           /\ Kept(r) /\ WaitsForDue(r)' /\ wait'[r].val # "nil"
           /\ wait[r].st = "done" => wait'[r] = wait[r]
  PROVE  ExecInv'
<1>1. ASSUME NEW r \in Runs PROVE RunInv(r)'
  <2>1. RunInv(r) /\ TypeOK
    BY ExecInvByRun
  <2>2. StageExact(r)'
    BY <2>1 DEF RunInv, StageExact, execVars
  <2>3. QED
    BY <2>1, <2>2, RunFrame DEF execVars
<1>2. QED
  BY <1>1, AllRuns

(* A caller whose Wait a step leaves alone.                                *)
LEMMA WaitUntouched ==
  ASSUME ExecInv, NEW r \in Runs, UNCHANGED <<stack[r], wait[r]>>,
         \A a \in Agents : phase[a] = "done" => phase'[a] = "done" /\ result'[a] = result[a]
  PROVE  WaitsForDue(r)' /\ wait'[r].val # "nil"
<1>1. RunInv(r) /\ TypeOK
  BY ExecInvByRun
<1>2. wait[r].st = "done" => wait[r].id \in Agents
  BY <1>1, WaitedFor DEF RunInv, WaitsForDue
<1>3. QED
  BY <1>1, <1>2 DEF RunInv, WaitsForDue, VarsOf, Top

LEMMA WaitStep ==
  ASSUME ExecInv, NEW r \in Runs, Wait(r)
  PROVE  ExecInv'
<1> DEFINE a == Top(r).ids[Top(r).done + 1]
<1>1. /\ stack[r] # <<>> /\ ToWait(Top(r)) /\ wait[r].st = "idle"
      /\ wait' = [wait EXCEPT ![r] = [st |-> "wait", id |-> a, val |-> "none"]]
      /\ UNCHANGED <<phase, result, kept, killed, owner, stage, execVars, toolVars>>
  BY DEF Wait, Service!Begin
<1>2. TypeOK /\ ResultsKept /\ a \in Agents
  BY <1>1, WaitedFor, ExecInvByRun
<1> HIDE DEF a
<1>3. wait \in [Runs -> [st : {"idle", "wait", "done"}, id : Service!Ids,
                        val : Service!Outcomes \cup {"none", "nil"}]]
  BY <1>2 DEF TypeOK
<1>4. [st |-> "wait", id |-> a, val |-> "none"]
        \in [st : {"idle", "wait", "done"}, id : Service!Ids,
            val : Service!Outcomes \cup {"none", "nil"}]
  BY <1>2, AgentIds
<1>5. TypeOK'
  BY <1>1, <1>2, <1>3, <1>4 DEF TypeOK, execVars, toolVars
<1>6. ResultsKept'
  BY <1>1, <1>2 DEF ResultsKept
<1>7. ASSUME NEW s \in Runs
      PROVE  /\ Kept(s) /\ WaitsForDue(s)' /\ wait'[s].val # "nil"
             /\ wait[s].st = "done" => wait'[s] = wait[s]
  <2>1. wait[s].st = "done" => wait'[s] = wait[s]
    BY <1>1, <1>3
  <2>2. Kept(s)
    BY <1>1 DEF Kept
  <2>3. CASE s = r
    <3>1. wait'[s].st = "wait" /\ wait'[s].id = a /\ wait'[s].val = "none"
      BY <1>1, <1>3, <2>3
    <3>2. WaitsForDue(s)'
      BY <1>1, <2>3, <3>1 DEF WaitsForDue, execVars, a, Top
    <3>3. QED
      BY <2>1, <2>2, <3>1, <3>2
  <2>4. CASE s # r
    <3>1. UNCHANGED <<stack[s], wait[s]>>
      BY <1>1, <1>3, <2>4 DEF execVars
    <3>2. QED
      BY <1>1, <2>1, <2>2, <3>1, WaitUntouched
  <2>5. QED
    BY <2>3, <2>4
<1>8. QED
  BY <1>1, <1>5, <1>6, <1>7, AgentsStep

(* A Wait of a playbook is never answered with nil.                        *)
LEMMA AnswerStep ==
  ASSUME ExecInv, NEW r \in Runs, Answer(r)
  PROVE  ExecInv'
<1>1. PICK a \in Service!Ids : Service!GetNil(r, a) \/ (a \in Agents /\ Service!Collect(r, a))
  BY DEF Answer
<1>2. UNCHANGED <<killed, owner, stage, execVars, toolVars>>
  BY DEF Answer
<1>3. wait[r] = [st |-> "wait", id |-> a, val |-> "none"]
  BY <1>1 DEF Service!GetNil, Service!Collect, Service!On
<1>4. TypeOK /\ ResultsKept /\ RunInv(r)
  BY ExecInvByRun
<1>5. /\ stack[r] # <<>> /\ ToWait(Top(r)) /\ a = Top(r).ids[Top(r).done + 1]
      /\ wait[r].st = "wait"
  BY <1>3, <1>4 DEF RunInv, WaitsForDue
<1>6. a \in Agents /\ owner[a] = r /\ phase[a] # "unborn" /\ (phase[a] = "done" => a \in kept)
  BY <1>5, WaitedFor
<1>7. ~Service!GetNil(r, a)
  BY <1>4, <1>6 DEF TypeOK, Service!GetNil, Agents
<1>8. /\ a \in kept /\ kept' = kept \ {a} /\ UNCHANGED <<phase, result>>
      /\ wait' = [wait EXCEPT ![r] = [st |-> "done", id |-> a, val |-> result[a]]]
  BY <1>1, <1>7 DEF Service!Collect, Service!Answered
<1>9. phase[a] = "done" /\ result[a] \in Service!Outcomes
  BY <1>4, <1>6, <1>8 DEF ResultsKept
<1>10. wait \in [Runs -> [st : {"idle", "wait", "done"}, id : Service!Ids,
                         val : Service!Outcomes \cup {"none", "nil"}]]
  BY <1>4 DEF TypeOK
<1>11. [st |-> "done", id |-> a, val |-> result[a]]
         \in [st : {"idle", "wait", "done"}, id : Service!Ids,
             val : Service!Outcomes \cup {"none", "nil"}]
  BY <1>6, <1>9, AgentIds
<1>12. TypeOK'
  BY <1>2, <1>4, <1>8, <1>10, <1>11 DEF TypeOK, execVars, toolVars
<1>13. ResultsKept'
  BY <1>4, <1>8 DEF ResultsKept
<1>14. ASSUME NEW s \in Runs
       PROVE  /\ Kept(s) /\ WaitsForDue(s)' /\ wait'[s].val # "nil"
              /\ wait[s].st = "done" => wait'[s] = wait[s]
  <2>1. wait[s].st = "done" => wait'[s] = wait[s]
    BY <1>5, <1>8, <1>10
  <2>2. CASE s = r
    <3>1. wait'[s].st = "done" /\ wait'[s].id = a /\ wait'[s].val = result[a]
      BY <1>8, <1>10, <2>2
    <3>2. WaitsForDue(s)'
      BY <1>2, <1>5, <1>8, <1>9, <2>2, <3>1 DEF WaitsForDue, execVars, Top
    <3>3. Kept(s)
      BY <1>2, <1>8, <2>2, <3>1 DEF Kept
    <3>4. wait'[s].val # "nil"
      BY <1>9, <3>1 DEF Service!Outcomes
    <3>5. QED
      BY <2>1, <3>2, <3>3, <3>4
  <2>3. CASE s # r
    <3>1. UNCHANGED <<stack[s], wait[s]>>
      BY <1>2, <1>8, <1>10, <2>3 DEF execVars
    <3>2. Kept(s)
      BY <1>2, <1>6, <1>8, <2>3 DEF Kept
    <3>3. QED
      BY <1>8, <2>1, <3>1, <3>2, WaitUntouched
  <2>4. QED
    BY <2>2, <2>3
<1>15. QED
  BY <1>2, <1>12, <1>13, <1>14, AgentsStep

LEMMA AgentEndsStep ==
  ASSUME ExecInv, NEW a \in Agents, AgentEnds(a)
  PROVE  ExecInv'
<1>1. PICK o \in Service!Outcomes, W \in SUBSET Runs : Service!Finish(a, o, W)
  BY DEF AgentEnds
<1>2. killed' = killed \ {a} /\ UNCHANGED <<owner, stage, execVars, toolVars>>
  BY DEF AgentEnds
<1>3. /\ phase[a] = "running" /\ \A c \in W : wait[c] = [st |-> "wait", id |-> a, val |-> "none"]
      /\ phase' = [phase EXCEPT ![a] = "done"] /\ result' = [result EXCEPT ![a] = o]
      /\ kept' = kept \cup {a}
      /\ wait' = [c \in Runs |-> IF c \in W THEN [st |-> "done", id |-> a, val |-> o] ELSE wait[c]]
  BY <1>1 DEF Service!Finish, Service!On, Service!Answered
<1>4. TypeOK /\ ResultsKept
  BY ExecInvByRun
<1>5. /\ phase \in [Agents -> {"unborn", "running", "done"}]
      /\ result \in [Agents -> Service!Outcomes \cup {"none"}]
  BY <1>4 DEF TypeOK
<1>6. /\ phase'[a] = "done" /\ result'[a] = o
      /\ \A b \in Agents \ {a} : phase'[b] = phase[b] /\ result'[b] = result[b]
  BY <1>3, <1>5
<1>7. wait' \in [Runs -> [st : {"idle", "wait", "done"}, id : Service!Ids,
                        val : Service!Outcomes \cup {"none", "nil"}]]
  <2>1. [st |-> "done", id |-> a, val |-> o]
          \in [st : {"idle", "wait", "done"}, id : Service!Ids,
              val : Service!Outcomes \cup {"none", "nil"}]
    BY AgentIds
  <2>2. QED
    BY <1>3, <1>4, <2>1 DEF TypeOK
<1>8. TypeOK'
  BY <1>2, <1>3, <1>4, <1>5, <1>7 DEF TypeOK, execVars, toolVars
<1>9. ResultsKept'
  BY <1>3, <1>4, <1>6 DEF ResultsKept
<1>10. ASSUME NEW s \in Runs
       PROVE  /\ Kept(s) /\ WaitsForDue(s)' /\ wait'[s].val # "nil"
              /\ wait[s].st = "done" => wait'[s] = wait[s]
  <2>1. Kept(s)
    BY <1>2, <1>3, <1>6 DEF Kept
  <2>2. CASE s \in W
    <3>1. wait[s].st = "wait" /\ wait[s].id = a
      BY <1>3, <2>2
    <3>2. wait'[s].st = "done" /\ wait'[s].id = a /\ wait'[s].val = o
      BY <1>3, <2>2
    <3>3. stack[s] # <<>> /\ ToWait(Top(s)) /\ a = Top(s).ids[Top(s).done + 1]
      BY <3>1, ExecInvByRun DEF RunInv, WaitsForDue
    <3>4. WaitsForDue(s)'
      BY <1>2, <1>6, <3>2, <3>3 DEF WaitsForDue, execVars, Top
    <3>5. QED
      BY <2>1, <3>1, <3>2, <3>4 DEF Service!Outcomes
  <2>3. CASE s \notin W
    <3>1. wait'[s] = wait[s] /\ stack'[s] = stack[s]
      BY <1>2, <1>3, <2>3 DEF execVars
    <3>2. QED
      BY <1>3, <1>6, <2>1, <3>1, WaitUntouched
  <2>4. QED
    BY <2>2, <2>3
<1>11. QED
  BY <1>2, <1>8, <1>9, <1>10, AgentsStep

LEMMA StopAgentStep ==
  ASSUME ExecInv, NEW a \in Agents, StopAgent(a)
  PROVE  ExecInv'
<1>1. /\ killed' = killed \cup {a}
      /\ UNCHANGED <<phase, result, kept, wait, owner, stage, execVars, toolVars>>
  BY DEF StopAgent
<1>2. TypeOK /\ ResultsKept
  BY ExecInvByRun
<1>3. TypeOK' /\ ResultsKept'
  BY <1>1, <1>2 DEF TypeOK, ResultsKept, execVars, toolVars
<1>4. ASSUME NEW s \in Runs
      PROVE  /\ Kept(s) /\ WaitsForDue(s)' /\ wait'[s].val # "nil"
             /\ wait[s].st = "done" => wait'[s] = wait[s]
  <2>1. UNCHANGED <<stack[s], wait[s]>>
    BY <1>1 DEF execVars
  <2>2. Kept(s)
    BY <1>1 DEF Kept
  <2>3. QED
    BY <1>1, <2>1, <2>2, WaitUntouched
<1>5. QED
  BY <1>1, <1>3, <1>4, AgentsStep

-----------------------------------------------------------------------------
(* The steps of executePlan: the other runs are not concerned.             *)

LEMMA OtherRun ==
  ASSUME ExecInv, NEW r \in Runs, NEW s \in Runs \ {r},
         UNCHANGED <<stage[s], stack[s], vars[s], outcome[s], wait[s], result, kept>>,
         \A a \in Agents :
           \/ owner'[a] = owner[a] /\ phase'[a] = phase[a]
           \/ phase[a] = "unborn" /\ owner'[a] = r /\ phase'[a] = "running",
         killed \subseteq killed'
  PROVE  RunInv(s)'
<1>1. RunInv(s) /\ TypeOK
  BY ExecInvByRun
<1>2. Kept(s)
  BY DEF Kept
<1>3. WaitsForDue(s)' /\ wait'[s].val # "nil"
  BY WaitUntouched
<1>4. StageExact(s)'
  BY <1>1 DEF RunInv, StageExact
<1>5. QED
  BY <1>1, <1>2, <1>3, <1>4, RunFrame

(* A run that is not waiting for an answer.                                *)
LEMMA NotWaiting ==
  ASSUME ExecInv, NEW r \in Runs,
         stack[r] = <<>> \/ ToSpawn(Top(r)) \/ PhaseOver(Top(r)) \/ Ended(Top(r))
  PROVE  wait[r].st = "idle" /\ wait[r].val = "none"
<1>1. RunInv(r) /\ TypeOK
  BY ExecInvByRun
<1>2. ASSUME stack[r] # <<>> PROVE Top(r) \in Frames /\ FrameOK(Top(r))
  BY <1>1, <1>2, StackType DEF RunInv, FramesExact
<1>3. QED
  BY <1>1, <1>2, WaitingFrame DEF RunInv, WaitsForDue

LEMMA ExecuteStep ==
  ASSUME ExecInv, NEW r \in Runs, Execute(r)
  PROVE  ExecInv'
<1>1. PICK plan \in PlansOf[r] : stack' = [stack EXCEPT ![r] = <<Frame(plan)>>]
  BY DEF Execute
<1>2. /\ stage[r] = "filtered" /\ stage' = [stage EXCEPT ![r] = "exec"] /\ locked' = TRUE
      /\ UNCHANGED <<phase, result, kept, wait, killed, owner, vars, outcome, saved, tools, overlapped>>
  BY DEF Execute, agentVars
<1>3. TypeOK /\ ResultsKept /\ RunInv(r)
  BY ExecInvByRun
<1>4. plan \in Plans
  BY PlansOfAre
<1> DEFINE f == Frame(plan)
<1>5. f \in Frames /\ FrameOK(f) /\ f.ids = <<>> /\ f.err = "none" /\ f.done = 0
  BY <1>4, PlanFacts
<1> HIDE DEF f
<1>6. stack \in [Runs -> Seq(Frames)] /\ <<f>> \in Seq(Frames)
  BY <1>3, <1>5 DEF TypeOK
<1>7. stack'[r] = <<f>> /\ stack[r] = <<>> /\ outcome[r] = "none"
  BY <1>1, <1>2, <1>3, <1>6 DEF RunInv, StageExact, f
<1>8. TypeOK'
  <2>1. stack' \in [Runs -> Seq(Frames)]
    BY <1>1, <1>6 DEF f
  <2>2. stage' \in [Runs -> {"idle", "got", "filtered", "exec", "returned", "unlocked", "over"}]
    BY <1>2, <1>3 DEF TypeOK
  <2>3. QED
    BY <1>2, <1>3, <2>1, <2>2 DEF TypeOK
<1>9. ResultsKept'
  BY <1>2, <1>3 DEF ResultsKept
<1>10. RunInv(r)'
  <2>1. DOMAIN stack'[r] = {1} /\ stack'[r][1] = f /\ Due(f) = {} /\ stack'[r] # <<>>
    BY <1>5, <1>7 DEF Due
  <2>2. wait'[r].st = "idle" /\ wait'[r].val = "none"
    BY <1>2, <1>7, NotWaiting
  <2>3. StageExact(r)'
    BY <1>2, <1>3, <1>7, <2>1 DEF TypeOK, StageExact
  <2>4. FramesExact(r)' /\ DueOnce(r)' /\ WaitsForDue(r)' /\ SpawnFailureKills(r)'
    BY <1>5, <2>1, <2>2 DEF FramesExact, DueOnce, WaitsForDue, SpawnFailureKills
  <2>5. NoneLost(r)'
    BY <1>2, <1>3, <1>7 DEF RunInv, NoneLost, NoErrorSoFar, Own
  <2>6. VarsOf(r)'
    BY <1>2, <1>3 DEF RunInv, VarsOf
  <2>7. AccountedOf(r)'
    BY <1>2, <1>3, <1>7 DEF RunInv, AccountedOf, Running, Own
  <2>8. QED
    BY <2>3, <2>4, <2>5, <2>6, <2>7 DEF RunInv
<1>11. ASSUME NEW s \in Runs \ {r} PROVE RunInv(s)'
  <2>1. UNCHANGED <<stage[s], stack[s]>>
    BY <1>1, <1>2, <1>3 DEF TypeOK
  <2>2. QED
    BY <1>2, <2>1, OtherRun
<1>12. QED
  BY <1>8, <1>9, <1>10, <1>11, AllRuns

-----------------------------------------------------------------------------
(* What becomes of the frame a step works on.                              *)

Spawned(f, g, a) ==
  /\ g \in Frames /\ g.plan = f.plan /\ g.ph = f.ph /\ g.ids = Append(f.ids, a)
  /\ g.done = f.done /\ g.err = f.err

LEMMA SpawnedFrame ==
  ASSUME NEW f \in Frames, FrameOK(f), ToSpawn(f), NEW a \in Agents,
         NEW g, Spawned(f, g, a)
  PROVE  /\ FrameOK(g) /\ g.err = "none" /\ Parallel(g) = Parallel(f)
         /\ Due(g) = Due(f) \cup {Len(f.ids) + 1} /\ Len(f.ids) \in Nat
         /\ g.ids[Len(f.ids) + 1] = a /\ \A k \in Due(f) : g.ids[k] = f.ids[k]
<1>1. /\ f.ids \in Seq(Agents) /\ f.done \in Nat /\ g.plan = f.plan /\ g.ph = f.ph
      /\ g.ids = Append(f.ids, a) /\ g.done = f.done /\ g.err = f.err
  BY DEF Spawned, Frames
<1>2. Parallel(g) = Parallel(f) /\ Steps(g) = Steps(f)
  BY <1>1 DEF Parallel, Steps
<1>3. /\ Len(g.ids) = Len(f.ids) + 1 /\ Len(f.ids) \in Nat
      /\ g.ids[Len(f.ids) + 1] = a /\ \A k \in 1 .. Len(f.ids) : g.ids[k] = f.ids[k]
  BY <1>1
<1>4. FrameOK(g)
  BY <1>1, <1>2, <1>3, FrameFacts, SpawningFrame DEF FrameOK
<1>5. QED
  BY <1>1, <1>2, <1>3, <1>4, SpawningFrame DEF Due, FrameOK

LEMMA FailedSpawnFrame ==
  ASSUME NEW f \in Frames, FrameOK(f), ToSpawn(f), NEW g \in Frames,
         g.plan = f.plan, g.ph = f.ph, g.ids = f.ids, g.done = f.done, g.err = "spawn"
  PROVE  /\ FrameOK(g) /\ g.err = "spawn" /\ Parallel(g) = Parallel(f)
         /\ Due(g) = Due(f) /\ g.ids = f.ids
<1>1. Parallel(g) = Parallel(f) /\ Steps(g) = Steps(f)
  BY DEF Parallel, Steps
<1>2. FrameOK(g)
  BY <1>1, FrameFacts, SpawningFrame DEF FrameOK
<1>3. QED
  BY <1>1, <1>2 DEF Due

LEMMA NextPhaseFrame ==
  ASSUME NEW f \in Frames, FrameOK(f), PhaseOver(f), f.ph < Len(f.plan),
         NEW g \in Frames, g.plan = f.plan, g.ph = f.ph + 1, g.ids = <<>>, g.done = 0, g.err = f.err
  PROVE  FrameOK(g) /\ g.err = "none" /\ Due(g) = {} /\ f.err = "none"
<1>1. f.plan \in Plans /\ f.ph \in Nat /\ f.ids \in Seq(Agents) /\ f.done \in Nat /\ f.err = "none"
  BY FrameFacts DEF PhaseOver
<1>2. g.ph \in 1 .. Len(g.plan) /\ Parallel(g) \in BOOLEAN /\ Len(Steps(g)) \in Nat
  BY <1>1, PlanIs DEF Parallel, Steps
<1>3. QED
  BY <1>1, <1>2 DEF FrameOK, Due

LEMMA AnsweredFrame ==
  ASSUME NEW f \in Frames, FrameOK(f), ToWait(f), NEW g \in Frames,
         g.plan = f.plan, g.ph = f.ph, g.ids = f.ids, g.done = f.done + 1, g.err = f.err
  PROVE  /\ FrameOK(g) /\ InSubPlan(g) /\ g.err = f.err
         /\ Parallel(g) = Parallel(f) /\ g.ids = f.ids /\ Due(g) = Due(f) \ {f.done + 1}
<1>1. f.ids \in Seq(Agents) /\ f.done \in Nat
  BY DEF Frames
<1>2. Parallel(g) = Parallel(f) /\ Steps(g) = Steps(f)
  BY <1>1 DEF Parallel, Steps
<1>3. f.done < Len(f.ids)
  BY DEF ToWait
<1>4. FrameOK(g) /\ InSubPlan(g)
  BY <1>1, <1>2, <1>3, FrameFacts, WaitingFrame DEF FrameOK, InSubPlan
<1>5. QED
  BY <1>1, <1>2, <1>4 DEF Due

LEMMA FailedFrame ==
  ASSUME NEW f \in Frames, FrameOK(f), ToWait(f),
         NEW g \in Frames, g.plan = f.plan, g.ph = f.ph, g.ids = f.ids, g.done = f.done + 1,
         g.err = IF f.err = "none" THEN "agent" ELSE f.err
  PROVE  /\ FrameOK(g) /\ InSubPlan(g)
         /\ Parallel(g) = Parallel(f) /\ g.ids = f.ids /\ Due(g) = Due(f) \ {f.done + 1}
<1>1. /\ f.plan \in Plans /\ f.ph \in Nat /\ f.ids \in Seq(Agents) /\ f.done \in Nat
      /\ f.err \in {"none", "spawn", "agent", "sub"}
  BY FrameFacts
<1>2. Parallel(g) = Parallel(f) /\ Steps(g) = Steps(f)
  BY DEF Parallel, Steps
<1>3. f.done < Len(f.ids)
  BY DEF ToWait
<1>4. FrameOK(g) /\ InSubPlan(g)
  BY <1>1, <1>2, <1>3, FrameFacts, WaitingFrame DEF FrameOK, InSubPlan
<1>5. QED
  BY <1>1, <1>2, <1>4 DEF Due

LEMMA ReturnedFrame ==
  ASSUME NEW f \in Frames, FrameOK(f), InSubPlan(f), NEW err, NEW g, g = Returned(f, err)
  PROVE  /\ g \in Frames /\ FrameOK(g) /\ Parallel(g) = Parallel(f) /\ g.ids = f.ids
         /\ Due(g) = Due(f) /\ (g.err = "none" => f.err = "none" /\ err = "none")
         /\ (g.err = f.err \/ g.err = "sub")
<1>1. /\ g \in Frames /\ g.plan = f.plan /\ g.ph = f.ph /\ g.done = f.done /\ g.ids = f.ids
      /\ g.err = IF err # "none" /\ f.err = "none" THEN "sub" ELSE f.err
  BY DEF Frames, Returned
<1>2. Parallel(g) = Parallel(f) /\ Steps(g) = Steps(f)
  BY <1>1 DEF Parallel, Steps
<1>3. FrameOK(g)
  BY <1>1, <1>2, FrameFacts DEF FrameOK, InSubPlan
<1>4. QED
  BY <1>1, <1>2, <1>3 DEF Due

-----------------------------------------------------------------------------
(* What becomes of the calls: the innermost one is replaced by another     *)
(* frame, or left in its turn, or a sub-plan is entered above it.          *)

LEMMA TopReplaced ==
  ASSUME TypeOK, NEW r \in Runs, stack[r] # <<>>, NEW g \in Frames,
         stack' = [stack EXCEPT ![r] = <<g>> \o Tail(@)]
  PROVE  /\ stack' \in [Runs -> Seq(Frames)] /\ \A s \in Runs \ {r} : stack'[s] = stack[s]
         /\ stack'[r] # <<>> /\ DOMAIN stack'[r] = DOMAIN stack[r] /\ stack'[r][1] = g
         /\ \A i \in DOMAIN stack[r] \ {1} : stack'[r][i] = stack[r][i]
<1>1. stack \in [Runs -> Seq(Frames)] /\ stack[r] \in Seq(Frames)
  BY DEF TypeOK
<1> DEFINE t == <<g>> \o Tail(stack[r])
<1>2. t \in Seq(Frames) /\ t[1] = g /\ Len(t) = Len(stack[r]) /\ t # <<>>
      /\ \A i \in 2 .. Len(stack[r]) : t[i] = stack[r][i]
  BY <1>1
<1>3. stack' = [stack EXCEPT ![r] = t]
  OBVIOUS
<1> HIDE DEF t
<1>4. stack'[r] = t /\ stack' \in [Runs -> Seq(Frames)] /\ \A s \in Runs \ {r} : stack'[s] = stack[s]
  BY <1>1, <1>2, <1>3
<1>5. QED
  BY <1>1, <1>2, <1>4

LEMMA Entered ==
  ASSUME TypeOK, NEW r \in Runs, stack[r] # <<>>, NEW g \in Frames, NEW f \in Frames,
         stack' = [stack EXCEPT ![r] = <<g>> \o <<f>> \o Tail(@)]
  PROVE  /\ stack' \in [Runs -> Seq(Frames)] /\ \A s \in Runs \ {r} : stack'[s] = stack[s]
         /\ stack'[r] # <<>> /\ DOMAIN stack'[r] = 1 .. Len(stack[r]) + 1
         /\ stack'[r][1] = g /\ stack'[r][2] = f
         /\ \A i \in 3 .. Len(stack[r]) + 1 : stack'[r][i] = stack[r][i - 1]
<1>1. stack \in [Runs -> Seq(Frames)] /\ stack[r] \in Seq(Frames)
  BY DEF TypeOK
<1> DEFINE t == <<g>> \o <<f>> \o Tail(stack[r])
<1>2. t \in Seq(Frames) /\ t[1] = g /\ t[2] = f /\ Len(t) = Len(stack[r]) + 1 /\ t # <<>>
      /\ \A i \in 3 .. Len(stack[r]) + 1 : t[i] = stack[r][i - 1]
  BY <1>1
<1>3. stack' = [stack EXCEPT ![r] = t]
  OBVIOUS
<1> HIDE DEF t
<1>4. stack'[r] = t /\ stack' \in [Runs -> Seq(Frames)] /\ \A s \in Runs \ {r} : stack'[s] = stack[s]
  BY <1>1, <1>2, <1>3
<1>5. QED
  BY <1>1, <1>2, <1>4

LEMMA Popped ==
  ASSUME TypeOK, NEW r \in Runs, Len(stack[r]) > 1, NEW g \in Frames,
         stack' = [stack EXCEPT ![r] = <<g>> \o Tail(Tail(@))]
  PROVE  /\ stack' \in [Runs -> Seq(Frames)] /\ \A s \in Runs \ {r} : stack'[s] = stack[s]
         /\ stack'[r] # <<>> /\ DOMAIN stack'[r] = 1 .. Len(stack[r]) - 1
         /\ stack'[r][1] = g
         /\ \A i \in 2 .. Len(stack[r]) - 1 : stack'[r][i] = stack[r][i + 1]
<1>1. stack \in [Runs -> Seq(Frames)] /\ stack[r] \in Seq(Frames)
  BY DEF TypeOK
<1> DEFINE t == <<g>> \o Tail(Tail(stack[r]))
<1> DEFINE u == Tail(Tail(stack[r]))
<1>2. t \in Seq(Frames) /\ t[1] = g /\ Len(t) = Len(stack[r]) - 1 /\ t # <<>>
      /\ \A i \in 2 .. Len(stack[r]) - 1 : t[i] = stack[r][i + 1]
  <2>1. u \in Seq(Frames) /\ Len(u) = Len(stack[r]) - 2 /\ Len(stack[r]) \in Nat
        /\ \A i \in 1 .. Len(u) : u[i] = stack[r][i + 2]
    <3> DEFINE v == Tail(stack[r])
    <3>1. v \in Seq(Frames) /\ Len(v) = Len(stack[r]) - 1 /\ Len(stack[r]) \in Nat
          /\ \A i \in 1 .. Len(v) : v[i] = stack[r][i + 1]
      BY <1>1
    <3>2. u = Tail(v)
      OBVIOUS
    <3> HIDE DEF u, v
    <3>3. u \in Seq(Frames) /\ Len(u) = Len(v) - 1 /\ \A i \in 1 .. Len(u) : u[i] = v[i + 1]
      BY <3>1, <3>2
    <3>4. ASSUME NEW i \in 1 .. Len(u) PROVE u[i] = stack[r][i + 2]
      <4>1. i \in Nat /\ i + 1 \in 1 .. Len(v) /\ (i + 1) + 1 = i + 2
        BY <3>1, <3>3
      <4>2. QED
        BY <3>1, <3>3, <4>1
    <3>5. Len(u) = Len(stack[r]) - 2
      BY <3>1, <3>3
    <3>6. \A i \in 1 .. Len(u) : u[i] = stack[r][i + 2]
      BY <3>4
    <3>7. QED
      BY <3>1, <3>3, <3>5, <3>6, Zenon
  <2>2. t = <<g>> \o u
    OBVIOUS
  <2> HIDE DEF t, u
  <2>3. t \in Seq(Frames) /\ t[1] = g /\ Len(t) = Len(u) + 1 /\ t # <<>>
        /\ \A i \in 2 .. Len(u) + 1 : t[i] = u[i - 1]
    BY <2>1, <2>2
  <2>4. ASSUME NEW i \in 2 .. Len(stack[r]) - 1 PROVE t[i] = stack[r][i + 1]
    <3>1. i \in Int /\ i - 1 \in 1 .. Len(u) /\ i \in 2 .. Len(u) + 1 /\ (i - 1) + 2 = i + 1
      BY <2>1
    <3>2. QED
      BY <2>1, <2>3, <3>1
  <2>5. QED
    BY <2>1, <2>3, <2>4
<1>3. stack' = [stack EXCEPT ![r] = t]
  OBVIOUS
<1> HIDE DEF t
<1>4. stack'[r] = t /\ stack' \in [Runs -> Seq(Frames)] /\ \A s \in Runs \ {r} : stack'[s] = stack[s]
  BY <1>1, <1>2, <1>3
<1>5. QED
  BY <1>1, <1>2, <1>4

(* What is due moves with its call by d places, and nothing becomes due.   *)
LEMMA DueMoved ==
  ASSUME NEW r \in Runs, NEW d \in {-1, 0, 1}, DueOnce(r), UNCHANGED <<owner, phase, kept>>,
         DOMAIN stack'[r] \subseteq Nat,
         \A i \in DOMAIN stack'[r] : \A k \in Due(stack'[r][i]) :
           /\ i + d \in DOMAIN stack[r] /\ k \in Due(stack[r][i + d])
           /\ stack'[r][i].ids[k] = stack[r][i + d].ids[k]
           /\ wait[r].st = "done" => stack'[r][i].ids[k] # wait[r].id
  PROVE  DueOnce(r)'
<1> SUFFICES ASSUME NEW i \in DOMAIN stack'[r], NEW k \in Due(stack'[r][i]),
                    NEW a, a = stack'[r][i].ids[k]
             PROVE  /\ owner'[a] = r /\ phase'[a] # "unborn"
                    /\ phase'[a] = "done" =>
                         a \in kept' \/ (wait'[r].st = "done" /\ wait'[r].id = a)
                    /\ \A j \in DOMAIN stack'[r] : \A l \in Due(stack'[r][j]) :
                         stack'[r][j].ids[l] = a => j = i /\ l = k
  BY DEF DueOnce
<1>1. /\ i + d \in DOMAIN stack[r] /\ k \in Due(stack[r][i + d]) /\ a = stack[r][i + d].ids[k]
      /\ wait[r].st = "done" => a # wait[r].id
  OBVIOUS
<1>2. /\ owner[a] = r /\ phase[a] # "unborn"
      /\ phase[a] = "done" => a \in kept \/ (wait[r].st = "done" /\ wait[r].id = a)
      /\ \A j \in DOMAIN stack[r] : \A l \in Due(stack[r][j]) :
           stack[r][j].ids[l] = a => j = i + d /\ l = k
  BY <1>1 DEF DueOnce
<1>3. ASSUME NEW j \in DOMAIN stack'[r], NEW l \in Due(stack'[r][j]), stack'[r][j].ids[l] = a
      PROVE  j = i /\ l = k
  <2>1. j + d \in DOMAIN stack[r] /\ l \in Due(stack[r][j + d]) /\ stack[r][j + d].ids[l] = a
    BY <1>3
  <2>2. j + d = i + d /\ l = k
    BY <1>2, <2>1
  <2>3. QED
    BY <2>2
<1>4. QED
  BY <1>1, <1>2, <1>3

-----------------------------------------------------------------------------
(* The run whose step it is.                                               *)

LEMMA TopFrame ==
  ASSUME ExecInv, NEW r \in Runs, stack[r] # <<>>
  PROVE  /\ Top(r) = stack[r][1] /\ 1 \in DOMAIN stack[r] /\ Top(r) \in Frames /\ FrameOK(Top(r))
         /\ stage[r] = "exec" /\ outcome[r] = "none" /\ RunInv(r) /\ TypeOK /\ ResultsKept
<1>1. RunInv(r) /\ TypeOK /\ ResultsKept
  BY ExecInvByRun
<1>2. QED
  BY <1>1, StackType DEF RunInv, FramesExact, StageExact

(* A new agent is due nowhere yet, and no variable holds it.               *)
LEMMA SpawnedStep ==
  ASSUME ExecInv, NEW r \in Runs, stack[r] # <<>>, NEW f, f = Top(r), ToSpawn(f),
         NEW a \in Agents, Service!Spawn(a), owner' = [owner EXCEPT ![a] = r],
         NEW g, Spawned(f, g, a), SetTop(r, g),
         UNCHANGED <<killed, stage, vars, outcome, toolVars>>
  PROVE  ExecInv'
<1>1. /\ f = stack[r][1] /\ 1 \in DOMAIN stack[r] /\ f \in Frames /\ FrameOK(f)
      /\ RunInv(r) /\ TypeOK /\ ResultsKept
  BY TopFrame
<1>2. PICK n : n = Len(f.ids) + 1
  OBVIOUS
<1>3. /\ FrameOK(g) /\ g.err = "none" /\ Parallel(g) = Parallel(f)
      /\ Due(g) = Due(f) \cup {n} /\ Len(f.ids) \in Nat
      /\ g.ids[n] = a /\ \A k \in Due(f) : g.ids[k] = f.ids[k]
  BY <1>1, <1>2, SpawnedFrame
<1>4. f.err = "none"
  BY <1>2, <1>1, SpawningFrame
<1>5. n \notin Due(f)
  BY <1>2, <1>1, <1>3, DueFacts
<1>6. /\ stack' \in [Runs -> Seq(Frames)] /\ \A s \in Runs \ {r} : stack'[s] = stack[s]
      /\ stack'[r] # <<>> /\ DOMAIN stack'[r] = DOMAIN stack[r] /\ stack'[r][1] = g
      /\ \A i \in DOMAIN stack[r] \ {1} : stack'[r][i] = stack[r][i]
  <2>1. g \in Frames
    BY DEF Spawned
  <2>2. QED
    BY <1>1, <2>1, TopReplaced DEF SetTop
<1>7. /\ phase[a] = "unborn" /\ phase' = [phase EXCEPT ![a] = "running"]
      /\ UNCHANGED <<result, kept, wait>>
  BY DEF Service!Spawn
<1>8. /\ phase'[a] = "running" /\ owner'[a] = r
      /\ \A b \in Agents \ {a} : phase'[b] = phase[b] /\ owner'[b] = owner[b]
  BY <1>1, <1>7 DEF TypeOK
<1>9. wait[r].st = "idle" /\ wait[r].val = "none"
  BY NotWaiting
<1>10. TypeOK'
  <2>1. /\ phase' \in [Agents -> {"unborn", "running", "done"}]
        /\ owner' \in [Agents -> Runs \cup {"none"}]
    BY <1>1, <1>7 DEF TypeOK
  <2>2. QED
    BY <1>1, <1>6, <1>7, <2>1 DEF TypeOK, toolVars
<1>11. ResultsKept'
  BY <1>1, <1>7, <1>8 DEF ResultsKept
<1>12. RunInv(r)'
  <2>1. StageExact(r)' /\ WaitsForDue(r)'
    <3>1. StageExact(r)'
      BY <1>1, <1>6 DEF RunInv, StageExact
    <3>2. WaitsForDue(r)'
      BY <1>7, <1>9 DEF WaitsForDue
    <3>3. QED
      BY <3>1, <3>2
  <2>2. FramesExact(r)'
    BY <1>1, <1>3, <1>6 DEF RunInv, FramesExact
  <2>3. ASSUME NEW i \in DOMAIN stack[r], NEW k \in Due(stack[r][i])
        PROVE  /\ stack[r][i].ids[k] \in Agents \ {a} /\ stack'[r][i].ids[k] = stack[r][i].ids[k]
               /\ k \in Due(stack'[r][i])
    <3>1. stack[r][i].ids[k] \in Agents \ {a}
      BY <1>1, <1>7, StackType, DueFacts DEF RunInv, DueOnce
    <3>2. QED
      BY <1>1, <1>3, <1>6, <3>1
  <2>4. ASSUME NEW i \in DOMAIN stack[r], NEW k \in Due(stack'[r][i]), ~(i = 1 /\ k = n)
        PROVE  k \in Due(stack[r][i])
    BY <1>1, <1>3, <1>6, <2>4
  <2>5. DueOnce(r)'
    <3> SUFFICES ASSUME NEW i \in DOMAIN stack[r], NEW k \in Due(stack'[r][i]),
                        NEW b, b = stack'[r][i].ids[k]
                 PROVE  /\ owner'[b] = r /\ phase'[b] # "unborn"
                        /\ phase'[b] = "done" =>
                             b \in kept' \/ (wait'[r].st = "done" /\ wait'[r].id = b)
                        /\ \A j \in DOMAIN stack[r] : \A l \in Due(stack'[r][j]) :
                             stack'[r][j].ids[l] = b => j = i /\ l = k
      BY <1>6 DEF DueOnce
    <3>1. CASE i = 1 /\ k = n
      <4>1. b = a
        BY <1>3, <1>6, <3>1
      <4>2. QED
        BY <1>8, <2>3, <2>4, <3>1, <4>1
    <3>2. CASE ~(i = 1 /\ k = n)
      <4>1. k \in Due(stack[r][i]) /\ b = stack[r][i].ids[k] /\ b \in Agents \ {a}
        BY <2>3, <2>4, <3>2
      <4>2. /\ owner[b] = r /\ phase[b] # "unborn"
            /\ phase[b] = "done" => b \in kept \/ (wait[r].st = "done" /\ wait[r].id = b)
            /\ \A j \in DOMAIN stack[r] : \A l \in Due(stack[r][j]) :
                 stack[r][j].ids[l] = b => j = i /\ l = k
        BY <1>1, <4>1 DEF RunInv, DueOnce
      <4>3. ASSUME NEW j \in DOMAIN stack[r], NEW l \in Due(stack'[r][j]), stack'[r][j].ids[l] = b
            PROVE  j = i /\ l = k
        <5>1. ~(j = 1 /\ l = n)
          BY <1>3, <1>6, <4>1, <4>3
        <5>2. QED
          BY <2>3, <2>4, <4>2, <4>3, <5>1
      <4>4. QED
        BY <1>7, <1>8, <4>1, <4>2, <4>3
    <3>3. QED
      BY <3>1, <3>2
  <2>6. SpawnFailureKills(r)'
    <3> SUFFICES ASSUME NEW i \in DOMAIN stack[r], Parallel(stack'[r][i]),
                        stack'[r][i].err = "spawn", NEW b \in Pending(stack'[r][i]),
                        phase'[b] = "running"
                 PROVE  b \in killed
      BY <1>6 DEF SpawnFailureKills, Running
    <3>1. i # 1 /\ stack'[r][i] = stack[r][i]
      BY <1>3, <1>6
    <3>2. b \in Agents \ {a} /\ b \in Pending(stack[r][i])
      BY <2>3, <3>1 DEF Pending
    <3>3. QED
      BY <1>1, <1>8, <3>1, <3>2 DEF RunInv, SpawnFailureKills, Running
  <2>7. ASSUME NEW i \in DOMAIN stack[r], NEW b \in Pending(stack[r][i])
        PROVE  b \in Pending(stack'[r][i])
    BY <2>3, <2>7 DEF Pending
  <2>8. a \in Pending(stack'[r][1])
    BY <1>3, <1>6 DEF Pending
  <2>9. NoneLost(r)'
    <3> SUFFICES ASSUME NoErrorSoFar(r)', NEW b \in Agents \ {a}, owner[b] = r
                 PROVE  \/ phase[b] = "done" /\ result[b] = "completed"
                        \/ \E i \in DOMAIN stack[r] : b \in Pending(stack'[r][i])
      BY <1>1, <1>6, <1>7, <1>8, <2>8 DEF NoneLost, Own
    <3>1. NoErrorSoFar(r)
      BY <1>1, <1>4, <1>6 DEF NoErrorSoFar
    <3>2. QED
      BY <1>1, <2>7, <3>1 DEF RunInv, NoneLost, Own
  <2>10. VarsOf(r)'
    <3>1. \A v \in DOMAIN vars[r] : vars[r][v] \in Agents \ {a}
      BY <1>1, <1>7 DEF RunInv, VarsOf, TypeOK
    <3>2. QED
      BY <1>1, <1>7, <1>8, <3>1 DEF RunInv, VarsOf
  <2>11. AccountedOf(r)'
    <3> SUFFICES ASSUME NEW b \in Agents, owner'[b] = r, phase'[b] = "running", b \notin killed
                 PROVE  \E i \in DOMAIN stack[r] :
                          b \in Pending(stack'[r][i]) /\ stack'[r][i].err # "agent"
      BY <1>6 DEF AccountedOf, Running, Own
    <3>1. CASE b = a
      BY <1>1, <1>3, <1>6, <2>8, <3>1
    <3>2. CASE b # a
      <4>1. PICK i \in DOMAIN stack[r] : b \in Pending(stack[r][i]) /\ stack[r][i].err # "agent"
        BY <1>1, <1>8, <3>2 DEF RunInv, AccountedOf, Running, Own
      <4>2. stack'[r][i].err # "agent"
        BY <1>3, <1>6, <4>1
      <4>3. QED
        BY <2>7, <4>1, <4>2
    <3>3. QED
      BY <3>1, <3>2
  <2>12. QED
    BY <2>1, <2>2, <2>5, <2>6, <2>9, <2>10, <2>11 DEF RunInv
<1>13. ASSUME NEW s \in Runs \ {r} PROVE RunInv(s)'
  BY <1>6, <1>7, <1>8, OtherRun
<1>14. QED
  BY <1>10, <1>11, <1>12, <1>13, AllRuns

(* The other steps of an executePlan call: nothing becomes due, what is    *)
(* due moves with its call, and what is no longer due has completed or was *)
(* killed. StillDue says so of the agents due before the step, Moved of    *)
(* those due after it, and Left of the caller and the variables.           *)
Left(r) ==
  /\ wait' \in [Runs -> [st : {"idle", "wait", "done"}, id : Service!Ids,
                         val : Service!Outcomes \cup {"none", "nil"}]]
  /\ wait'[r].st = "idle" /\ wait'[r].val = "none"
  /\ DOMAIN vars' = Runs /\ \A v \in DOMAIN vars'[r] : vars'[r][v] \in Agents
  /\ VarsOf(r)'
  /\ \A s \in Runs \ {r} : vars'[s] = vars[s] /\ wait'[s] = wait[s]
Moved(r, d) ==
  \A i \in DOMAIN stack'[r] : \A k \in Due(stack'[r][i]) :
    /\ i + d \in DOMAIN stack[r] /\ k \in Due(stack[r][i + d])
    /\ stack'[r][i].ids[k] = stack[r][i + d].ids[k]
    /\ wait[r].st = "done" => stack'[r][i].ids[k] # wait[r].id
    /\ Parallel(stack'[r][i]) /\ stack'[r][i].err = "spawn" =>
         \/ Parallel(stack[r][i + d]) /\ stack[r][i + d].err = "spawn"
         \/ phase[stack'[r][i].ids[k]] = "running" => stack'[r][i].ids[k] \in killed'
StillDue(r) ==
  \A i \in DOMAIN stack[r] : \A a \in Pending(stack[r][i]) :
    /\ phase[a] = "running" /\ a \notin killed' /\ stack[r][i].err # "agent" =>
         \E j \in DOMAIN stack'[r] : a \in Pending(stack'[r][j]) /\ stack'[r][j].err # "agent"
    /\ NoErrorSoFar(r)' =>
         \/ phase[a] = "done" /\ result[a] = "completed"
         \/ \E j \in DOMAIN stack'[r] : a \in Pending(stack'[r][j])

LEMMA CallsMoved ==
  ASSUME ExecInv, NEW r \in Runs, NEW d \in {-1, 0, 1}, stack[r] # <<>>, stack'[r] # <<>>,
         stack' \in [Runs -> Seq(Frames)], \A s \in Runs \ {r} : stack'[s] = stack[s],
         UNCHANGED <<phase, result, kept, owner, stage, outcome, toolVars>>,
         Left(r), killed \subseteq killed', killed' \subseteq Agents,
         FramesExact(r)', Moved(r, d), StillDue(r), NoErrorSoFar(r)' => NoErrorSoFar(r)
  PROVE  ExecInv'
<1>1. TypeOK /\ ResultsKept /\ RunInv(r)
  BY ExecInvByRun
<1>2. TypeOK'
  BY <1>1 DEF TypeOK, Left, toolVars
<1>3. ResultsKept'
  BY <1>1 DEF ResultsKept
<1>4. DOMAIN stack'[r] = 1 .. Len(stack'[r]) /\ Len(stack'[r]) \in Nat
  OBVIOUS
<1>5. StageExact(r)'
  BY <1>1 DEF RunInv, StageExact
<1>6. WaitsForDue(r)'
  BY DEF WaitsForDue, Left
<1>7. DueOnce(r)'
  <2>1. DOMAIN stack'[r] \subseteq Nat
    BY <1>4
  <2>2. \A i \in DOMAIN stack'[r] : \A k \in Due(stack'[r][i]) :
          /\ i + d \in DOMAIN stack[r] /\ k \in Due(stack[r][i + d])
          /\ stack'[r][i].ids[k] = stack[r][i + d].ids[k]
          /\ wait[r].st = "done" => stack'[r][i].ids[k] # wait[r].id
    BY DEF Moved
  <2>3. DueOnce(r) /\ UNCHANGED <<owner, phase, kept>>
    BY <1>1 DEF RunInv
  <2>4. QED
    BY <2>1, <2>2, <2>3, DueMoved
<1>8. SpawnFailureKills(r)'
  <2> SUFFICES ASSUME NEW i \in DOMAIN stack'[r], Parallel(stack'[r][i]),
                      stack'[r][i].err = "spawn", NEW k \in Due(stack'[r][i]),
                      NEW a, a = stack'[r][i].ids[k], phase[a] = "running"
               PROVE  a \in killed'
    BY DEF SpawnFailureKills, Running, Pending
  <2>1. /\ i + d \in DOMAIN stack[r] /\ k \in Due(stack[r][i + d]) /\ a = stack[r][i + d].ids[k]
        /\ (Parallel(stack[r][i + d]) /\ stack[r][i + d].err = "spawn") \/ a \in killed'
    BY DEF Moved
  <2>2. stack[r][i + d] \in Frames
    BY <1>1, <2>1, StackType
  <2>3. a \in Agents
    BY <2>1, <2>2, DueFacts
  <2>4. QED
    BY <1>1, <2>1, <2>3 DEF RunInv, SpawnFailureKills, Running, Pending
<1>9. NoneLost(r)'
  <2> SUFFICES ASSUME NoErrorSoFar(r)', NEW a \in Own(r)
               PROVE  \/ phase[a] = "done" /\ result[a] = "completed"
                      \/ \E i \in DOMAIN stack'[r] : a \in Pending(stack'[r][i])
    BY DEF NoneLost, Own
  <2>1. NoErrorSoFar(r)
    OBVIOUS
  <2>2. \/ phase[a] = "done" /\ result[a] = "completed"
        \/ \E i \in DOMAIN stack[r] : a \in Pending(stack[r][i])
    BY <1>1, <2>1 DEF RunInv, NoneLost
  <2>3. QED
    BY <2>2 DEF StillDue
<1>10. AccountedOf(r)'
  <2> SUFFICES ASSUME NEW a \in Own(r), phase[a] = "running", a \notin killed'
               PROVE  \E i \in DOMAIN stack'[r] :
                        a \in Pending(stack'[r][i]) /\ stack'[r][i].err # "agent"
    BY DEF AccountedOf, Running, Own
  <2>1. a \in Running(Own(r)) \ killed
    BY DEF Running
  <2>2. PICK i \in DOMAIN stack[r] : a \in Pending(stack[r][i]) /\ stack[r][i].err # "agent"
    BY <1>1, <2>1 DEF RunInv, AccountedOf
  <2>3. QED
    BY <2>2 DEF StillDue
<1>11. RunInv(r)'
  BY <1>5, <1>6, <1>7, <1>8, <1>9, <1>10 DEF RunInv, Left
<1>12. ASSUME NEW s \in Runs \ {r} PROVE RunInv(s)'
  <2>1. UNCHANGED <<stage[s], stack[s], vars[s], outcome[s], wait[s], result, kept, owner, phase>>
    BY DEF Left
  <2>2. QED
    BY <2>1, OtherRun
<1>13. QED
  BY <1>2, <1>3, <1>11, <1>12, AllRuns

(* A run whose step asks the agents for nothing.                           *)
LEMMA NothingAsked ==
  ASSUME ExecInv, NEW r \in Runs, UNCHANGED <<phase, result, owner, wait, vars>>,
         wait[r].st = "idle", wait[r].val = "none"
  PROVE  Left(r)
<1>1. TypeOK /\ RunInv(r)
  BY ExecInvByRun
<1>2. VarsOf(r)'
  BY <1>1 DEF RunInv, VarsOf
<1>3. QED
  BY <1>1, <1>2 DEF TypeOK, Left

(* A step that replaces the frame of the innermost call.                   *)
LEMMA FrameReplaced ==
  ASSUME ExecInv, NEW r \in Runs, NEW f, f = Top(r), stack[r] # <<>>,
         NEW g \in Frames, FrameOK(g), SetTop(r, g)
  PROVE  /\ f = stack[r][1] /\ 1 \in DOMAIN stack[r] /\ f \in Frames /\ FrameOK(f)
         /\ RunInv(r) /\ TypeOK
         /\ stack' \in [Runs -> Seq(Frames)] /\ \A s \in Runs \ {r} : stack'[s] = stack[s]
         /\ stack'[r] # <<>> /\ DOMAIN stack'[r] = DOMAIN stack[r] /\ stack'[r][1] = g
         /\ \A i \in DOMAIN stack[r] \ {1} : stack'[r][i] = stack[r][i]
         /\ FramesExact(r)'
<1>1. /\ f = stack[r][1] /\ 1 \in DOMAIN stack[r] /\ f \in Frames /\ FrameOK(f)
      /\ RunInv(r) /\ TypeOK
  BY TopFrame
<1>2. /\ stack' \in [Runs -> Seq(Frames)] /\ \A s \in Runs \ {r} : stack'[s] = stack[s]
      /\ stack'[r] # <<>> /\ DOMAIN stack'[r] = DOMAIN stack[r] /\ stack'[r][1] = g
      /\ \A i \in DOMAIN stack[r] \ {1} : stack'[r][i] = stack[r][i]
  BY <1>1, TopReplaced DEF SetTop
<1>3. FramesExact(r)'
  BY <1>1, <1>2 DEF RunInv, FramesExact
<1>4. QED
  BY <1>1, <1>2, <1>3

(* ... in which nothing else becomes due.                                  *)
LEMMA MovedInPlace ==
  ASSUME ExecInv, NEW r \in Runs, NEW f, f = stack[r][1], NEW g,
         DOMAIN stack'[r] = DOMAIN stack[r], stack'[r][1] = g,
         \A i \in DOMAIN stack[r] \ {1} : stack'[r][i] = stack[r][i],
         \A k \in Due(g) :
           /\ k \in Due(f) /\ g.ids[k] = f.ids[k]
           /\ wait[r].st = "done" => f.ids[k] # wait[r].id
           /\ Parallel(g) /\ g.err = "spawn" /\ phase[g.ids[k]] = "running" => g.ids[k] \in killed',
         \A i \in DOMAIN stack[r] \ {1} : \A k \in Due(stack[r][i]) :
           wait[r].st = "done" => stack[r][i].ids[k] # wait[r].id
  PROVE  Moved(r, 0)
<1>1. TypeOK
  BY ExecInvByRun
<1> SUFFICES ASSUME NEW i \in DOMAIN stack'[r], NEW k \in Due(stack'[r][i])
             PROVE  /\ i + 0 \in DOMAIN stack[r] /\ k \in Due(stack[r][i + 0])
                    /\ stack'[r][i].ids[k] = stack[r][i + 0].ids[k]
                    /\ wait[r].st = "done" => stack'[r][i].ids[k] # wait[r].id
                    /\ Parallel(stack'[r][i]) /\ stack'[r][i].err = "spawn" =>
                         \/ Parallel(stack[r][i + 0]) /\ stack[r][i + 0].err = "spawn"
                         \/ phase[stack'[r][i].ids[k]] = "running" => stack'[r][i].ids[k] \in killed'
  BY DEF Moved
<1>2. i + 0 = i
  BY <1>1, StackType
<1>3. CASE i = 1
  <2>1. k \in Due(g) /\ stack'[r][i] = g /\ stack[r][i + 0] = f /\ i + 0 \in DOMAIN stack[r]
    BY <1>2, <1>3
  <2>2. QED
    BY <2>1
<1>4. CASE i # 1
  <2>1. stack'[r][i] = stack[r][i] /\ stack[r][i + 0] = stack[r][i] /\ i + 0 \in DOMAIN stack[r]
        /\ i \in DOMAIN stack[r] \ {1}
    BY <1>2, <1>4
  <2>2. QED
    BY <2>1
<1>5. QED
  BY <1>3, <1>4

LEMMA NextPhaseStep ==
  ASSUME ExecInv, NEW r \in Runs, NextPhase(r)
  PROVE  ExecInv'
<1>1. PICK f : f = Top(r)
  OBVIOUS
<1>2. PICK g : g = [f EXCEPT !.ph = @ + 1, !.ids = <<>>, !.done = 0]
  OBVIOUS
<1>3. SetTop(r, g)
  BY <1>1, <1>2, Zenon DEF NextPhase
<1>4. /\ stack[r] # <<>> /\ PhaseOver(f) /\ f.ph < Len(f.plan)
      /\ UNCHANGED <<phase, result, kept, wait, killed, owner, stage, vars, outcome, toolVars>>
  BY <1>1 DEF NextPhase, agentVars
<1>5. f \in Frames /\ FrameOK(f) /\ TypeOK
  BY <1>1, <1>4, TopFrame
<1>6. g = [plan |-> f.plan, ph |-> f.ph + 1, ids |-> <<>>, done |-> 0, err |-> f.err]
  BY <1>2, <1>5, Zenon DEF Frames
<1>7. g.plan = f.plan /\ g.ph = f.ph + 1 /\ g.ids = <<>> /\ g.done = 0 /\ g.err = f.err
  BY <1>6
<1>8. g \in Frames
  BY <1>5, <1>6 DEF Frames
<1>9. FrameOK(g) /\ g.err = "none" /\ Due(g) = {} /\ f.err = "none"
  BY <1>4, <1>5, <1>7, <1>8, NextPhaseFrame
<1>10. Due(f) = {}
  BY <1>4, <1>5, <1>9, EndingFrame
<1>11. wait[r].st = "idle" /\ wait[r].val = "none"
  BY <1>1, <1>4, NotWaiting
<1>12. Left(r)
  BY <1>4, <1>11, NothingAsked
<1>13. /\ f = stack[r][1] /\ stack'[r] # <<>> /\ DOMAIN stack'[r] = DOMAIN stack[r]
       /\ stack'[r][1] = g /\ \A i \in DOMAIN stack[r] \ {1} : stack'[r][i] = stack[r][i]
       /\ stack' \in [Runs -> Seq(Frames)] /\ \A s \in Runs \ {r} : stack'[s] = stack[s]
       /\ FramesExact(r)'
  BY <1>1, <1>3, <1>4, <1>8, <1>9, FrameReplaced
<1>14. Moved(r, 0)
  BY <1>9, <1>11, <1>13, MovedInPlace
<1>15. StillDue(r)
  <2>1. ASSUME NEW i \in DOMAIN stack[r], NEW a \in Pending(stack[r][i])
        PROVE  a \in Pending(stack'[r][i]) /\ stack'[r][i] = stack[r][i]
    <3>1. Pending(f) = {}
      BY <1>10 DEF Pending
    <3>2. i # 1
      BY <1>13, <2>1, <3>1
    <3>3. QED
      BY <1>13, <2>1, <3>2
  <2>2. QED
    BY <1>13, <2>1 DEF StillDue
<1>16. NoErrorSoFar(r)' => NoErrorSoFar(r)
  BY <1>4, <1>9, <1>13 DEF NoErrorSoFar
<1>17. killed \subseteq killed' /\ killed' \subseteq Agents
  BY <1>4, <1>5 DEF TypeOK
<1>18. QED
  BY <1>4, <1>12, <1>13, <1>14, <1>15, <1>16, <1>17, CallsMoved

(* After a failed spawn of a parallel phase nothing of it runs on.         *)
LEMMA SpawnFailsStep ==
  ASSUME ExecInv, NEW r \in Runs, NEW f, f = Top(r), stack[r] # <<>>, ToSpawn(f),
         killed' = killed \cup Running(KilledBySpawn(f)),
         NEW g, g = [f EXCEPT !.err = "spawn"], SetTop(r, g),
         UNCHANGED <<phase, result, kept, wait, owner, stage, vars, outcome, toolVars>>
  PROVE  ExecInv'
<1>1. f \in Frames /\ FrameOK(f) /\ TypeOK
  BY TopFrame
<1>2. g \in Frames /\ g.plan = f.plan /\ g.ph = f.ph /\ g.ids = f.ids /\ g.done = f.done /\ g.err = "spawn"
  BY <1>1 DEF Frames
<1>3. FrameOK(g) /\ Parallel(g) = Parallel(f) /\ Due(g) = Due(f)
  BY <1>1, <1>2, FailedSpawnFrame
<1>4. wait[r].st = "idle" /\ wait[r].val = "none"
  BY NotWaiting
<1>5. Left(r)
  BY <1>4, NothingAsked
<1>6. /\ f = stack[r][1] /\ stack'[r] # <<>> /\ DOMAIN stack'[r] = DOMAIN stack[r]
      /\ stack'[r][1] = g /\ \A i \in DOMAIN stack[r] \ {1} : stack'[r][i] = stack[r][i]
      /\ stack' \in [Runs -> Seq(Frames)] /\ \A s \in Runs \ {r} : stack'[s] = stack[s]
      /\ FramesExact(r)' /\ 1 \in DOMAIN stack[r]
  BY <1>2, <1>3, FrameReplaced
<1>7. DOMAIN f.ids = 1 .. Len(f.ids) /\ \A k \in DOMAIN f.ids : f.ids[k] \in Agents
  BY <1>1 DEF Frames
<1>8. ASSUME Parallel(f), NEW k \in Due(f), phase[f.ids[k]] = "running"
      PROVE  f.ids[k] \in killed'
  BY <1>1, <1>7, <1>8, DueFacts DEF KilledBySpawn, Running
<1>9. killed \subseteq killed' /\ killed' \subseteq Agents
  BY <1>1, <1>7 DEF TypeOK, Running, KilledBySpawn
<1>10. Moved(r, 0)
  <2>1. ASSUME NEW k \in Due(g)
        PROVE  /\ k \in Due(f) /\ g.ids[k] = f.ids[k]
               /\ wait[r].st = "done" => f.ids[k] # wait[r].id
               /\ Parallel(g) /\ g.err = "spawn" /\ phase[g.ids[k]] = "running" => g.ids[k] \in killed'
    BY <1>2, <1>3, <1>4, <1>8, <2>1
  <2>2. QED
    BY <1>4, <1>6, <2>1, MovedInPlace
<1>11. ASSUME NEW i \in DOMAIN stack[r], NEW a \in Pending(stack[r][i])
       PROVE  a \in Pending(stack'[r][i]) /\ (stack[r][i].err # "agent" => stack'[r][i].err # "agent")
  <2>1. Pending(g) = Pending(f)
    BY <1>2, <1>3 DEF Pending
  <2>2. QED
    BY <1>2, <1>6, <1>11, <2>1
<1>12. ~NoErrorSoFar(r)'
  BY <1>2, <1>6 DEF NoErrorSoFar
<1>13. StillDue(r)
  BY <1>6, <1>11, <1>12 DEF StillDue
<1>14. QED
  BY <1>5, <1>6, <1>9, <1>10, <1>12, <1>13, CallsMoved

(* A Wait was answered: for the next agent due in the innermost call, which *)
(* is due in no other place, with the agent's own result.                  *)
LEMMA StepAnswered ==
  ASSUME ExecInv, NEW r \in Runs, wait[r].st = "done", NEW f, f = Top(r), NEW w, w = wait[r].id
  PROVE  /\ stack[r] # <<>> /\ ToWait(f) /\ w = f.ids[f.done + 1] /\ f.done + 1 \in Due(f)
         /\ w \in Agents /\ owner[w] = r /\ phase[w] = "done"
         /\ wait[r].val = result[w] /\ result[w] \in Service!Outcomes
         /\ \A i \in DOMAIN stack[r] : \A k \in Due(stack[r][i]) :
              stack[r][i].ids[k] = w => i = 1 /\ k = f.done + 1
<1>1. TypeOK /\ ResultsKept /\ RunInv(r)
  BY ExecInvByRun
<1>2. /\ stack[r] # <<>> /\ ToWait(f) /\ w = f.ids[f.done + 1]
      /\ phase[w] = "done" /\ wait[r].val = result[w]
  BY <1>1 DEF RunInv, WaitsForDue
<1>3. f = stack[r][1] /\ 1 \in DOMAIN stack[r] /\ f \in Frames /\ FrameOK(f)
  BY <1>2, TopFrame
<1>4. f.done + 1 \in Due(f)
  BY <1>2, <1>3, WaitingFrame
<1>5. w \in Agents
  BY <1>2, <1>3, <1>4, DueFacts
<1>6. owner[w] = r /\ \A j \in DOMAIN stack[r] : \A l \in Due(stack[r][j]) :
                         stack[r][j].ids[l] = w => j = 1 /\ l = f.done + 1
  BY <1>1, <1>2, <1>3, <1>4 DEF RunInv, DueOnce
<1>7. result[w] \in Service!Outcomes
  BY <1>1, <1>2, <1>5 DEF ResultsKept
<1>8. QED
  BY <1>2, <1>4, <1>5, <1>6, <1>7

LEMMA CallerLeaves ==
  ASSUME ExecInv, NEW r \in Runs, Service!Leave(r), owner' = owner,
         DOMAIN vars' = Runs, \A s \in Runs \ {r} : vars'[s] = vars[s],
         \A v \in DOMAIN vars'[r] :
           /\ vars'[r][v] \in Agents /\ owner[vars'[r][v]] = r
           /\ phase[vars'[r][v]] = "done" /\ result[vars'[r][v]] = "completed"
  PROVE  Left(r) /\ UNCHANGED <<phase, result, kept>>
<1>1. wait \in [Runs -> [st : {"idle", "wait", "done"}, id : Service!Ids,
                        val : Service!Outcomes \cup {"none", "nil"}]]
  BY ExecInvByRun DEF TypeOK
<1>2. /\ wait' = [wait EXCEPT ![r] = [st |-> "idle", id |-> 0, val |-> "none"]]
      /\ UNCHANGED <<phase, result, kept>>
  BY DEF Service!Leave, Service!Idle
<1>3. [st |-> "idle", id |-> 0, val |-> "none"]
        \in [st : {"idle", "wait", "done"}, id : Service!Ids,
            val : Service!Outcomes \cup {"none", "nil"}]
  BY BoundsAssumption DEF Service!Ids
<1>4. /\ wait' \in [Runs -> [st : {"idle", "wait", "done"}, id : Service!Ids,
                            val : Service!Outcomes \cup {"none", "nil"}]]
      /\ wait'[r].st = "idle" /\ wait'[r].val = "none"
      /\ \A s \in Runs \ {r} : wait'[s] = wait[s]
  BY <1>1, <1>2, <1>3
<1>5. VarsOf(r)'
  BY <1>2, <1>4 DEF VarsOf
<1>6. QED
  BY <1>2, <1>4, <1>5 DEF Left

LEMMA StepFailedStep ==
  ASSUME ExecInv, NEW r \in Runs, wait[r].st = "done", StepFailed(r), Service!Leave(r),
         UNCHANGED <<owner, stage, outcome, toolVars>>
  PROVE  ExecInv'
<1>1. PICK f : f = Top(r)
  OBVIOUS
<1>2. PICK w : w = wait[r].id
  OBVIOUS
<1>3. PICK g : g = [f EXCEPT !.done = @ + 1, !.err = IF @ = "none" THEN "agent" ELSE @]
  OBVIOUS
<1>4. SetTop(r, g)
  BY <1>1, <1>3, Zenon DEF StepFailed
<1>5. /\ stack[r] # <<>> /\ ToWait(f) /\ w = f.ids[f.done + 1] /\ f.done + 1 \in Due(f)
      /\ w \in Agents /\ owner[w] = r /\ phase[w] = "done"
      /\ wait[r].val = result[w] /\ result[w] \in Service!Outcomes
      /\ \A i \in DOMAIN stack[r] : \A k \in Due(stack[r][i]) :
           stack[r][i].ids[k] = w => i = 1 /\ k = f.done + 1
  BY <1>1, <1>2, StepAnswered
<1>6. vars' = vars /\ killed' = killed \cup Running(KilledByAgent(f))
  BY <1>1, <1>5 DEF StepFailed, Service!Outcomes
<1>7. f \in Frames /\ FrameOK(f) /\ TypeOK /\ RunInv(r)
  BY <1>1, <1>5, TopFrame
<1>8. g = [plan |-> f.plan, ph |-> f.ph, ids |-> f.ids, done |-> f.done + 1,
           err |-> IF f.err = "none" THEN "agent" ELSE f.err]
  BY <1>3, <1>7, Zenon DEF Frames
<1>9. /\ g.plan = f.plan /\ g.ph = f.ph /\ g.ids = f.ids /\ g.done = f.done + 1
      /\ g.err = IF f.err = "none" THEN "agent" ELSE f.err
  BY <1>8
<1>10. g \in Frames
  BY <1>7, <1>8 DEF Frames
<1>11. FrameOK(g) /\ Parallel(g) = Parallel(f) /\ Due(g) = Due(f) \ {f.done + 1}
  BY <1>5, <1>7, <1>9, <1>10, FailedFrame
<1>12. /\ f = stack[r][1] /\ stack'[r] # <<>> /\ DOMAIN stack'[r] = DOMAIN stack[r]
       /\ stack'[r][1] = g /\ \A i \in DOMAIN stack[r] \ {1} : stack'[r][i] = stack[r][i]
       /\ stack' \in [Runs -> Seq(Frames)] /\ \A s \in Runs \ {r} : stack'[s] = stack[s]
       /\ FramesExact(r)' /\ 1 \in DOMAIN stack[r]
  BY <1>1, <1>4, <1>5, <1>10, <1>11, FrameReplaced
<1>13. Left(r) /\ UNCHANGED <<phase, result, kept>>
  BY <1>6, <1>7, CallerLeaves DEF TypeOK, RunInv, VarsOf
<1>14. /\ DOMAIN f.ids = 1 .. Len(f.ids) /\ \A k \in DOMAIN f.ids : f.ids[k] \in Agents
       /\ Len(f.ids) \in Nat /\ f.done \in Nat
  BY <1>7 DEF Frames
<1>15. killed \subseteq killed' /\ killed' \subseteq Agents
  <2>1. KilledByAgent(f) \subseteq Agents
    <3>1. (f.done + 2) .. Len(f.ids) \subseteq DOMAIN f.ids
      BY <1>14
    <3>2. QED
      BY <1>14, <3>1 DEF KilledByAgent
  <2>2. QED
    BY <1>6, <1>7, <2>1 DEF TypeOK, Running
<1>16. f.err # "spawn" /\ (~Parallel(f) => f.err = "none" /\ Len(f.ids) = f.done + 1)
  BY <1>5, <1>7, WaitingFrame
<1>17. Moved(r, 0)
  <2>1. ASSUME NEW k \in Due(g)
        PROVE  /\ k \in Due(f) /\ g.ids[k] = f.ids[k]
               /\ wait[r].st = "done" => f.ids[k] # wait[r].id
               /\ Parallel(g) /\ g.err = "spawn" /\ phase[g.ids[k]] = "running" => g.ids[k] \in killed'
    BY <1>2, <1>5, <1>9, <1>11, <1>12, <1>16, <2>1
  <2>2. ASSUME NEW i \in DOMAIN stack[r] \ {1}, NEW k \in Due(stack[r][i])
        PROVE  stack[r][i].ids[k] # wait[r].id
    BY <1>2, <1>5, <2>2
  <2>3. QED
    BY <1>12, <2>1, <2>2, MovedInPlace
<1>18. ~NoErrorSoFar(r)'
  BY <1>9, <1>12 DEF NoErrorSoFar
<1>19. StillDue(r)
  <2> SUFFICES ASSUME NEW i \in DOMAIN stack[r], NEW k \in Due(stack[r][i]),
                      NEW a, a = stack[r][i].ids[k],
                      phase[a] = "running", a \notin killed', stack[r][i].err # "agent"
               PROVE  \E j \in DOMAIN stack'[r] : a \in Pending(stack'[r][j]) /\ stack'[r][j].err # "agent"
    BY <1>18 DEF StillDue, Pending
  <2>1. CASE i = 1
    <3>1. k # f.done + 1 /\ k \in Due(f) /\ a = f.ids[k]
      BY <1>5, <1>12, <2>1
    <3>2. k \in (f.done + 2) .. Len(f.ids)
      BY <1>14, <3>1 DEF Due
    <3>3. f.err # "none"
      <4>1. ASSUME f.err = "none", Parallel(f) PROVE FALSE
        BY <1>6, <1>14, <3>1, <3>2, <4>1 DEF KilledByAgent, Running
      <4>2. ASSUME ~Parallel(f) PROVE FALSE
        BY <1>14, <1>16, <3>2, <4>2
      <4>3. QED
        BY <4>1, <4>2
    <3>4. a \in Pending(g) /\ g.err # "agent"
      BY <1>9, <1>11, <1>12, <2>1, <3>1, <3>3 DEF Pending
    <3>5. QED
      BY <1>12, <3>4
  <2>2. CASE i # 1
    <3>1. a \in Pending(stack[r][i])
      BY DEF Pending
    <3>2. QED
      BY <1>12, <2>2, <3>1
  <2>3. QED
    BY <2>1, <2>2
<1>20. QED
  BY <1>5, <1>12, <1>13, <1>15, <1>17, <1>18, <1>19, CallsMoved

(* What a completed step stores is the result of an agent that completed.  *)
LEMMA StoredFacts ==
  ASSUME ExecInv, NEW r \in Runs, NEW f, NEW w, w = wait[r].id,
         w \in Agents, owner[w] = r, phase[w] = "done", result[w] = "completed",
         vars' = [vars EXCEPT ![r] = Stored(r, f)]
  PROVE  /\ DOMAIN vars' = Runs /\ \A s \in Runs \ {r} : vars'[s] = vars[s]
         /\ \A v \in DOMAIN vars'[r] :
              /\ vars'[r][v] \in Agents /\ owner[vars'[r][v]] = r
              /\ phase[vars'[r][v]] = "done" /\ result[vars'[r][v]] = "completed"
<1>1. DOMAIN vars = Runs /\ \A v \in DOMAIN vars[r] : vars[r][v] \in Agents
  BY ExecInvByRun DEF TypeOK
<1>2. \A v \in DOMAIN vars[r] :
        /\ owner[vars[r][v]] = r
        /\ phase[vars[r][v]] = "done" /\ result[vars[r][v]] = "completed"
  BY ExecInvByRun DEF RunInv, VarsOf
<1> DEFINE new == Stored(r, f)
           out == Steps(f)[f.done + 1].out
<1>3. vars'[r] = new /\ DOMAIN vars' = Runs /\ \A s \in Runs \ {r} : vars'[s] = vars[s]
  BY <1>1
<1>4. ASSUME NEW v \in DOMAIN new
      PROVE  new[v] = w \/ (v \in DOMAIN vars[r] /\ new[v] = vars[r][v])
  <2>1. CASE out = NoVar
    BY <1>4, <2>1 DEF Stored
  <2>2. CASE out # NoVar
    BY <1>4, <2>2 DEF Stored
  <2>3. QED
    BY <2>1, <2>2
<1> HIDE DEF new
<1>5. QED
  BY <1>1, <1>2, <1>3, <1>4

LEMMA StepCompletedStep ==
  ASSUME ExecInv, NEW r \in Runs, wait[r].st = "done", StepCompleted(r), Service!Leave(r),
         UNCHANGED <<owner, stage, outcome, toolVars>>
  PROVE  ExecInv'
<1>1. PICK f : f = Top(r)
  OBVIOUS
<1>2. PICK w : w = wait[r].id
  OBVIOUS
<1>3. PICK g : g = [f EXCEPT !.done = @ + 1]
  OBVIOUS
<1>4. PICK sub : sub = Steps(f)[f.done + 1].sub
  OBVIOUS
<1>5. stack' = [stack EXCEPT ![r] =
        (IF sub = <<>> THEN <<>> ELSE <<Frame(sub)>>) \o <<g>> \o Tail(@)]
  BY <1>1, <1>3, <1>4, Zenon DEF StepCompleted
<1>6. /\ stack[r] # <<>> /\ ToWait(f) /\ w = f.ids[f.done + 1] /\ f.done + 1 \in Due(f)
      /\ w \in Agents /\ owner[w] = r /\ phase[w] = "done"
      /\ wait[r].val = result[w] /\ result[w] \in Service!Outcomes
      /\ \A i \in DOMAIN stack[r] : \A k \in Due(stack[r][i]) :
           stack[r][i].ids[k] = w => i = 1 /\ k = f.done + 1
  BY <1>1, <1>2, StepAnswered
<1>7. f \in Frames /\ FrameOK(f) /\ f = stack[r][1] /\ 1 \in DOMAIN stack[r] /\ TypeOK /\ RunInv(r)
  BY <1>1, <1>6, TopFrame
<1>8. killed' = killed /\ result[w] = "completed" /\ vars' = [vars EXCEPT ![r] = Stored(r, f)]
  BY <1>1, <1>6 DEF StepCompleted
<1>9. Left(r) /\ UNCHANGED <<phase, result, kept>>
  BY <1>2, <1>6, <1>8, StoredFacts, CallerLeaves
<1>10. killed \subseteq killed' /\ killed' \subseteq Agents
  BY <1>7, <1>8 DEF TypeOK
<1>11. /\ g.plan = f.plan /\ g.ph = f.ph /\ g.ids = f.ids /\ g.done = f.done + 1
       /\ g.err = f.err /\ g \in Frames
  BY <1>3, <1>7 DEF Frames
<1>12. FrameOK(g) /\ InSubPlan(g) /\ Parallel(g) = Parallel(f) /\ Due(g) = Due(f) \ {f.done + 1}
  BY <1>6, <1>7, <1>11, AnsweredFrame
<1>13. f.err # "spawn"
  BY <1>6, <1>7, WaitingFrame
<1>14. ASSUME NEW k \in Due(g)
       PROVE  /\ k \in Due(f) /\ g.ids[k] = f.ids[k]
              /\ wait[r].st = "done" => f.ids[k] # wait[r].id
              /\ Parallel(g) /\ g.err = "spawn" /\ phase[g.ids[k]] = "running" => g.ids[k] \in killed'
  BY <1>2, <1>6, <1>7, <1>11, <1>12, <1>13, <1>14
<1>15. ASSUME NEW i \in DOMAIN stack[r] \ {1}, NEW k \in Due(stack[r][i])
       PROVE  stack[r][i].ids[k] # wait[r].id
  BY <1>2, <1>6, <1>15
<1>16. ASSUME NEW a \in Pending(f), a # w
       PROVE  a \in Pending(g)
  BY <1>6, <1>11, <1>12, <1>16 DEF Pending
<1>17. CASE sub = <<>>
  <2>1. SetTop(r, g)
    <3>1. <<>> \o <<g>> = <<g>>
      OBVIOUS
    <3>2. stack' = [stack EXCEPT ![r] = (<<>> \o <<g>>) \o Tail(@)]
      BY <1>5, <1>17
    <3>3. QED
      BY <3>1, <3>2 DEF SetTop
  <2>2. /\ stack'[r] # <<>> /\ DOMAIN stack'[r] = DOMAIN stack[r]
        /\ stack'[r][1] = g /\ \A i \in DOMAIN stack[r] \ {1} : stack'[r][i] = stack[r][i]
        /\ stack' \in [Runs -> Seq(Frames)] /\ \A s \in Runs \ {r} : stack'[s] = stack[s]
        /\ FramesExact(r)'
    BY <1>1, <1>6, <1>11, <1>12, <2>1, FrameReplaced
  <2>3. Moved(r, 0)
    BY <1>7, <1>14, <1>15, <2>2, MovedInPlace
  <2>4. StillDue(r)
    <3>1. ASSUME NEW i \in DOMAIN stack[r], NEW a \in Pending(stack[r][i])
          PROVE  a = w \/ (a \in Pending(stack'[r][i]) /\ stack'[r][i].err = stack[r][i].err)
      BY <1>7, <1>11, <1>16, <2>2, <3>1
    <3>2. ASSUME NEW i \in DOMAIN stack[r], NEW a \in Pending(stack[r][i])
          PROVE  /\ phase[a] = "running" /\ a \notin killed' /\ stack[r][i].err # "agent" =>
                      \E j \in DOMAIN stack'[r] : a \in Pending(stack'[r][j]) /\ stack'[r][j].err # "agent"
                 /\ NoErrorSoFar(r)' =>
                      \/ phase[a] = "done" /\ result[a] = "completed"
                      \/ \E j \in DOMAIN stack'[r] : a \in Pending(stack'[r][j])
      <4>1. CASE a = w
        BY <1>6, <1>8, <4>1
      <4>2. CASE a # w
        BY <2>2, <3>1, <3>2, <4>2
      <4>3. QED
        BY <4>1, <4>2
    <3>3. QED
      BY <3>2 DEF StillDue
  <2>5. NoErrorSoFar(r)' => NoErrorSoFar(r)
    BY <1>7, <1>11, <2>2 DEF NoErrorSoFar
  <2>6. QED
    BY <1>6, <1>9, <1>10, <2>2, <2>3, <2>4, <2>5, CallsMoved
<1>18. CASE sub # <<>>
  <2>1. PICK h : h = Frame(sub)
    OBVIOUS
  <2>2. sub \in Plans
    <3>1. f.done + 1 \in 1 .. Len(Steps(f))
      BY <1>6, <1>7, WaitingFrame
    <3>2. QED
      BY <1>4, <1>7, <1>18, <3>1, FrameFacts
  <2>3. h \in Frames /\ FrameOK(h) /\ h.ids = <<>> /\ h.err = "none" /\ h.done = 0
    BY <2>1, <2>2, PlanFacts
  <2>4. Due(h) = {}
    BY <2>3 DEF Due
  <2>5. stack' = [stack EXCEPT ![r] = <<h>> \o <<g>> \o Tail(@)]
    BY <1>5, <1>18, <2>1
  <2>6. /\ stack' \in [Runs -> Seq(Frames)] /\ \A s \in Runs \ {r} : stack'[s] = stack[s]
        /\ stack'[r] # <<>> /\ DOMAIN stack'[r] = 1 .. Len(stack[r]) + 1
        /\ stack'[r][1] = h /\ stack'[r][2] = g
        /\ \A i \in 3 .. Len(stack[r]) + 1 : stack'[r][i] = stack[r][i - 1]
    BY <1>6, <1>7, <1>11, <2>3, <2>5, Entered
  <2>7. stack[r] \in Seq(Frames) /\ Len(stack[r]) \in Nat /\ DOMAIN stack[r] = 1 .. Len(stack[r])
    BY <1>7, StackType
  <2>8. ASSUME NEW i \in DOMAIN stack'[r]
        PROVE  \/ i = 1 /\ stack'[r][i] = h
               \/ i = 2 /\ stack'[r][i] = g
               \/ /\ i \notin {1, 2} /\ i + (-1) \in DOMAIN stack[r] \ {1}
                  /\ stack'[r][i] = stack[r][i + (-1)]
    BY <2>6, <2>7, <2>8
  <2>9. ASSUME NEW i \in DOMAIN stack[r]
        PROVE  \/ i = 1 /\ stack[r][i] = f /\ 2 \in DOMAIN stack'[r]
               \/ i # 1 /\ i + 1 \in DOMAIN stack'[r] /\ stack'[r][i + 1] = stack[r][i]
    <3>1. i \in Nat /\ i + 1 \in 1 .. Len(stack[r]) + 1 /\ (i + 1) - 1 = i
          /\ (i # 1 => i + 1 \in 3 .. Len(stack[r]) + 1) /\ 2 \in 1 .. Len(stack[r]) + 1
      BY <2>7, <2>9
    <3>2. QED
      BY <1>7, <2>6, <2>9, <3>1
  <2>10. FramesExact(r)'
    <3> SUFFICES ASSUME NEW i \in DOMAIN stack'[r]
                 PROVE  FrameOK(stack'[r][i]) /\ (i > 1 => InSubPlan(stack'[r][i]))
      BY DEF FramesExact
    <3>1. CASE i = 1
      BY <2>3, <2>6, <3>1
    <3>2. CASE i = 2
      BY <1>12, <2>6, <3>2
    <3>3. CASE i \notin {1, 2}
      <4>1. i + (-1) \in DOMAIN stack[r] /\ i + (-1) > 1 /\ stack'[r][i] = stack[r][i + (-1)]
        BY <2>7, <2>8, <3>3
      <4>2. QED
        BY <1>7, <4>1 DEF RunInv, FramesExact
    <3>4. QED
      BY <3>1, <3>2, <3>3
  <2>11. Moved(r, -1)
    <3> SUFFICES ASSUME NEW i \in DOMAIN stack'[r], NEW k \in Due(stack'[r][i])
                 PROVE  /\ i + (-1) \in DOMAIN stack[r] /\ k \in Due(stack[r][i + (-1)])
                        /\ stack'[r][i].ids[k] = stack[r][i + (-1)].ids[k]
                        /\ wait[r].st = "done" => stack'[r][i].ids[k] # wait[r].id
                        /\ Parallel(stack'[r][i]) /\ stack'[r][i].err = "spawn" =>
                             \/ Parallel(stack[r][i + (-1)]) /\ stack[r][i + (-1)].err = "spawn"
                             \/ phase[stack'[r][i].ids[k]] = "running" => stack'[r][i].ids[k] \in killed'
      BY DEF Moved
    <3>1. i # 1
      BY <2>4, <2>6
    <3>2. CASE i = 2
      <4>1. stack'[r][i] = g /\ i + (-1) = 1 /\ stack[r][i + (-1)] = f
        BY <1>7, <2>6, <3>2
      <4>2. k \in Due(g)
        BY <4>1
      <4>3. QED
        BY <1>7, <1>14, <4>1, <4>2
    <3>3. CASE i # 2
      <4>1. i + (-1) \in DOMAIN stack[r] \ {1} /\ stack'[r][i] = stack[r][i + (-1)]
        BY <2>8, <3>1, <3>3
      <4>2. QED
        BY <1>15, <4>1
    <3>4. QED
      BY <3>2, <3>3
  <2>12. StillDue(r)
    <3>1. ASSUME NEW i \in DOMAIN stack[r], NEW a \in Pending(stack[r][i]), a # w
          PROVE  \E j \in DOMAIN stack'[r] :
                   a \in Pending(stack'[r][j]) /\ stack'[r][j].err = stack[r][i].err
      <4>1. CASE i = 1
        BY <1>7, <1>11, <1>16, <2>6, <2>9, <3>1, <4>1
      <4>2. CASE i # 1
        BY <2>9, <3>1, <4>2
      <4>3. QED
        BY <4>1, <4>2
    <3>2. ASSUME NEW i \in DOMAIN stack[r], NEW a \in Pending(stack[r][i])
          PROVE  /\ phase[a] = "running" /\ a \notin killed' /\ stack[r][i].err # "agent" =>
                      \E j \in DOMAIN stack'[r] : a \in Pending(stack'[r][j]) /\ stack'[r][j].err # "agent"
                 /\ NoErrorSoFar(r)' =>
                      \/ phase[a] = "done" /\ result[a] = "completed"
                      \/ \E j \in DOMAIN stack'[r] : a \in Pending(stack'[r][j])
      <4>1. CASE a = w
        BY <1>6, <1>8, <4>1
      <4>2. CASE a # w
        BY <3>1, <3>2, <4>2
      <4>3. QED
        BY <4>1, <4>2
    <3>3. QED
      BY <3>2 DEF StillDue
  <2>13. NoErrorSoFar(r)' => NoErrorSoFar(r)
    <3> SUFFICES ASSUME NoErrorSoFar(r)', NEW i \in DOMAIN stack[r]
                 PROVE  stack[r][i].err = "none"
      BY DEF NoErrorSoFar
    <3>1. CASE i = 1
      BY <1>7, <1>11, <2>6, <2>9, <3>1 DEF NoErrorSoFar
    <3>2. CASE i # 1
      BY <2>9, <3>2 DEF NoErrorSoFar
    <3>3. QED
      BY <3>1, <3>2
  <2>14. -1 \in {-1, 0, 1}
    OBVIOUS
  <2>15. QED
    BY <1>6, <1>9, <1>10, <2>6, <2>10, <2>11, <2>12, <2>13, <2>14, CallsMoved
<1>19. QED
  BY <1>17, <1>18

(* When a call ends, none of its agents runs on without having been killed. *)
LEMMA EndedDue ==
  ASSUME ExecInv, NEW r \in Runs, stack[r] # <<>>, Ended(Top(r))
  PROVE  /\ Running(Pending(Top(r))) \subseteq killed
         /\ Top(r).err = "none" => Pending(Top(r)) = {}
<1>1. /\ Top(r) = stack[r][1] /\ 1 \in DOMAIN stack[r] /\ Top(r) \in Frames /\ FrameOK(Top(r))
      /\ RunInv(r)
  BY TopFrame
<1>2. Due(Top(r)) = {} \/ (Parallel(Top(r)) /\ Top(r).err = "spawn")
  BY <1>1, EndingFrame
<1>3. CASE Due(Top(r)) = {}
  BY <1>3 DEF Pending, Running
<1>4. CASE Parallel(Top(r)) /\ Top(r).err = "spawn"
  BY <1>1, <1>4 DEF RunInv, SpawnFailureKills
<1>5. QED
  BY <1>2, <1>3, <1>4

LEMMA SubPlanReturns ==
  ASSUME ExecInv, NEW r \in Runs, stack[r] # <<>>, Ended(Top(r)), Len(stack[r]) > 1,
         stack' = [stack EXCEPT ![r] = <<Returned(@[2], @[1].err)>> \o Tail(Tail(@))],
         UNCHANGED <<agentVars, stage, vars, outcome, toolVars>>
  PROVE  ExecInv'
<1>1. PICK f : f = stack[r][2]
  OBVIOUS
<1>2. PICK top : top = stack[r][1]
  OBVIOUS
<1>3. PICK g : g = Returned(f, top.err)
  OBVIOUS
<1>4. top = Top(r) /\ 1 \in DOMAIN stack[r] /\ RunInv(r) /\ TypeOK /\ Ended(top)
  BY <1>2, TopFrame
<1>5. stack[r] \in Seq(Frames) /\ Len(stack[r]) \in Nat /\ DOMAIN stack[r] = 1 .. Len(stack[r])
  BY <1>4, StackType
<1>6. f \in Frames /\ FrameOK(f) /\ InSubPlan(f)
  BY <1>1, <1>4, <1>5, StackType DEF RunInv, FramesExact
<1>7. /\ FrameOK(g) /\ g \in Frames /\ Parallel(g) = Parallel(f) /\ g.ids = f.ids
      /\ Due(g) = Due(f) /\ (g.err = "none" => f.err = "none" /\ top.err = "none")
      /\ (g.err = f.err \/ g.err = "sub")
  BY <1>3, <1>6, ReturnedFrame
<1>8. /\ stack' \in [Runs -> Seq(Frames)] /\ \A s \in Runs \ {r} : stack'[s] = stack[s]
      /\ stack'[r] # <<>> /\ DOMAIN stack'[r] = 1 .. Len(stack[r]) - 1
      /\ stack'[r][1] = g
      /\ \A i \in 2 .. Len(stack[r]) - 1 : stack'[r][i] = stack[r][i + 1]
  <2>1. stack' = [stack EXCEPT ![r] = <<g>> \o Tail(Tail(@))]
    BY <1>1, <1>2, <1>3
  <2>2. QED
    BY <1>4, <1>7, <2>1, Popped
<1>9. ASSUME NEW i \in DOMAIN stack'[r]
      PROVE  /\ i \in Nat /\ i + 1 \in DOMAIN stack[r] /\ i + 1 > 1
             /\ i = 1 => stack'[r][i] = g /\ stack[r][i + 1] = f
             /\ i # 1 => stack'[r][i] = stack[r][i + 1]
  <2>1. i \in Nat /\ i + 1 \in 1 .. Len(stack[r]) /\ i + 1 > 1
        /\ (i # 1 => i \in 2 .. Len(stack[r]) - 1)
    BY <1>5, <1>8, <1>9
  <2>2. i = 1 => i + 1 = 2
    BY <2>1
  <2>3. QED
    BY <1>1, <1>5, <1>8, <2>1, <2>2
<1>10. ASSUME NEW i \in DOMAIN stack[r], i # 1
       PROVE  /\ i - 1 \in DOMAIN stack'[r] /\ (i = 2 => stack[r][i] = f /\ stack'[r][i - 1] = g)
              /\ (i # 2 => stack'[r][i - 1] = stack[r][i])
  <2>1. i \in Nat /\ i - 1 \in 1 .. Len(stack[r]) - 1 /\ (i - 1) + 1 = i
        /\ (i # 2 => i - 1 \in 2 .. Len(stack[r]) - 1) /\ (i = 2 => i - 1 = 1)
    BY <1>5, <1>10
  <2>2. QED
    BY <1>1, <1>8, <2>1
<1>11. UNCHANGED <<phase, result, kept, wait, killed, owner, stage, vars, outcome, toolVars>>
  BY DEF agentVars
<1>12. wait[r].st = "idle" /\ wait[r].val = "none"
  BY <1>4, NotWaiting
<1>13. Left(r)
  BY <1>11, <1>12, NothingAsked
<1>14. Running(Pending(top)) \subseteq killed /\ (top.err = "none" => Pending(top) = {})
  BY <1>4, EndedDue
<1>15. killed \subseteq killed' /\ killed' \subseteq Agents
  BY <1>4, <1>11 DEF TypeOK
<1>16. FramesExact(r)'
  <2> SUFFICES ASSUME NEW i \in DOMAIN stack'[r]
               PROVE  FrameOK(stack'[r][i]) /\ (i > 1 => InSubPlan(stack'[r][i]))
    BY DEF FramesExact
  <2>1. FrameOK(stack[r][i + 1]) /\ InSubPlan(stack[r][i + 1])
    BY <1>4, <1>9 DEF RunInv, FramesExact
  <2>2. CASE i = 1
    BY <1>7, <1>9, <2>2
  <2>3. CASE i # 1
    BY <1>9, <2>1, <2>3
  <2>4. QED
    BY <2>2, <2>3
<1>17. Moved(r, 1)
  <2> SUFFICES ASSUME NEW i \in DOMAIN stack'[r], NEW k \in Due(stack'[r][i])
               PROVE  /\ i + 1 \in DOMAIN stack[r] /\ k \in Due(stack[r][i + 1])
                      /\ stack'[r][i].ids[k] = stack[r][i + 1].ids[k]
                      /\ wait[r].st = "done" => stack'[r][i].ids[k] # wait[r].id
                      /\ Parallel(stack'[r][i]) /\ stack'[r][i].err = "spawn" =>
                           \/ Parallel(stack[r][i + 1]) /\ stack[r][i + 1].err = "spawn"
                           \/ phase[stack'[r][i].ids[k]] = "running" => stack'[r][i].ids[k] \in killed'
    BY DEF Moved
  <2>1. CASE i = 1
    <3>1. stack'[r][i] = g /\ stack[r][i + 1] = f /\ i + 1 \in DOMAIN stack[r]
      BY <1>9, <2>1
    <3>2. k \in Due(f)
      BY <1>7, <3>1
    <3>3. QED
      BY <1>7, <1>12, <3>1, <3>2
  <2>2. CASE i # 1
    BY <1>9, <1>12, <2>2
  <2>3. QED
    BY <2>1, <2>2
<1>18. NoErrorSoFar(r)' => NoErrorSoFar(r) /\ top.err = "none"
  <2> SUFFICES ASSUME NoErrorSoFar(r)'
               PROVE  NoErrorSoFar(r) /\ top.err = "none"
    OBVIOUS
  <2>1. f.err = "none" /\ top.err = "none"
    <3>1. 1 \in DOMAIN stack'[r]
      BY <1>5, <1>8
    <3>2. QED
      BY <1>7, <1>8, <3>1 DEF NoErrorSoFar
  <2>2. ASSUME NEW i \in DOMAIN stack[r] PROVE stack[r][i].err = "none"
    <3>1. CASE i = 1
      BY <1>2, <2>1, <3>1
    <3>2. CASE i = 2
      BY <1>1, <2>1, <3>2
    <3>3. CASE i \notin {1, 2}
      BY <1>10, <2>2, <3>3 DEF NoErrorSoFar
    <3>4. QED
      BY <3>1, <3>2, <3>3
  <2>3. QED
    BY <1>11, <2>1, <2>2 DEF NoErrorSoFar
<1>19. StillDue(r)
  <2>1. ASSUME NEW i \in DOMAIN stack[r], NEW a \in Pending(stack[r][i]), i # 1
        PROVE  \E j \in DOMAIN stack'[r] :
                 a \in Pending(stack'[r][j]) /\ (stack[r][i].err # "agent" => stack'[r][j].err # "agent")
    <3>1. Pending(g) = Pending(f) /\ (f.err # "agent" => g.err # "agent")
      BY <1>7 DEF Pending
    <3>2. PICK j : j = i - 1
      OBVIOUS
    <3>3. CASE i = 2
      <4>1. j \in DOMAIN stack'[r] /\ stack'[r][j] = g /\ stack[r][i] = f
        BY <1>10, <2>1, <3>2, <3>3
      <4>2. QED
        BY <2>1, <3>1, <4>1
    <3>4. CASE i # 2
      <4>1. j \in DOMAIN stack'[r] /\ stack'[r][j] = stack[r][i]
        BY <1>10, <2>1, <3>2, <3>4
      <4>2. QED
        BY <2>1, <4>1
    <3>5. QED
      BY <3>3, <3>4
  <2>2. ASSUME NEW i \in DOMAIN stack[r], NEW a \in Pending(stack[r][i])
        PROVE  /\ phase[a] = "running" /\ a \notin killed' /\ stack[r][i].err # "agent" =>
                    \E j \in DOMAIN stack'[r] : a \in Pending(stack'[r][j]) /\ stack'[r][j].err # "agent"
               /\ NoErrorSoFar(r)' =>
                    \/ phase[a] = "done" /\ result[a] = "completed"
                    \/ \E j \in DOMAIN stack'[r] : a \in Pending(stack'[r][j])
    <3>1. CASE i = 1
      <4>1. a \in Pending(top)
        BY <1>2, <2>2, <3>1
      <4>2. QED
        BY <1>14, <1>15, <1>18, <4>1 DEF Running
    <3>2. CASE i # 1
      BY <2>1, <2>2, <3>2
    <3>3. QED
      BY <3>1, <3>2
  <2>3. QED
    BY <2>2 DEF StillDue
<1>20. 1 \in {-1, 0, 1}
  OBVIOUS
<1>21. QED
  BY <1>8, <1>11, <1>13, <1>15, <1>16, <1>17, <1>18, <1>19, <1>20, CallsMoved

LEMMA ExecuteReturnsStep ==
  ASSUME ExecInv, NEW r \in Runs, stack[r] # <<>>, Ended(Top(r)), Len(stack[r]) = 1,
         stack' = [stack EXCEPT ![r] = <<>>], stage' = [stage EXCEPT ![r] = "returned"],
         outcome' = [outcome EXCEPT ![r] = IF Top(r).err = "none" THEN "ok" ELSE "failed"],
         UNCHANGED <<agentVars, vars, toolVars>>
  PROVE  ExecInv'
<1>1. PICK top : top = Top(r)
  OBVIOUS
<1>2. /\ top = stack[r][1] /\ 1 \in DOMAIN stack[r] /\ stage[r] = "exec" /\ outcome[r] = "none"
      /\ RunInv(r) /\ TypeOK /\ ResultsKept /\ Ended(top)
  BY <1>1, TopFrame
<1>3. DOMAIN stack[r] = {1}
  <2>1. DOMAIN stack[r] = 1 .. 1
    BY <1>2, StackType
  <2>2. QED
    BY <2>1
<1>4. UNCHANGED <<phase, result, kept, wait, killed, owner, vars, saved, tools, locked, overlapped>>
  BY DEF agentVars, toolVars
<1>5. /\ stack \in [Runs -> Seq(Frames)] /\ outcome \in [Runs -> {"none", "ok", "failed"}]
      /\ stage \in [Runs -> {"idle", "got", "filtered", "exec", "returned", "unlocked", "over"}]
  BY <1>2 DEF TypeOK
<1>6. /\ stack'[r] = <<>> /\ stage'[r] = "returned"
      /\ outcome'[r] = IF top.err = "none" THEN "ok" ELSE "failed"
      /\ \A s \in Runs \ {r} : stack'[s] = stack[s] /\ stage'[s] = stage[s] /\ outcome'[s] = outcome[s]
  BY <1>1, <1>5
<1>7. TypeOK'
  <2>1. /\ stack' \in [Runs -> Seq(Frames)] /\ outcome' \in [Runs -> {"none", "ok", "failed"}]
        /\ stage' \in [Runs -> {"idle", "got", "filtered", "exec", "returned", "unlocked", "over"}]
    BY <1>5
  <2>2. QED
    BY <1>2, <1>4, <2>1 DEF TypeOK
<1>8. ResultsKept'
  BY <1>2, <1>4 DEF ResultsKept
<1>9. Running(Pending(top)) \subseteq killed /\ (top.err = "none" => Pending(top) = {})
  BY <1>1, EndedDue
<1>10. wait[r].st = "idle" /\ wait[r].val = "none"
  BY NotWaiting
<1>11. RunInv(r)'
  <2>1. stack'[r] = <<>> /\ DOMAIN stack'[r] = {}
    BY <1>6
  <2>2. StageExact(r)' /\ WaitsForDue(r)'
    BY <1>4, <1>6, <1>10 DEF StageExact, WaitsForDue
  <2>3. FramesExact(r)' /\ DueOnce(r)' /\ SpawnFailureKills(r)'
    BY <2>1 DEF FramesExact, DueOnce, SpawnFailureKills
  <2>4. VarsOf(r)'
    BY <1>2, <1>4 DEF RunInv, VarsOf
  <2>5. NoneLost(r)'
    <3> SUFFICES ASSUME NoErrorSoFar(r)', NEW a \in Own(r)
                 PROVE  phase[a] = "done" /\ result[a] = "completed"
      BY <1>4 DEF NoneLost, Own
    <3>1. top.err = "none"
      BY <1>6 DEF NoErrorSoFar
    <3>2. NoErrorSoFar(r)
      BY <1>2, <1>3, <3>1 DEF NoErrorSoFar
    <3>3. QED
      BY <1>2, <1>3, <1>9, <3>1, <3>2 DEF RunInv, NoneLost
  <2>6. AccountedOf(r)'
    <3> SUFFICES ASSUME NEW a \in Running(Own(r)) \ killed PROVE FALSE
      BY <1>4 DEF AccountedOf, Running, Own
    <3>1. a \in Pending(top)
      BY <1>2, <1>3 DEF RunInv, AccountedOf
    <3>2. QED
      BY <1>9, <3>1 DEF Running
  <2>7. QED
    BY <2>2, <2>3, <2>4, <2>5, <2>6 DEF RunInv
<1>12. ASSUME NEW s \in Runs \ {r} PROVE RunInv(s)'
  BY <1>4, <1>6, OtherRun
<1>13. QED
  BY <1>7, <1>8, <1>11, <1>12, AllRuns

-----------------------------------------------------------------------------
(* Every step keeps the invariant.                                         *)

LEMMA spawnStepStep ==
  ASSUME ExecInv, NEW r \in Runs, spawnStep(r)
  PROVE  ExecInv'
<1>1. PICK f : f = Top(r)
  OBVIOUS
<1>2. stack[r] # <<>> /\ ToSpawn(f) /\ UNCHANGED <<stage, vars, outcome, toolVars>>
  BY <1>1 DEF spawnStep
<1>3. f \in Frames
  BY <1>1, <1>2, TopFrame
<1>4. CASE UNCHANGED killed /\ \E a \in Agents :
             /\ Service!Spawn(a) /\ owner' = [owner EXCEPT ![a] = r]
             /\ SetTop(r, [f EXCEPT !.ids = Append(@, a)])
  <2>1. PICK a \in Agents : /\ Service!Spawn(a) /\ owner' = [owner EXCEPT ![a] = r]
                            /\ SetTop(r, [f EXCEPT !.ids = Append(@, a)])
    BY <1>4
  <2>2. PICK g : g = [f EXCEPT !.ids = Append(@, a)]
    OBVIOUS
  <2>3. SetTop(r, g)
    BY <2>1, <2>2
  <2>4. Spawned(f, g, a)
    BY <1>3, <2>2 DEF Spawned, Frames
  <2>5. QED
    BY <1>1, <1>2, <1>4, <2>1, <2>3, <2>4, SpawnedStep
<1>5. CASE /\ killed' = killed \cup Running(KilledBySpawn(f))
           /\ SetTop(r, [f EXCEPT !.err = "spawn"])
           /\ UNCHANGED <<phase, result, kept, wait, owner>>
  <2>1. PICK g : g = [f EXCEPT !.err = "spawn"]
    OBVIOUS
  <2>2. SetTop(r, g)
    BY <1>5, <2>1
  <2>3. QED
    BY <1>1, <1>2, <1>5, <2>1, <2>2, SpawnFailsStep
<1>6. QED
  BY <1>1, <1>4, <1>5 DEF spawnStep

LEMMA ExecNext == ExecInv /\ [Next]_allVars => ExecInv'
<1> SUFFICES ASSUME ExecInv, [Next]_allVars PROVE ExecInv'
  OBVIOUS
<1>1. ASSUME NEW r \in Runs, GetTools(r) \/ FilterTools(r) \/ Unlock(r) \/ RestoreTools(r)
      PROVE  ExecInv'
  BY <1>1, GoroutineStep
<1>2. ASSUME NEW r \in Runs, Execute(r) PROVE ExecInv'
  BY <1>2, ExecuteStep
<1>3. ASSUME NEW r \in Runs, spawnStep(r) PROVE ExecInv'
  BY <1>3, spawnStepStep
<1>4. ASSUME NEW r \in Runs, Wait(r) PROVE ExecInv'
  BY <1>4, WaitStep
<1>5. ASSUME NEW r \in Runs, StepOver(r) PROVE ExecInv'
  BY <1>5, StepCompletedStep, StepFailedStep DEF StepOver
<1>6. ASSUME NEW r \in Runs, NextPhase(r) PROVE ExecInv'
  BY <1>6, NextPhaseStep
<1>7. ASSUME NEW r \in Runs, PlanReturns(r) PROVE ExecInv'
  BY <1>7, SubPlanReturns, ExecuteReturnsStep DEF PlanReturns
<1>8. ASSUME NEW r \in Runs, Answer(r) PROVE ExecInv'
  BY <1>8, AnswerStep
<1>9. ASSUME NEW a \in Agents, AgentEnds(a) PROVE ExecInv'
  BY <1>9, AgentEndsStep
<1>10. ASSUME NEW a \in Agents, StopAgent(a) PROVE ExecInv'
  BY <1>10, StopAgentStep
<1>11. CASE StartTurn \/ CheckLock \/ ToolSpawn \/ EndTurn \/ UNCHANGED allVars
  BY <1>11, EngineStep
<1>12. QED
  BY <1>1, <1>2, <1>3, <1>4, <1>5, <1>6, <1>7, <1>8, <1>9, <1>10, <1>11 DEF Next

-----------------------------------------------------------------------------
(* The theorems.                                                           *)

(* All the parts of the invariant hold in every reachable state.           *)
THEOREM ExecutorCorrect == Spec => []ExecInv
BY ExecInit, ExecNext, PTL DEF Spec

(* The plan of any document, however long: every step of it stands on an   *)
(* item, once and in order, below the step it belongs to, in a phase with  *)
(* its neighbours of the same kind; and a document without surprises is    *)
(* read as its layout says (parser.go: childEnd, parseStepNodes,           *)
(* allChildrenAreProperties, buildExecutionPlan).                          *)
THEOREM ParserCorrect ==
  \A lines \in Seq(Lines) : PlanFaithful(lines)
BY StepsFaithful

(* So for the documents the executor's playbooks are read from.            *)
THEOREM ParsedFaithfully == Spec => []ParserFaithful
<1>1. ParserFaithful
  BY ParserCorrect, DocumentsAssumption DEF ParserFaithful
<1>2. QED
  BY <1>1, PTL

(* What the executor takes for granted of a plan, the parser ensures: it   *)
(* has a phase, every phase has a step, and what is below a step is again  *)
(* a plan or nothing (executor.go: Execute, executePlan).                  *)
THEOREM PlansWellFormed ==
  /\ \A r \in Runs : PlansOf[r] \subseteq Plans
  /\ \A plan \in Plans :
       /\ Len(plan) \in Nat \ {0}
       /\ \A ph \in 1 .. Len(plan) :
            /\ plan[ph].parallel \in BOOLEAN /\ Len(plan[ph].steps) \in Nat \ {0}
            /\ \A s \in 1 .. Len(plan[ph].steps) :
                 plan[ph].steps[s].sub \in Plans \cup {<<>>}
BY PlansOfAre, PlanIs

(* Every Wait of the executor is answered with the agent's own result, and *)
(* a playbook variable holds the result of an agent of the same run that   *)
(* completed, whatever other runs, kills and failures happen (executor.go: *)
(* 107, 124, 150, 188).                                                    *)
THEOREM VariablesSound == Spec => []VarsFromCompleted
<1>1. ExecInv => VarsFromCompleted
  BY DEF ExecInv
<1>2. QED
  BY <1>1, ExecutorCorrect, PTL

(* An agent of a playbook that runs and was not killed is still to be      *)
(* waited for by an executePlan call under way; none is left behind when a *)
(* phase, a sub-plan or Execute ends (executor.go:118-123).                *)
THEOREM NoAgentLeftBehind == Spec => []AgentsAccounted
<1>1. ExecInv => AgentsAccounted
  BY DEF ExecInv
<1>2. QED
  BY <1>1, ExecutorCorrect, PTL

(* Execute reports success only when all agents the playbook ever started  *)
(* have ended and completed.                                               *)
THEOREM SuccessSound == Spec => []SuccessMeansCompleted
<1>1. ExecInv => SuccessMeansCompleted
  <2> SUFFICES ASSUME ExecInv, NEW r \in Runs, outcome[r] = "ok", NEW a \in Own(r)
               PROVE  phase[a] = "done" /\ result[a] = "completed"
    BY DEF SuccessMeansCompleted
  <2>1. StageExact(r) /\ NoneLost(r)
    BY DEF ExecInv
  <2>2. stack[r] = <<>>
    BY <2>1 DEF StageExact
  <2>3. QED
    BY <2>1, <2>2 DEF NoneLost, NoErrorSoFar
<1>2. QED
  BY <1>1, ExecutorCorrect, PTL

(* As long as playbooks do not overlap, agent creation is locked exactly   *)
(* while one executes, the engine has no agent tool meanwhile and all its  *)
(* tools afterwards, whatever the outcome (main.go, the goroutine of       *)
(* "/playbook").                                                           *)
THEOREM LockCorrect == Spec => []LockExact
<1>1. ExecInv /\ LockByStage /\ [Next]_allVars => LockByStage'
  BY LockNext DEF ExecInv
<1>2. ExecInv /\ LockByStage => LockExact
  <2> SUFFICES ASSUME TypeOK, LockByStage, ~overlapped
               PROVE  /\ locked = (\E r \in Runs : stage[r] \in {"exec", "returned"})
                      /\ (\E r \in Runs : Active(r) /\ stage[r] # "got") => "agent" \notin tools
                      /\ (\A r \in Runs : ~Active(r)) => tools = Full
    BY DEF ExecInv, LockExact
  <2>1. locked \in BOOLEAN
    BY DEF TypeOK
  <2>2. \A r \in Runs : stage[r] \in {"exec", "returned"} => Active(r)
    BY DEF Active
  <2>3. CASE \A r \in Runs : ~Active(r)
    BY <2>1, <2>2, <2>3 DEF LockByStage
  <2>4. CASE \E r \in Runs : Active(r)
    <3>1. PICK r \in Runs : Active(r)
      BY <2>4
    <3>2. /\ \A s \in Runs : Active(s) => s = r
          /\ tools = IF stage[r] = "got" THEN Full ELSE Full \ {"agent"}
          /\ locked <=> stage[r] \in {"exec", "returned"}
      BY <3>1 DEF LockByStage
    <3>3. QED
      BY <2>1, <2>2, <3>1, <3>2
  <2>5. QED
    BY <2>3, <2>4
<1>3. QED
  BY <1>1, <1>2, LockInit, ExecutorCorrect, PTL DEF Spec

=============================================================================
