---------------------------- MODULE CompactionProofs ----------------------------
(***************************************************************************)
(* Theorems about Compaction, for every value of its constants: results    *)
(* keep their calls and recent results their content, whatever is cut,     *)
(* cleared, repaired and merged; session-memory compaction keeps the       *)
(* shortest tail; the log of an execution tells everything.                *)
(***************************************************************************)
EXTENDS Compaction, FiniteSetTheorems, WellFoundedInduction, TLAPS

(* A history of calls up to n.  Calls are made in the order of their       *)
(* numbers.                                                                *)
MessageFormed(m, n) ==
  /\ m.cleared \subseteq m.results
  /\ m.calls \subseteq 1 .. n
  /\ m.mark = "boundary" => m.role = "system"
  /\ m.calls # {} => m.role = "assistant"
  /\ m.results # {} => m.role = "user"
  /\ m.role = "user" /\ ~m.text => m.results # {}
Formed(s, n) == \A i \in 1 .. Len(s) : MessageFormed(s[i], n)
InOrder(s) ==
  \A i, j \in 1 .. Len(s) : i < j => \A c \in s[i].calls, d \in s[j].calls : c < d

(* Between a message with calls and its results stand only notices,        *)
(* memories and other messages without either.                             *)
Quiet(s, j, i)   == \A k \in 1 .. Len(s) : j < k /\ k < i => s[k].calls = {} /\ s[k].results = {}
Answers(s, i, j) == s[i].results \subseteq s[j].calls /\ Quiet(s, j, i)

(* Every result from place a on answers calls at place b or later.         *)
Answered(s, i, b)  == \E j \in 1 .. Len(s) : b <= j /\ j < i /\ Answers(s, i, j)
PairedFrom(s, a, b) == \A i \in 1 .. Len(s) : a <= i /\ s[i].results # {} => Answered(s, i, b)
Paired(s)          == PairedFrom(s, 1, 1)
Sound(s, n)        == Formed(s, n) /\ Paired(s) /\ InOrder(s)

(* Calls C, at place b or later, have no results yet.                      *)
Waiting(s, b, C) == \E j \in 1 .. Len(s) : b <= j /\ C \subseteq s[j].calls /\ Quiet(s, j, Len(s) + 1)

(* A record that begins at b may begin with results, but has the calls of  *)
(* all others.                                                             *)
RangePaired(s, b) == b \in 0 .. Len(s) /\ PairedFrom(s, b + 1, b)

(* RecentResultsKept, of one history, with the calls of listed tools el.   *)
CallsIn(s) == UNION {s[i].calls : i \in 1 .. Len(s)}
Recent(s, el) ==
  \A i \in 1 .. Len(s) : \A c \in s[i].cleared \cap el :
    Cardinality({d \in CallsIn(s) \cap el : d > c}) >= KeepRecent

(* A query that runs has not failed yet; when its tools run, their calls   *)
(* end its own history and wait in that of the engine.                     *)
QueryRuns ==
  /\ phase # "idle" => tracking = 0
  /\ phase = "tools" =>
       /\ msgs # <<>> /\ Last(msgs).calls # {}
       /\ Waiting(messages, start, Last(msgs).calls)

CompactionInv ==
  /\ TypeOK /\ QueryRuns
  /\ Sound(messages, made) /\ Sound(msgs, made)
  /\ Recent(messages, eligible) /\ Recent(msgs, eligible)
  /\ RangePaired(messages, start)

-----------------------------------------------------------------------------
(* Induction over the natural numbers up to n, as a fact about sets.       *)

LEMMA Least ==
  ASSUME NEW T, T \subseteq Nat, T # {}
  PROVE  \E x \in T : \A y \in T : x <= y
<1> DEFINE R == {ss \in Nat \X Nat : ss[1] < ss[2]}
<1>1. IsWellFoundedOn(R, Nat)
  BY NatLessThanWellFounded DEF OpToRel
<1>2. PICK x \in T : \A y \in T : ~ (<<y, x>> \in R)
  BY <1>1, WFMin
<1>3. ASSUME NEW y \in T PROVE x <= y
  <2>1. ~ (<<y, x>> \in R)
    BY <1>2
  <2> QED BY <2>1
<1> QED BY <1>3

LEMMA Induct ==
  ASSUME NEW n \in Nat, NEW T, 0 \in T, \A i \in 1 .. n : i - 1 \in T => i \in T
  PROVE  \A i \in 0 .. n : i \in T
<1> DEFINE Bad == {i \in 0 .. n : i \notin T}
<1>1. Bad \subseteq Nat
  OBVIOUS
<1>2. SUFFICES ASSUME Bad # {} PROVE FALSE
  OBVIOUS
<1>3. PICK i \in Bad : \A j \in Bad : i <= j
  <2> HIDE DEF Bad
  <2> QED BY <1>1, <1>2, Least
<1>4. i \in 1 .. n /\ i - 1 \in 0 .. n /\ i \notin T
  BY <1>3
<1>5. i - 1 \notin Bad
  BY <1>1, <1>3, <1>4
<1> QED BY <1>4, <1>5

(* A function defined by recursion over 0 .. n exists.                     *)
Recurs(f, n, b, G) == f[0] = b /\ \A i \in 1 .. n : f[i] = G[<<f[i - 1], i>>]

LEMMA Recursion ==
  ASSUME NEW S, NEW b \in S, NEW n \in Nat, NEW G \in [S \X (1 .. n) -> S]
  PROVE  \E f \in [0 .. n -> S] : Recurs(f, n, b, G)
<1> DEFINE T == {m \in 0 .. n : \E f \in [0 .. m -> S] : Recurs(f, m, b, G)}
<1>1. 0 \in T
  <2>1. 0 \in 0 .. n
    OBVIOUS
  <2>2. PICK f : f = [i \in 0 .. 0 |-> b]
    OBVIOUS
  <2>3. f \in [0 .. 0 -> S] /\ Recurs(f, 0, b, G)
    BY <2>2 DEF Recurs
  <2> QED BY <2>1, <2>3, Zenon
<1>2. ASSUME NEW m \in 1 .. n, m - 1 \in T
      PROVE  m \in T
  <2>1. PICK f \in [0 .. m - 1 -> S] : Recurs(f, m - 1, b, G)
    BY <1>2
  <2> DEFINE g == [i \in 0 .. m |-> IF i = m THEN G[<<f[m - 1], m>>] ELSE f[i]]
  <2>2. m - 1 \in 0 .. m - 1 /\ f[m - 1] \in S
    OBVIOUS
  <2>3. <<f[m - 1], m>> \in S \X (1 .. n)
    BY <2>2
  <2>4. g \in [0 .. m -> S]
    <3>1. ASSUME NEW i \in 0 .. m
          PROVE  (IF i = m THEN G[<<f[m - 1], m>>] ELSE f[i]) \in S
      <4>1. CASE i = m
        BY <2>3, <4>1
      <4>2. CASE i # m
        BY <4>2
      <4> QED BY <4>1, <4>2
    <3> QED BY <3>1
  <2>5. g[0] = b
    BY <2>1 DEF Recurs
  <2>6. ASSUME NEW i \in 1 .. m
        PROVE  g[i] = G[<<g[i - 1], i>>]
    <3>1. CASE i = m
      <4>1. g[m] = G[<<f[m - 1], m>>]
        OBVIOUS
      <4>2. g[m - 1] = f[m - 1]
        OBVIOUS
      <4> QED BY <3>1, <4>1, <4>2
    <3>2. CASE i # m
      <4>1. i \in 1 .. m - 1 /\ i - 1 \in 0 .. m - 1
        BY <3>2
      <4>2. g[i] = f[i] /\ g[i - 1] = f[i - 1]
        BY <4>1
      <4> QED BY <2>1, <4>1, <4>2 DEF Recurs
    <3> QED BY <3>1, <3>2
  <2> HIDE DEF g
  <2>7. Recurs(g, m, b, G)
    BY <2>5, <2>6 DEF Recurs
  <2> QED BY <2>4, <2>7
<1> HIDE DEF T
<1>3. n \in T
  BY <1>1, <1>2, Induct
<1> QED BY <1>3 DEF T

-----------------------------------------------------------------------------
(* What Kept computes: pos says where the members it keeps come from.      *)

KeptBy(f, s, keep) ==
  f = [i \in 0 .. Len(s) |->
         IF i = 0 THEN <<>>
         ELSE IF s[i] \in keep THEN Append(f[i - 1], s[i]) ELSE f[i - 1]]

LEMMA KeptExists ==
  ASSUME NEW K, NEW s \in Seq(K), NEW keep
  PROVE  \E f : KeptBy(f, s, keep)
<1> DEFINE G == [p \in Seq(K) \X (1 .. Len(s)) |->
                   IF s[p[2]] \in keep THEN Append(p[1], s[p[2]]) ELSE p[1]]
<1>1. G \in [Seq(K) \X (1 .. Len(s)) -> Seq(K)]
  OBVIOUS
<1>2. PICK f \in [0 .. Len(s) -> Seq(K)] :
        f[0] = <<>> /\ \A i \in 1 .. Len(s) : f[i] = G[<<f[i - 1], i>>]
  <2>1. PICK SK, n, b : SK = Seq(K) /\ n = Len(s) /\ b = <<>>
    OBVIOUS
  <2>2. b \in SK /\ n \in Nat /\ G \in [SK \X (1 .. n) -> SK]
    BY <1>1, <2>1
  <2> HIDE DEF G
  <2>3. \E f \in [0 .. n -> SK] : Recurs(f, n, b, G)
    BY <2>2, Recursion
  <2> QED BY <2>1, <2>3 DEF Recurs
<1>3. ASSUME NEW i \in 1 .. Len(s)
      PROVE  f[i] = IF s[i] \in keep THEN Append(f[i - 1], s[i]) ELSE f[i - 1]
  <2>1. i - 1 \in 0 .. Len(s) /\ f[i - 1] \in Seq(K)
    OBVIOUS
  <2> QED BY <1>2, <2>1
<1>4. f = [i \in 0 .. Len(s) |->
             IF i = 0 THEN <<>>
             ELSE IF s[i] \in keep THEN Append(f[i - 1], s[i]) ELSE f[i - 1]]
  <2>1. ASSUME NEW i \in 0 .. Len(s)
        PROVE  f[i] = IF i = 0 THEN <<>>
                      ELSE IF s[i] \in keep THEN Append(f[i - 1], s[i]) ELSE f[i - 1]
    <3>1. CASE i = 0
      BY <1>2, <3>1
    <3>2. CASE i \in 1 .. Len(s)
      <4>1. i # 0
        BY <3>2
      <4> QED BY <1>3, <3>2, <4>1, Zenon
    <3> QED BY <3>1, <3>2
  <2>2. f = [i \in 0 .. Len(s) |-> f[i]]
    OBVIOUS
  <2> QED BY <2>1, <2>2
<1> QED BY <1>4 DEF KeptBy

LEMMA KeptSteps ==
  ASSUME NEW K, NEW s \in Seq(K), NEW keep
  PROVE  \E f : /\ f[0] = <<>> /\ Kept(s, keep) = f[Len(s)]
                /\ \A i \in 1 .. Len(s) :
                     f[i] = IF s[i] \in keep THEN Append(f[i - 1], s[i]) ELSE f[i - 1]
<1> DEFINE g == CHOOSE g : KeptBy(g, s, keep)
<1>1. KeptBy(g, s, keep)
  BY KeptExists
<1>2. Kept(s, keep) = g[Len(s)]
  BY DEF Kept, KeptBy
<1> HIDE DEF g
<1>3. \A i \in 0 .. Len(s) :
        g[i] = IF i = 0 THEN <<>>
               ELSE IF s[i] \in keep THEN Append(g[i - 1], s[i]) ELSE g[i - 1]
  BY <1>1 DEF KeptBy
<1>4. g[0] = <<>> /\ \A i \in 1 .. Len(s) :
                       g[i] = IF s[i] \in keep THEN Append(g[i - 1], s[i]) ELSE g[i - 1]
  BY <1>3
<1> QED BY <1>2, <1>4

Places(t, pos, s, n, keep) ==
  /\ \A k \in 1 .. Len(t) : pos[k] \in 1 .. n /\ s[pos[k]] \in keep /\ t[k] = s[pos[k]]
  /\ \A k, l \in 1 .. Len(t) : k < l => pos[k] < pos[l]
  /\ \A i \in 1 .. n : s[i] \in keep => \E k \in 1 .. Len(t) : pos[k] = i

LEMMA PlacesStep ==
  ASSUME NEW K, NEW s \in Seq(K), NEW keep, NEW i \in 1 .. Len(s), NEW t \in Seq(K), NEW pos,
         Places(t, pos, s, i - 1, keep),
         NEW u, u = IF s[i] \in keep THEN Append(t, s[i]) ELSE t
  PROVE  u \in Seq(K) /\ \E p : Places(u, p, s, i, keep)
<1>1. i \in Nat /\ i - 1 \in Nat /\ s[i] \in K
  OBVIOUS
<1>2. CASE s[i] \notin keep
  <2>1. \A j \in 1 .. i : j \in 1 .. i - 1 \/ j = i
    BY <1>1
  <2>2. \A j \in 1 .. i - 1 : j \in 1 .. i
    BY <1>1
  <2>3. Places(t, pos, s, i, keep)
    BY <1>2, <2>1, <2>2 DEF Places
  <2> QED BY <1>2, <2>3
<1>3. CASE s[i] \in keep
  <2>1. PICK m \in Nat : m = Len(t)
    OBVIOUS
  <2>2. u = Append(t, s[i])
    BY <1>3
  <2>3. u \in Seq(K) /\ Len(u) = m + 1 /\ u[m + 1] = s[i] /\ \A k \in 1 .. m : u[k] = t[k]
    BY <1>1, <2>1, <2>2
  <2>4. PICK p : p = [k \in 1 .. m + 1 |-> IF k = m + 1 THEN i ELSE pos[k]]
    OBVIOUS
  <2>5. p[m + 1] = i /\ \A k \in 1 .. m : p[k] = pos[k]
    BY <2>4
  <2>6. \A k \in 1 .. m : pos[k] \in 1 .. i - 1 /\ s[pos[k]] \in keep /\ t[k] = s[pos[k]]
    BY <2>1 DEF Places
  <2>7. ASSUME NEW k \in 1 .. m + 1
        PROVE  p[k] \in 1 .. i /\ s[p[k]] \in keep /\ u[k] = s[p[k]]
    <3>1. CASE k = m + 1
      BY <1>1, <1>3, <2>3, <2>5, <3>1
    <3>2. CASE k \in 1 .. m
      <4>1. p[k] = pos[k] /\ u[k] = t[k] /\ pos[k] \in 1 .. i - 1 /\ s[pos[k]] \in keep
              /\ t[k] = s[pos[k]]
        BY <2>3, <2>5, <2>6, <3>2
      <4>2. pos[k] \in 1 .. i
        BY <1>1, <4>1
      <4> QED BY <4>1, <4>2
    <3> QED BY <2>1, <3>1, <3>2
  <2>8. ASSUME NEW k \in 1 .. m + 1, NEW l \in 1 .. m + 1, k < l
        PROVE  p[k] < p[l]
    <3>1. k \in 1 .. m /\ p[k] = pos[k] /\ pos[k] \in 1 .. i - 1
      BY <2>1, <2>5, <2>6, <2>8
    <3>2. CASE l = m + 1
      BY <1>1, <2>5, <3>1, <3>2
    <3>3. CASE l \in 1 .. m
      <4>1. pos[k] < pos[l]
        BY <2>1, <2>8, <3>1, <3>3 DEF Places
      <4> QED BY <2>5, <3>1, <3>3, <4>1
    <3> QED BY <2>1, <3>2, <3>3
  <2>9. ASSUME NEW j \in 1 .. i, s[j] \in keep
        PROVE  \E k \in 1 .. m + 1 : p[k] = j
    <3>1. CASE j = i
      BY <2>1, <2>5, <3>1
    <3>2. CASE j \in 1 .. i - 1
      <4>1. PICK k \in 1 .. m : pos[k] = j
        BY <2>1, <2>9, <3>2 DEF Places
      <4>2. k \in 1 .. m + 1 /\ p[k] = j
        BY <2>1, <2>5, <4>1
      <4> QED BY <4>2
    <3> QED BY <1>1, <3>1, <3>2
  <2>10. Places(u, p, s, i, keep)
    BY <2>3, <2>7, <2>8, <2>9 DEF Places
  <2> QED BY <2>3, <2>10
<1> QED BY <1>2, <1>3

LEMMA KeptPlaces ==
  ASSUME NEW K, NEW s \in Seq(K), NEW keep
  PROVE  Kept(s, keep) \in Seq(K) /\ \E pos : Places(Kept(s, keep), pos, s, Len(s), keep)
<1>1. PICK f : /\ f[0] = <<>> /\ Kept(s, keep) = f[Len(s)]
               /\ \A i \in 1 .. Len(s) :
                    f[i] = IF s[i] \in keep THEN Append(f[i - 1], s[i]) ELSE f[i - 1]
  BY KeptSteps
<1>2. PICK n \in Nat : n = Len(s)
  OBVIOUS
<1> DEFINE T == {i \in 0 .. n : f[i] \in Seq(K) /\ \E pos : Places(f[i], pos, s, i, keep)}
<1>3. 0 \in T
  <2>1. f[0] \in Seq(K) /\ Len(f[0]) = 0
    BY <1>1
  <2>2. Places(f[0], <<>>, s, 0, keep)
    BY <2>1 DEF Places
  <2>3. 0 \in 0 .. n
    OBVIOUS
  <2> QED BY <2>1, <2>2, <2>3, Zenon
<1>4. ASSUME NEW i \in 1 .. n, i - 1 \in T
      PROVE  i \in T
  <2>1. f[i - 1] \in Seq(K) /\ i \in 1 .. Len(s)
    BY <1>2, <1>4
  <2>2. PICK pos : Places(f[i - 1], pos, s, i - 1, keep)
    BY <1>4
  <2>3. f[i] = IF s[i] \in keep THEN Append(f[i - 1], s[i]) ELSE f[i - 1]
    BY <1>1, <2>1, Zenon
  <2>4. f[i] \in Seq(K) /\ \E p : Places(f[i], p, s, i, keep)
    <3>1. PICK t, u : t = f[i - 1] /\ u = f[i]
      OBVIOUS
    <3>2. t \in Seq(K) /\ Places(t, pos, s, i - 1, keep)
          /\ u = IF s[i] \in keep THEN Append(t, s[i]) ELSE t
      BY <2>1, <2>2, <2>3, <3>1
    <3>3. u \in Seq(K) /\ \E p : Places(u, p, s, i, keep)
      BY <2>1, <3>2, PlacesStep
    <3> QED BY <3>1, <3>3
  <2>5. i \in 0 .. n
    OBVIOUS
  <2> QED BY <2>4, <2>5, Zenon
<1> HIDE DEF T
<1>5. n \in T
  <2>1. \A i \in 1 .. n : i - 1 \in T => i \in T
    BY <1>4
  <2>2. n \in 0 .. n
    OBVIOUS
  <2> QED BY <1>3, <2>1, <2>2, Induct
<1> QED BY <1>1, <1>2, <1>5 DEF T

-----------------------------------------------------------------------------
(* Greatest and least members, and sets of calls.                          *)

LEMMA MinIs ==
  ASSUME NEW S, S \subseteq Nat, S # {}
  PROVE  Min(S) \in S /\ \A y \in S : Min(S) <= y
<1>1. \E x \in S : \A y \in S : x =< y
  BY Least
<1> QED BY <1>1 DEF Min

LEMMA MaxIs ==
  ASSUME NEW n \in Nat, NEW S, S \subseteq 0 .. n, S # {}
  PROVE  Max(S) \in S /\ \A y \in S : y <= Max(S)
<1> DEFINE T == {n - x : x \in S}
<1>1. T \subseteq Nat /\ T # {}
  <2>1. ASSUME NEW x \in S PROVE n - x \in Nat
    <3>1. x \in 0 .. n
      OBVIOUS
    <3> QED BY <3>1
  <2> QED BY <2>1
<1>2. PICK z \in T : \A y \in T : z <= y
  <2> HIDE DEF T
  <2> QED BY <1>1, Least
<1>3. PICK x \in S : z = n - x
  BY <1>2
<1>4. \A y \in S : x >= y
  BY <1>2, <1>3
<1>5. \E w \in S : \A y \in S : w >= y
  BY <1>4
<1> HIDE DEF T
<1> QED BY <1>5 DEF Max

LEMMA FiniteCalls ==
  ASSUME NEW S, S \subseteq Calls
  PROVE  IsFiniteSet(S) /\ Cardinality(S) \in Nat
<1>1. IsFiniteSet(Calls)
  BY FS_Interval, CompactionAssumption DEF Calls
<1> QED BY <1>1, FS_Subset, FS_CardinalityType

LEMMA MoreCalls ==
  ASSUME NEW S, NEW T, S \subseteq T, T \subseteq Calls
  PROVE  Cardinality(S) <= Cardinality(T)
BY FiniteCalls, FS_Subset

-----------------------------------------------------------------------------
(* Token counts.                                                           *)

LEMMA RoughNat ==
  ASSUME NEW m \in Messages
  PROVE  RoughTokenCount(m) \in Nat
<1>1. m.calls \subseteq Calls /\ m.results \ m.cleared \subseteq Calls
  BY DEF Messages
<1>2. Cardinality(m.calls) \in Nat /\ Cardinality(m.results \ m.cleared) \in Nat
  BY <1>1, FiniteCalls
<1>3. ResultSize * Cardinality(m.results \ m.cleared) \in Nat
  BY <1>2, CompactionAssumption
<1> QED BY <1>2, <1>3 DEF RoughTokenCount

TotalBy(f, s) ==
  f = [i \in 0 .. Len(s) |-> IF i = 0 THEN 0 ELSE f[i - 1] + RoughTokenCount(s[i])]

LEMMA TotalExists ==
  ASSUME NEW s \in Seq(Messages)
  PROVE  \E f : TotalBy(f, s)
<1> DEFINE G == [p \in Nat \X (1 .. Len(s)) |-> p[1] + RoughTokenCount(s[p[2]])]
<1>1. G \in [Nat \X (1 .. Len(s)) -> Nat]
  BY RoughNat
<1>2. PICK f \in [0 .. Len(s) -> Nat] :
        f[0] = 0 /\ \A i \in 1 .. Len(s) : f[i] = G[<<f[i - 1], i>>]
  <2>1. PICK n \in Nat : n = Len(s)
    OBVIOUS
  <2>2. 0 \in Nat /\ G \in [Nat \X (1 .. n) -> Nat]
    BY <1>1, <2>1
  <2> HIDE DEF G
  <2>3. \E f \in [0 .. n -> Nat] : Recurs(f, n, 0, G)
    BY <2>2, Recursion
  <2> QED BY <2>1, <2>3 DEF Recurs
<1>3. ASSUME NEW i \in 1 .. Len(s)
      PROVE  f[i] = f[i - 1] + RoughTokenCount(s[i])
  <2>1. i - 1 \in 0 .. Len(s) /\ f[i - 1] \in Nat
    OBVIOUS
  <2> QED BY <1>2, <2>1
<1>4. f = [i \in 0 .. Len(s) |-> IF i = 0 THEN 0 ELSE f[i - 1] + RoughTokenCount(s[i])]
  <2>1. ASSUME NEW i \in 0 .. Len(s)
        PROVE  f[i] = IF i = 0 THEN 0 ELSE f[i - 1] + RoughTokenCount(s[i])
    <3>1. CASE i = 0
      BY <1>2, <3>1
    <3>2. CASE i \in 1 .. Len(s)
      <4>1. i # 0
        BY <3>2
      <4> QED BY <1>3, <3>2, <4>1, Zenon
    <3> QED BY <3>1, <3>2
  <2>2. f = [i \in 0 .. Len(s) |-> f[i]]
    OBVIOUS
  <2> QED BY <2>1, <2>2
<1> QED BY <1>4 DEF TotalBy

LEMMA EstimateSums ==
  ASSUME NEW s \in Seq(Messages)
  PROVE  \E f : /\ f[0] = 0 /\ EstimateMessageTokens(s) = f[Len(s)]
                /\ \A i \in 0 .. Len(s) : f[i] \in Nat
                /\ \A i \in 1 .. Len(s) : f[i] = f[i - 1] + RoughTokenCount(s[i])
<1> DEFINE g == CHOOSE g : TotalBy(g, s)
<1>1. TotalBy(g, s)
  BY TotalExists
<1>2. EstimateMessageTokens(s) = g[Len(s)]
  BY DEF EstimateMessageTokens, TotalBy
<1> HIDE DEF g
<1>3. \A i \in 0 .. Len(s) : g[i] = IF i = 0 THEN 0 ELSE g[i - 1] + RoughTokenCount(s[i])
  BY <1>1 DEF TotalBy
<1>4. g[0] = 0 /\ \A i \in 1 .. Len(s) : g[i] = g[i - 1] + RoughTokenCount(s[i])
  BY <1>3
<1>5. PICK n \in Nat : n = Len(s)
  OBVIOUS
<1> DEFINE T == {i \in 0 .. n : g[i] \in Nat}
<1>6. 0 \in T
  BY <1>4
<1>7. ASSUME NEW i \in 1 .. n, i - 1 \in T
      PROVE  i \in T
  <2>1. s[i] \in Messages /\ g[i - 1] \in Nat /\ g[i] = g[i - 1] + RoughTokenCount(s[i])
    BY <1>4, <1>5, <1>7
  <2> QED BY <2>1, RoughNat
<1>8. \A i \in 0 .. n : i \in T
  <2> HIDE DEF T
  <2>1. \A i \in 1 .. n : i - 1 \in T => i \in T
    BY <1>7
  <2> QED BY <1>6, <2>1, Induct
<1> QED BY <1>2, <1>4, <1>5, <1>8

LEMMA EstimateNat ==
  ASSUME NEW s \in Seq(Messages)
  PROVE  EstimateMessageTokens(s) \in Nat
<1>1. Len(s) \in 0 .. Len(s)
  OBVIOUS
<1> QED BY <1>1, EstimateSums

(* What the code's slice s[k-1:] holds: the messages of s from place k on.    *)
LEMMA SuffixIs ==
  ASSUME NEW s \in Seq(Messages), NEW k \in Nat \ {0}, NEW h \in Nat, h = Len(s) - k + 1
  PROVE  /\ Suffix(s, k) \in Seq(Messages) /\ Len(Suffix(s, k)) = h
         /\ \A j \in 1 .. h : Suffix(s, k)[j] = s[j + k - 1]
<1>1. PICK l \in Nat : l = Len(s)
  OBVIOUS
<1>2. k \in Nat /\ k >= 1 /\ h = l - k + 1
  BY <1>1
<1>3. PICK r : r = SubSeq(s, k, l)
  OBVIOUS
<1>4. Suffix(s, k) = r
  BY <1>1, <1>3 DEF Suffix
<1>5. \A j \in k .. l : j \in 1 .. Len(s) /\ s[j] \in Messages
  BY <1>1, <1>2
<1>6. r \in Seq(Messages)
  BY <1>2, <1>3, <1>5
<1>7. Len(r) = h
  BY <1>2, <1>3, <1>5
<1>8. ASSUME NEW j \in 1 .. h
      PROVE  r[j] = s[j + k - 1]
  <2>1. j + k - 1 = k + j - 1 /\ j \in 1 .. l - k + 1
    BY <1>2
  <2> QED BY <1>2, <1>3, <1>5, <2>1
<1> QED BY <1>4, <1>6, <1>7, <1>8

(* A tail that is longer by one message counts no less.                    *)
LEMMA EstimateGrows ==
  ASSUME NEW s \in Seq(Messages), NEW i \in 2 .. Len(s)
  PROVE  EstimateMessageTokens(Suffix(s, i)) <= EstimateMessageTokens(Suffix(s, i - 1))
<1>1. PICK n \in Nat : n = Len(s) - i + 1
  <2>1. Len(s) \in Nat /\ Len(s) - i + 1 \in Nat
    OBVIOUS
  <2> QED BY <2>1
<1>2. PICK t, u : t = Suffix(s, i - 1) /\ u = Suffix(s, i)
  OBVIOUS
<1>3. /\ t \in Seq(Messages) /\ Len(t) = n + 1
      /\ \A k \in 1 .. n + 1 : t[k] = s[k + (i - 1) - 1]
  <2>1. i - 1 \in Nat \ {0} /\ n + 1 \in Nat /\ n + 1 = Len(s) - (i - 1) + 1
    BY <1>1
  <2> QED BY <1>2, <2>1, SuffixIs
<1>4. /\ u \in Seq(Messages) /\ Len(u) = n
      /\ \A k \in 1 .. n : u[k] = s[k + i - 1]
  <2>1. i \in Nat \ {0} /\ n = Len(s) - i + 1
    BY <1>1
  <2> QED BY <1>2, <2>1, SuffixIs
<1>5. \A k \in 1 .. n : k + 1 \in 1 .. n + 1 /\ t[k + 1] = u[k]
  <2> TAKE k \in 1 .. n
  <2>1. k + 1 \in 1 .. n + 1 /\ (k + 1) + (i - 1) - 1 = k + i - 1
    OBVIOUS
  <2> QED BY <1>3, <1>4, <2>1
<1>6. PICK f : /\ f[0] = 0 /\ EstimateMessageTokens(t) = f[n + 1]
               /\ \A k \in 0 .. n + 1 : f[k] \in Nat
               /\ \A k \in 1 .. n + 1 : f[k] = f[k - 1] + RoughTokenCount(t[k])
  <2>1. t \in Seq(Messages) /\ Len(t) = n + 1
    BY <1>3
  <2>2. \E f : /\ f[0] = 0 /\ EstimateMessageTokens(t) = f[Len(t)]
               /\ \A k \in 0 .. Len(t) : f[k] \in Nat
               /\ \A k \in 1 .. Len(t) : f[k] = f[k - 1] + RoughTokenCount(t[k])
    BY <2>1, EstimateSums, Zenon
  <2> QED BY <2>1, <2>2, Zenon
<1>7. PICK g : /\ g[0] = 0 /\ EstimateMessageTokens(u) = g[n]
               /\ \A k \in 0 .. n : g[k] \in Nat
               /\ \A k \in 1 .. n : g[k] = g[k - 1] + RoughTokenCount(u[k])
  <2>1. u \in Seq(Messages) /\ Len(u) = n
    BY <1>4
  <2> QED BY <2>1, EstimateSums, Zenon
<1>8. PICK r \in Nat : r = RoughTokenCount(t[1])
  BY <1>3, RoughNat
<1> DEFINE T == {k \in 0 .. n : f[k + 1] = r + g[k]}
<1>9. 0 \in T
  <2>1. f[1] = f[1 - 1] + r /\ 1 - 1 = 0 /\ 0 + 1 = 1 /\ 0 \in 0 .. n /\ r + 0 = r /\ 0 + r = r
    BY <1>6, <1>8
  <2> QED BY <1>6, <1>7, <2>1
<1>10. ASSUME NEW k \in 1 .. n, k - 1 \in T
       PROVE  k \in T
  <2>1. k + 1 \in 1 .. n + 1 /\ (k + 1) - 1 = k /\ (k - 1) + 1 = k /\ k \in 0 .. n /\ k - 1 \in 0 .. n
    OBVIOUS
  <2>2. f[k] = r + g[k - 1]
    BY <1>10, <2>1
  <2>3. f[k + 1] = f[k] + RoughTokenCount(u[k]) /\ g[k] = g[k - 1] + RoughTokenCount(u[k])
    BY <1>5, <1>6, <1>7, <2>1
  <2>4. RoughTokenCount(u[k]) \in Nat /\ g[k - 1] \in Nat
    BY <1>4, <1>7, <2>1, RoughNat
  <2>5. f[k + 1] = r + g[k]
    BY <2>2, <2>3, <2>4
  <2> QED BY <2>1, <2>5
<1> HIDE DEF T
<1>11. n \in T
  <2>1. \A k \in 1 .. n : k - 1 \in T => k \in T
    BY <1>10
  <2>2. n \in 0 .. n
    OBVIOUS
  <2> QED BY <1>9, <2>1, <2>2, Induct
<1>12. f[n + 1] = r + g[n] /\ g[n] \in Nat
  BY <1>7, <1>11 DEF T
<1> QED BY <1>2, <1>6, <1>7, <1>12

-----------------------------------------------------------------------------
(* Messages, field by field.                                               *)

Fields(role, mark, text, calls, results, cleared, usage) ==
  [role |-> role, mark |-> mark, text |-> text, calls |-> calls, results |-> results,
   cleared |-> cleared, usage |-> usage]

LEMMA FieldsTyped ==
  ASSUME NEW m \in Messages
  PROVE  /\ m.role \in {"user", "assistant", "system"} /\ m.mark \in {"none", "boundary", "summary"}
         /\ m.text \in BOOLEAN /\ m.calls \subseteq Calls /\ m.results \subseteq Calls
         /\ m.cleared \subseteq Calls /\ m.usage \in Nat
BY DEF Messages

LEMMA FieldsMessage ==
  ASSUME NEW role \in {"user", "assistant", "system"}, NEW mark \in {"none", "boundary", "summary"},
         NEW text \in BOOLEAN, NEW calls \in SUBSET Calls, NEW results \in SUBSET Calls,
         NEW cleared \in SUBSET Calls, NEW usage \in Nat, NEW m,
         m = Fields(role, mark, text, calls, results, cleared, usage)
  PROVE  /\ m \in Messages
         /\ m.role = role /\ m.mark = mark /\ m.text = text /\ m.calls = calls
         /\ m.results = results /\ m.cleared = cleared /\ m.usage = usage
BY DEF Fields, Messages

(* A message with another value in one field.                              *)
LEMMA SetMark ==
  ASSUME NEW m \in Messages, NEW v \in {"none", "boundary", "summary"}
  PROVE  [m EXCEPT !.mark = v] =
           Fields(m.role, v, m.text, m.calls, m.results, m.cleared, m.usage)
<1>1. PICK e : e = [m EXCEPT !.mark = v]
  OBVIOUS
<1>2. e \in Messages
  BY <1>1 DEF Messages
<1>3. /\ e.role = m.role /\ e.mark = v /\ e.text = m.text /\ e.calls = m.calls
      /\ e.results = m.results /\ e.cleared = m.cleared /\ e.usage = m.usage
  BY <1>1 DEF Messages
<1>4. e = Fields(e.role, e.mark, e.text, e.calls, e.results, e.cleared, e.usage)
  BY <1>2 DEF Messages, Fields
<1> QED BY <1>1, <1>3, <1>4

LEMMA SetText ==
  ASSUME NEW m \in Messages, NEW v \in BOOLEAN
  PROVE  [m EXCEPT !.text = v] =
           Fields(m.role, m.mark, v, m.calls, m.results, m.cleared, m.usage)
<1>1. PICK e : e = [m EXCEPT !.text = v]
  OBVIOUS
<1>2. e \in Messages
  BY <1>1 DEF Messages
<1>3. /\ e.role = m.role /\ e.mark = m.mark /\ e.text = v /\ e.calls = m.calls
      /\ e.results = m.results /\ e.cleared = m.cleared /\ e.usage = m.usage
  BY <1>1 DEF Messages
<1>4. e = Fields(e.role, e.mark, e.text, e.calls, e.results, e.cleared, e.usage)
  BY <1>2 DEF Messages, Fields
<1> QED BY <1>1, <1>3, <1>4

LEMMA SetCalls ==
  ASSUME NEW m \in Messages, NEW v \in SUBSET Calls
  PROVE  [m EXCEPT !.calls = v] =
           Fields(m.role, m.mark, m.text, v, m.results, m.cleared, m.usage)
<1>1. PICK e : e = [m EXCEPT !.calls = v]
  OBVIOUS
<1>2. e \in Messages
  BY <1>1 DEF Messages
<1>3. /\ e.role = m.role /\ e.mark = m.mark /\ e.text = m.text /\ e.calls = v
      /\ e.results = m.results /\ e.cleared = m.cleared /\ e.usage = m.usage
  BY <1>1 DEF Messages
<1>4. e = Fields(e.role, e.mark, e.text, e.calls, e.results, e.cleared, e.usage)
  BY <1>2 DEF Messages, Fields
<1> QED BY <1>1, <1>3, <1>4

LEMMA SetResults ==
  ASSUME NEW m \in Messages, NEW v \in SUBSET Calls
  PROVE  [m EXCEPT !.results = v] =
           Fields(m.role, m.mark, m.text, m.calls, v, m.cleared, m.usage)
<1>1. PICK e : e = [m EXCEPT !.results = v]
  OBVIOUS
<1>2. e \in Messages
  BY <1>1 DEF Messages
<1>3. /\ e.role = m.role /\ e.mark = m.mark /\ e.text = m.text /\ e.calls = m.calls
      /\ e.results = v /\ e.cleared = m.cleared /\ e.usage = m.usage
  BY <1>1 DEF Messages
<1>4. e = Fields(e.role, e.mark, e.text, e.calls, e.results, e.cleared, e.usage)
  BY <1>2 DEF Messages, Fields
<1> QED BY <1>1, <1>3, <1>4

LEMMA SetCleared ==
  ASSUME NEW m \in Messages, NEW v \in SUBSET Calls
  PROVE  [m EXCEPT !.cleared = v] =
           Fields(m.role, m.mark, m.text, m.calls, m.results, v, m.usage)
<1>1. PICK e : e = [m EXCEPT !.cleared = v]
  OBVIOUS
<1>2. e \in Messages
  BY <1>1 DEF Messages
<1>3. /\ e.role = m.role /\ e.mark = m.mark /\ e.text = m.text /\ e.calls = m.calls
      /\ e.results = m.results /\ e.cleared = v /\ e.usage = m.usage
  BY <1>1 DEF Messages
<1>4. e = Fields(e.role, e.mark, e.text, e.calls, e.results, e.cleared, e.usage)
  BY <1>2 DEF Messages, Fields
<1> QED BY <1>1, <1>3, <1>4

LEMMA SetUsage ==
  ASSUME NEW m \in Messages, NEW v \in Nat
  PROVE  [m EXCEPT !.usage = v] =
           Fields(m.role, m.mark, m.text, m.calls, m.results, m.cleared, v)
<1>1. PICK e : e = [m EXCEPT !.usage = v]
  OBVIOUS
<1>2. e \in Messages
  BY <1>1 DEF Messages
<1>3. /\ e.role = m.role /\ e.mark = m.mark /\ e.text = m.text /\ e.calls = m.calls
      /\ e.results = m.results /\ e.cleared = m.cleared /\ e.usage = v
  BY <1>1 DEF Messages
<1>4. e = Fields(e.role, e.mark, e.text, e.calls, e.results, e.cleared, e.usage)
  BY <1>2 DEF Messages, Fields
<1> QED BY <1>1, <1>3, <1>4

LEMMA Constructed ==
  /\ Prompt = Fields("user", "none", TRUE, {}, {}, {}, 0)
  /\ Notice = Fields("system", "none", TRUE, {}, {}, {}, 0)
  /\ Boundary = Fields("system", "boundary", TRUE, {}, {}, {}, 0)
  /\ Summary = Fields("user", "summary", TRUE, {}, {}, {}, 0)
  /\ \A ids \in SUBSET Calls : Results(ids) = Fields("user", "none", FALSE, {}, ids, {}, 0)
  /\ \A text \in BOOLEAN, C \in SUBSET Calls :
       /\ Message("assistant", text) = Fields("assistant", "none", text, {}, {}, {}, 0)
       /\ [Message("assistant", text) EXCEPT !.calls = C] =
            Fields("assistant", "none", text, C, {}, {}, 0)
<1>1. \A role, text : Message(role, text) = Fields(role, "none", text, {}, {}, {}, 0)
  BY DEF Message, Fields
<1>2. ASSUME NEW role \in {"user", "assistant", "system"}, NEW text \in BOOLEAN, NEW m,
             m = Message(role, text)
      PROVE  /\ m \in Messages /\ m.role = role /\ m.mark = "none" /\ m.text = text
             /\ m.calls = {} /\ m.results = {} /\ m.cleared = {} /\ m.usage = 0
  <2>1. m = Fields(role, "none", text, {}, {}, {}, 0)
    BY <1>1, <1>2, Zenon
  <2> QED BY <2>1, FieldsMessage
<1>3. PICK m : m = Message("system", TRUE)
  OBVIOUS
<1>4. Boundary = Fields("system", "boundary", TRUE, {}, {}, {}, 0)
  <2>1. Boundary = [m EXCEPT !.mark = "boundary"]
    BY <1>3 DEF Boundary
  <2>2. m \in Messages
    BY <1>2, <1>3
  <2>3. Boundary = Fields(m.role, "boundary", m.text, m.calls, m.results, m.cleared, m.usage)
    BY <2>1, <2>2, SetMark
  <2> QED BY <1>2, <1>3, <2>3
<1>5. PICK p : p = Message("user", TRUE)
  OBVIOUS
<1>6. Summary = Fields("user", "summary", TRUE, {}, {}, {}, 0)
  <2>1. Summary = [p EXCEPT !.mark = "summary"]
    BY <1>5 DEF Summary
  <2>2. p \in Messages
    BY <1>2, <1>5
  <2>3. Summary = Fields(p.role, "summary", p.text, p.calls, p.results, p.cleared, p.usage)
    BY <2>1, <2>2, SetMark
  <2> QED BY <1>2, <1>5, <2>3
<1>7. ASSUME NEW ids \in SUBSET Calls
      PROVE  Results(ids) = Fields("user", "none", FALSE, {}, ids, {}, 0)
  <2>1. PICK q : q = Message("user", FALSE)
    OBVIOUS
  <2>2. Results(ids) = [q EXCEPT !.results = ids]
    BY <2>1 DEF Results
  <2>3. q \in Messages
    BY <1>2, <2>1
  <2>4. Results(ids) = Fields(q.role, q.mark, q.text, q.calls, ids, q.cleared, q.usage)
    BY <2>2, <2>3, SetResults
  <2> QED BY <1>2, <2>1, <2>4
<1>8. ASSUME NEW text \in BOOLEAN, NEW C \in SUBSET Calls
      PROVE  [Message("assistant", text) EXCEPT !.calls = C] =
               Fields("assistant", "none", text, C, {}, {}, 0)
  <2>1. PICK q : q = Message("assistant", text)
    OBVIOUS
  <2>2. q \in Messages
    BY <1>2, <2>1
  <2>3. [q EXCEPT !.calls = C] = Fields(q.role, q.mark, q.text, C, q.results, q.cleared, q.usage)
    BY <2>2, SetCalls
  <2>4. /\ q.role = "assistant" /\ q.mark = "none" /\ q.text = text
        /\ q.results = {} /\ q.cleared = {} /\ q.usage = 0
    BY <1>2, <2>1
  <2>5. [q EXCEPT !.calls = C] = Fields("assistant", "none", text, C, {}, {}, 0)
    BY <2>3, <2>4
  <2> QED BY <2>1, <2>5, Zenon
<1> QED BY <1>1, <1>4, <1>6, <1>7, <1>8 DEF Prompt, Notice

Is(m, role, mark, text, results) ==
  /\ m \in Messages /\ m.role = role /\ m.mark = mark /\ m.text = text
  /\ m.calls = {} /\ m.results = results /\ m.cleared = {} /\ m.usage = 0

LEMMA ConstructedAre ==
  /\ Is(Prompt, "user", "none", TRUE, {}) /\ Is(Notice, "system", "none", TRUE, {})
  /\ Is(Boundary, "system", "boundary", TRUE, {}) /\ Is(Summary, "user", "summary", TRUE, {})
  /\ \A ids \in SUBSET Calls : Is(Results(ids), "user", "none", FALSE, ids)
<1>1. ASSUME NEW role \in {"user", "assistant", "system"}, NEW mark \in {"none", "boundary", "summary"},
             NEW text \in BOOLEAN, NEW ids \in SUBSET Calls, NEW m,
             m = Fields(role, mark, text, {}, ids, {}, 0)
      PROVE  Is(m, role, mark, text, ids)
  BY <1>1, FieldsMessage DEF Is
<1>2. TRUE \in BOOLEAN /\ FALSE \in BOOLEAN /\ {} \in SUBSET Calls
  OBVIOUS
<1>3. /\ "user" \in {"user", "assistant", "system"} /\ "system" \in {"user", "assistant", "system"}
      /\ "none" \in {"none", "boundary", "summary"} /\ "boundary" \in {"none", "boundary", "summary"}
      /\ "summary" \in {"none", "boundary", "summary"}
  OBVIOUS
<1>4. \A role \in {"user", "assistant", "system"}, mark \in {"none", "boundary", "summary"},
        text \in BOOLEAN, ids \in SUBSET Calls : \A m :
        m = Fields(role, mark, text, {}, ids, {}, 0) => Is(m, role, mark, text, ids)
  BY <1>1
<1> QED BY <1>2, <1>3, <1>4, Constructed, Zenon

(* A reply with the calls C: it carries no results, and its usage is a     *)
(* number.                                                                 *)
Replied(m, text, C) ==
  /\ m \in Messages /\ m.role = "assistant" /\ m.mark = "none" /\ m.text = text /\ m.calls = C
  /\ m.results = {} /\ m.cleared = {}

LEMMA ReplyFields ==
  ASSUME msgs \in Seq(Messages), NEW text \in BOOLEAN, NEW C \in SUBSET Calls, NEW m0,
         m0 = Fields("assistant", "none", text, C, {}, {}, 0), NEW m \in WithUsage(m0)
  PROVE  Replied(m, text, C)
<1>1. m0 \in Messages
  BY FieldsMessage
<1>2. PICK u : u = EstimateMessageTokens(msgs) + RoughTokenCount(m0) + Overhead
  OBVIOUS
<1>3. u \in Nat
  BY <1>1, <1>2, EstimateNat, RoughNat, CompactionAssumption
<1>4. m = m0 \/ m = [m0 EXCEPT !.usage = u]
  BY <1>2 DEF WithUsage
<1>5. [m0 EXCEPT !.usage = u] = Fields("assistant", "none", text, C, {}, {}, u)
  <2>1. [m0 EXCEPT !.usage = u] =
          Fields(m0.role, m0.mark, m0.text, m0.calls, m0.results, m0.cleared, u)
    BY <1>1, <1>3, SetUsage
  <2>2. /\ m0.role = "assistant" /\ m0.mark = "none" /\ m0.text = text /\ m0.calls = C
        /\ m0.results = {} /\ m0.cleared = {}
    BY FieldsMessage
  <2> QED BY <2>1, <2>2
<1>6. \E v \in Nat : m = Fields("assistant", "none", text, C, {}, {}, v)
  BY <1>3, <1>4, <1>5
<1> QED BY <1>6, FieldsMessage DEF Replied

-----------------------------------------------------------------------------
(* How histories grow.                                                     *)

(* A history with a message more at its end, by places.                    *)
Extends(t, s, m, l) ==
  /\ t \in Seq(Messages) /\ Len(s) = l /\ Len(t) = l + 1 /\ t[l + 1] = m
  /\ \A i \in 1 .. l : t[i] = s[i] /\ i \in 1 .. l + 1
  /\ \A i \in 1 .. l + 1 : i \in 1 .. l \/ i = l + 1

LEMMA AppendIs ==
  ASSUME NEW s \in Seq(Messages), NEW m \in Messages, NEW l \in Nat, l = Len(s)
  PROVE  Extends(Append(s, m), s, m, l)
<1>1. PICK t : t = Append(s, m)
  OBVIOUS
<1>2. t \in Seq(Messages) /\ Len(t) = l + 1 /\ t[l + 1] = m /\ \A i \in 1 .. l : t[i] = s[i]
  BY <1>1
<1>3. /\ \A i \in 1 .. l : i \in 1 .. l + 1
      /\ \A i \in 1 .. l + 1 : i \in 1 .. l \/ i = l + 1
  OBVIOUS
<1> QED BY <1>1, <1>2, <1>3 DEF Extends

(* What is appended is answered by calls that wait for it.                 *)
LEMMA AppendPaired ==
  ASSUME NEW s \in Seq(Messages), NEW m \in Messages, NEW a \in Nat, NEW b \in Nat,
         PairedFrom(s, a, b), m.results # {} => Waiting(s, b, m.results)
  PROVE  PairedFrom(Append(s, m), a, b)
<1>0. PICK l \in Nat : l = Len(s)
  OBVIOUS
<1>1. PICK t : t = Append(s, m) /\ Extends(t, s, m, l)
  BY <1>0, AppendIs
<1>2. ASSUME NEW j \in 1 .. l, NEW i \in 1 .. l + 1, Quiet(s, j, i)
      PROVE  Quiet(t, j, i)
  <2>1. ASSUME NEW k \in 1 .. l + 1, j < k, k < i
        PROVE  t[k].calls = {} /\ t[k].results = {}
    <3>1. k \in 1 .. l /\ t[k] = s[k]
      BY <1>1, <2>1 DEF Extends
    <3> QED BY <1>1, <1>2, <2>1, <3>1 DEF Quiet, Extends
  <2> QED BY <1>1, <2>1 DEF Quiet, Extends
<1>3. ASSUME NEW i \in 1 .. l, a <= i, s[i].results # {}
      PROVE  Answered(t, i, b)
  <2>1. PICK j \in 1 .. l : b <= j /\ j < i /\ Answers(s, i, j)
    BY <1>1, <1>3 DEF PairedFrom, Answered, Extends
  <2>2. t[i] = s[i] /\ t[j] = s[j] /\ i \in 1 .. l + 1 /\ j \in 1 .. l + 1 /\ Len(t) = l + 1
    BY <1>1 DEF Extends
  <2>3. Quiet(t, j, i)
    BY <1>2, <2>1, <2>2 DEF Answers
  <2> QED BY <2>1, <2>2, <2>3 DEF Answered, Answers
<1>4. ASSUME m.results # {}
      PROVE  Answered(t, l + 1, b)
  <2>1. PICK j \in 1 .. l : b <= j /\ m.results \subseteq s[j].calls /\ Quiet(s, j, l + 1)
    BY <1>1, <1>4 DEF Waiting, Extends
  <2>2. t[l + 1] = m /\ t[j] = s[j] /\ j \in 1 .. l + 1 /\ Len(t) = l + 1 /\ j < l + 1
    BY <1>1 DEF Extends
  <2>3. Quiet(t, j, l + 1)
    BY <1>2, <2>1
  <2> QED BY <2>1, <2>2, <2>3 DEF Answered, Answers
<1>5. ASSUME NEW i \in 1 .. l + 1, a <= i, t[i].results # {}
      PROVE  Answered(t, i, b)
  <2>1. CASE i \in 1 .. l
    BY <1>1, <1>3, <1>5, <2>1 DEF Extends
  <2>2. CASE i = l + 1
    BY <1>1, <1>4, <1>5, <2>2 DEF Extends
  <2> QED BY <2>1, <2>2
<1> QED BY <1>1, <1>5 DEF PairedFrom, Extends

(* Calls go on waiting behind a notice, and those of the last message wait.*)
LEMMA WaitingAppend ==
  ASSUME NEW s \in Seq(Messages), NEW m \in Messages, m.calls = {}, m.results = {},
         NEW b \in Nat, NEW C, Waiting(s, b, C)
  PROVE  Waiting(Append(s, m), b, C)
<1>0. PICK l \in Nat : l = Len(s)
  OBVIOUS
<1>1. PICK t : t = Append(s, m) /\ Extends(t, s, m, l)
  BY <1>0, AppendIs
<1>2. PICK j \in 1 .. l : b <= j /\ C \subseteq s[j].calls /\ Quiet(s, j, l + 1)
  BY <1>1 DEF Waiting, Extends
<1>3. ASSUME NEW k \in 1 .. l + 1, j < k
      PROVE  t[k].calls = {} /\ t[k].results = {}
  <2>1. CASE k = l + 1
    BY <1>1, <2>1 DEF Extends
  <2>2. CASE k \in 1 .. l
    <3>1. k < l + 1 /\ t[k] = s[k]
      BY <1>1, <2>2 DEF Extends
    <3> QED BY <1>1, <1>2, <1>3, <2>2, <3>1 DEF Quiet, Extends
  <2> QED BY <2>1, <2>2
<1>4. Quiet(t, j, (l + 1) + 1) /\ j \in 1 .. l + 1 /\ t[j] = s[j] /\ Len(t) = l + 1
  BY <1>1, <1>3 DEF Quiet, Extends
<1> QED BY <1>1, <1>2, <1>4 DEF Waiting

LEMMA WaitingLast ==
  ASSUME NEW s \in Seq(Messages), s # <<>>, NEW b \in 0 .. Len(s)
  PROVE  Waiting(s, b, Last(s).calls)
<1>1. PICK l \in Nat : l = Len(s) /\ l \in 1 .. l /\ b <= l
  OBVIOUS
<1>2. Last(s) = s[l]
  BY <1>1 DEF Last
<1>3. Quiet(s, l, l + 1)
  BY <1>1 DEF Quiet
<1> QED BY <1>1, <1>2, <1>3 DEF Waiting

LEMMA SoundAppend ==
  ASSUME NEW n \in Nat, NEW k \in Nat, n <= k, NEW s \in Seq(Messages), Sound(s, n),
         NEW m \in Messages, MessageFormed(m, k), \A c \in m.calls : c > n,
         m.results # {} => Waiting(s, 1, m.results)
  PROVE  Append(s, m) \in Seq(Messages) /\ Sound(Append(s, m), k)
<1>1. PICK t : t = Append(s, m)
  OBVIOUS
<1>2. PICK l \in Nat : l = Len(s)
  OBVIOUS
<1>3. t \in Seq(Messages) /\ Len(t) = l + 1 /\ t[l + 1] = m /\ \A i \in 1 .. l : t[i] = s[i]
  BY <1>1, <1>2
<1>4. \A i \in 1 .. l + 1 : i \in 1 .. l \/ i = l + 1
  OBVIOUS
<1>5. ASSUME NEW i \in 1 .. l
      PROVE  MessageFormed(s[i], k) /\ \A c \in s[i].calls : c \in Nat /\ c <= n
  <2>1. MessageFormed(s[i], n)
    BY <1>2 DEF Sound, Formed
  <2>2. 1 .. n \subseteq 1 .. k
    OBVIOUS
  <2>3. \A c \in s[i].calls : c \in 1 .. n
    BY <2>1 DEF MessageFormed
  <2> QED BY <2>1, <2>2, <2>3 DEF MessageFormed
<1>6. Formed(t, k)
  BY <1>3, <1>4, <1>5 DEF Formed
<1>7. Paired(t)
  BY <1>1, AppendPaired DEF Sound, Paired
<1>8. InOrder(t)
  <2> SUFFICES ASSUME NEW i \in 1 .. l + 1, NEW j \in 1 .. l + 1, i < j,
                      NEW c \in t[i].calls, NEW d \in t[j].calls
               PROVE  c < d
    BY <1>3 DEF InOrder
  <2>1. i \in 1 .. l /\ t[i] = s[i]
    BY <1>3
  <2>2. CASE j \in 1 .. l
    <3>1. t[j] = s[j]
      BY <1>3, <2>2
    <3> QED BY <1>2, <2>1, <2>2, <3>1 DEF Sound, InOrder
  <2>3. CASE j = l + 1
    <3>1. d > n /\ c \in Nat /\ c <= n
      BY <1>3, <1>5, <2>1, <2>3
    <3>2. d \in Nat
      BY <1>3, <2>3, FieldsTyped DEF Calls
    <3> QED BY <3>1, <3>2
  <2> QED BY <1>4, <2>2, <2>3
<1> QED BY <1>1, <1>3, <1>6, <1>7, <1>8 DEF Sound

(* A result has its call before it, and is one of those made.              *)
LEMMA ResultCalled ==
  ASSUME NEW n \in Nat, NEW s \in Seq(Messages), Sound(s, n), NEW i \in 1 .. Len(s),
         s[i].results # {}
  PROVE  \E j \in 1 .. Len(s) : j < i /\ Answers(s, i, j) /\ MessageFormed(s[j], n)
<1>1. 1 <= i
  OBVIOUS
<1>2. Answered(s, i, 1)
  BY <1>1 DEF Sound, Paired, PairedFrom
<1> QED BY <1>2 DEF Answered, Sound, Formed

LEMMA ClearedMade ==
  ASSUME NEW n \in Nat, NEW s \in Seq(Messages), Sound(s, n), NEW i \in 1 .. Len(s)
  PROVE  s[i].results \subseteq 1 .. n /\ s[i].cleared \subseteq 1 .. n
<1>1. s[i].cleared \subseteq s[i].results
  BY DEF Sound, Formed, MessageFormed
<1>2. CASE s[i].results = {}
  BY <1>1, <1>2
<1>3. CASE s[i].results # {}
  BY <1>1, <1>3, ResultCalled DEF Answers, MessageFormed
<1> QED BY <1>2, <1>3

LEMMA CallsTyped ==
  ASSUME NEW s \in Seq(Messages)
  PROVE  CallsIn(s) \subseteq Calls
<1>1. ASSUME NEW i \in 1 .. Len(s) PROVE s[i].calls \subseteq Calls
  <2>1. s[i] \in Messages
    OBVIOUS
  <2> QED BY <2>1, FieldsTyped
<1> QED BY <1>1 DEF CallsIn

LEMMA RecentAppend ==
  ASSUME NEW n \in Nat, NEW s \in Seq(Messages), Sound(s, n), NEW m \in Messages, m.cleared = {},
         NEW el, NEW fl, el \subseteq fl, (fl \ el) \cap (1 .. n) = {}, Recent(s, el)
  PROVE  Recent(Append(s, m), fl)
<1>1. PICK t : t = Append(s, m)
  OBVIOUS
<1>2. PICK l \in Nat : l = Len(s)
  OBVIOUS
<1>3. t \in Seq(Messages) /\ Len(t) = l + 1 /\ t[l + 1] = m /\ \A i \in 1 .. l : t[i] = s[i]
  BY <1>1, <1>2
<1>4. CallsIn(s) \subseteq CallsIn(t)
  <2>1. \A i \in 1 .. l : i \in 1 .. l + 1 /\ t[i] = s[i]
    BY <1>3
  <2> QED BY <1>2, <1>3, <2>1 DEF CallsIn
<1>5. ASSUME NEW i \in 1 .. l + 1, NEW c \in t[i].cleared \cap fl
      PROVE  Cardinality({d \in CallsIn(t) \cap fl : d > c}) >= KeepRecent
  <2>1. i \in 1 .. l /\ t[i] = s[i]
    BY <1>3, <1>5
  <2>2. c \in s[i].cleared \cap el
    BY <1>2, <1>5, <2>1, ClearedMade
  <2>3. Cardinality({d \in CallsIn(s) \cap el : d > c}) >= KeepRecent
    BY <1>2, <2>1, <2>2 DEF Recent
  <2>4. PICK S, T : S = {d \in CallsIn(s) \cap el : d > c} /\ T = {d \in CallsIn(t) \cap fl : d > c}
    OBVIOUS
  <2>5. S \subseteq T /\ T \subseteq Calls
    BY <1>3, <1>4, <2>4, CallsTyped
  <2>6. Cardinality(S) <= Cardinality(T) /\ Cardinality(S) \in Nat /\ Cardinality(T) \in Nat
    BY <2>5, MoreCalls, FiniteCalls
  <2> QED BY <2>3, <2>4, <2>6, CompactionAssumption
<1> QED BY <1>1, <1>3, <1>5 DEF Recent

(* A history whose messages are rewritten: texts are added, and contents   *)
(* cleared.                                                                *)
Rewritten(s, t) ==
  /\ Len(t) = Len(s)
  /\ \A i \in 1 .. Len(s) :
       /\ t[i].role = s[i].role /\ t[i].mark = s[i].mark
       /\ t[i].calls = s[i].calls /\ t[i].results = s[i].results
       /\ t[i].cleared \subseteq t[i].results
       /\ s[i].text => t[i].text

LEMMA PairedRewritten ==
  ASSUME NEW s \in Seq(Messages), NEW t \in Seq(Messages), Rewritten(s, t),
         NEW a \in Nat, NEW b \in Nat, PairedFrom(s, a, b)
  PROVE  PairedFrom(t, a, b)
<1>1. PICK l \in Nat : l = Len(s) /\ Len(t) = l
  BY DEF Rewritten
<1>2. \A i \in 1 .. l : t[i].calls = s[i].calls /\ t[i].results = s[i].results
  BY <1>1 DEF Rewritten
<1>3. \A j, i \in 1 .. l : Quiet(s, j, i) => Quiet(t, j, i)
  BY <1>1, <1>2 DEF Quiet
<1>4. \A j, i \in 1 .. l : Answers(s, i, j) => Answers(t, i, j)
  BY <1>2, <1>3 DEF Answers
<1>5. \A i \in 1 .. l : Answered(s, i, b) => Answered(t, i, b)
  BY <1>1, <1>4 DEF Answered
<1> QED BY <1>1, <1>2, <1>5 DEF PairedFrom

LEMMA SoundRewritten ==
  ASSUME NEW n \in Nat, NEW s \in Seq(Messages), NEW t \in Seq(Messages), Sound(s, n), Rewritten(s, t)
  PROVE  Sound(t, n) /\ CallsIn(t) = CallsIn(s)
<1>1. Len(t) = Len(s) /\ Len(s) \in Nat
  BY DEF Rewritten
<1>2. Formed(t, n)
  BY <1>1 DEF Sound, Formed, MessageFormed, Rewritten
<1>3. Paired(t)
  BY PairedRewritten DEF Sound, Paired
<1>4. InOrder(t)
  BY <1>1 DEF Sound, InOrder, Rewritten
<1>5. CallsIn(t) = CallsIn(s)
  BY <1>1 DEF CallsIn, Rewritten
<1> QED BY <1>2, <1>3, <1>4, <1>5 DEF Sound

LEMMA RecentRewritten ==
  ASSUME NEW s \in Seq(Messages), NEW t \in Seq(Messages), NEW el, Recent(s, el),
         Len(t) = Len(s), CallsIn(t) = CallsIn(s),
         \A i \in 1 .. Len(s) : t[i].cleared = s[i].cleared
  PROVE  Recent(t, el)
BY DEF Recent

(* A history with messages put in between that have neither calls nor      *)
(* results: p says where the old messages stand.                           *)
Embeds(u, p, s, n) ==
  /\ \A i \in 1 .. Len(s) : p[i] \in 1 .. Len(u) /\ u[p[i]] = s[i]
  /\ \A i, j \in 1 .. Len(s) : i < j => p[i] < p[j]
  /\ \A k \in 1 .. Len(u) :
       \/ \E i \in 1 .. Len(s) : k = p[i]
       \/ u[k].calls = {} /\ u[k].results = {} /\ MessageFormed(u[k], n)

LEMMA SoundEmbedded ==
  ASSUME NEW n \in Nat, NEW s \in Seq(Messages), Sound(s, n), NEW el, Recent(s, el),
         NEW u \in Seq(Messages), NEW p, Embeds(u, p, s, n)
  PROVE  Sound(u, n) /\ Recent(u, el)
<1>1. PICK l, h \in Nat : l = Len(s) /\ h = Len(u)
  OBVIOUS
<1>2. ASSUME NEW i \in 1 .. l
      PROVE  p[i] \in 1 .. h /\ u[p[i]] = s[i] /\ \A j \in 1 .. l : i < j <=> p[i] < p[j]
  <2>1. p[i] \in 1 .. h /\ u[p[i]] = s[i]
    BY <1>1 DEF Embeds
  <2>2. ASSUME NEW j \in 1 .. l
        PROVE  i < j <=> p[i] < p[j]
    <3>1. (i < j => p[i] < p[j]) /\ (j < i => p[j] < p[i]) /\ p[j] \in 1 .. h
      BY <1>1 DEF Embeds
    <3>2. i < j \/ j < i \/ i = j
      BY <1>1
    <3> QED BY <1>1, <2>1, <3>1, <3>2
  <2> QED BY <2>1, <2>2
<1>3. ASSUME NEW k \in 1 .. h
      PROVE  \/ \E i \in 1 .. l : k = p[i]
             \/ u[k].calls = {} /\ u[k].results = {} /\ MessageFormed(u[k], n)
  BY <1>1 DEF Embeds
<1>4. Formed(u, n)
  BY <1>1, <1>2, <1>3 DEF Sound, Formed
<1>5. ASSUME NEW k \in 1 .. h, u[k].results # {}
      PROVE  Answered(u, k, 1)
  <2>1. PICK i \in 1 .. l : k = p[i] /\ u[k] = s[i]
    BY <1>2, <1>3, <1>5
  <2>2. PICK j \in 1 .. l : j < i /\ Answers(s, i, j)
    BY <1>1, <1>5, <2>1, ResultCalled
  <2>3. p[j] \in 1 .. h /\ u[p[j]] = s[j] /\ p[j] < k /\ 1 <= p[j]
    <3>1. p[j] \in 1 .. h /\ u[p[j]] = s[j]
      BY <1>2
    <3>2. p[j] < p[i]
      BY <1>2, <2>2
    <3> QED BY <1>1, <2>1, <3>1, <3>2
  <2>4. ASSUME NEW x \in 1 .. h, p[j] < x, x < k
        PROVE  u[x].calls = {} /\ u[x].results = {}
    <3>1. CASE \E y \in 1 .. l : x = p[y]
      <4>1. PICK y \in 1 .. l : x = p[y]
        BY <3>1
      <4>2. j < y /\ y < i /\ u[x] = s[y]
        BY <1>2, <2>1, <2>4, <4>1
      <4> QED BY <1>1, <2>2, <4>2 DEF Answers, Quiet
    <3> QED BY <1>3, <3>1
  <2>5. Answers(u, k, p[j])
    BY <1>1, <2>1, <2>2, <2>3, <2>4 DEF Answers, Quiet
  <2> QED BY <1>1, <2>3, <2>5 DEF Answered
<1>6. Paired(u)
  BY <1>1, <1>5 DEF Paired, PairedFrom
<1>7. ASSUME NEW x \in 1 .. h, NEW y \in 1 .. h, x < y, NEW c \in u[x].calls, NEW d \in u[y].calls
      PROVE  c < d
  <2>1. PICK i, j \in 1 .. l : x = p[i] /\ y = p[j]
    BY <1>3
  <2>2. i < j /\ c \in s[i].calls /\ d \in s[j].calls
    BY <1>2, <1>7, <2>1
  <2> QED BY <1>1, <2>2 DEF Sound, InOrder
<1>8. InOrder(u)
  BY <1>1, <1>7 DEF InOrder
<1>9. CallsIn(u) = CallsIn(s)
  <2>1. CallsIn(u) \subseteq CallsIn(s)
    BY <1>1, <1>2, <1>3 DEF CallsIn
  <2>2. CallsIn(s) \subseteq CallsIn(u)
    BY <1>1, <1>2 DEF CallsIn
  <2> QED BY <2>1, <2>2
<1>10. ASSUME NEW k \in 1 .. h, NEW c \in u[k].cleared \cap el
       PROVE  Cardinality({d \in CallsIn(s) \cap el : d > c}) >= KeepRecent
  <2>1. PICK i \in 1 .. l : u[k] = s[i]
    <3>1. u[k].results # {}
      BY <1>1, <1>4, <1>10 DEF Formed, MessageFormed
    <3> QED BY <1>2, <1>3, <3>1
  <2> QED BY <1>1, <1>10, <2>1 DEF Recent
<1>11. Recent(u, el)
  BY <1>1, <1>9, <1>10 DEF Recent
<1> QED BY <1>4, <1>6, <1>8, <1>11 DEF Sound

(* The prompt, and the results of calls without any.                       *)
LEMMA PromptAdded ==
  ASSUME NEW n \in Nat, NEW s \in Seq(Messages), Sound(s, n), NEW el, Recent(s, el),
         NEW b, RangePaired(s, b)
  PROVE  /\ AddPrompt(s) \in Seq(Messages) /\ AddPrompt(s) # <<>>
         /\ Sound(AddPrompt(s), n) /\ Recent(AddPrompt(s), el)
         /\ RangePaired(AddPrompt(s), b)
<1>0. b \in Nat /\ b + 1 \in Nat /\ b <= Len(s) /\ PairedFrom(s, b + 1, b)
  BY DEF RangePaired
<1>1. CASE ~(s # <<>> /\ Last(s).role = "user")
  <2>1. AddPrompt(s) = Append(s, Prompt)
    BY <1>1 DEF AddPrompt
  <2>2. /\ Prompt \in Messages /\ Prompt.role = "user" /\ Prompt.mark = "none" /\ Prompt.text
        /\ Prompt.calls = {} /\ Prompt.results = {} /\ Prompt.cleared = {}
    BY ConstructedAre DEF Is
  <2>3. MessageFormed(Prompt, n)
    BY <2>2 DEF MessageFormed
  <2>4. Append(s, Prompt) \in Seq(Messages) /\ Sound(Append(s, Prompt), n)
    BY <2>2, <2>3, SoundAppend
  <2>5. Recent(Append(s, Prompt), el)
    BY <2>2, RecentAppend
  <2>6. PairedFrom(Append(s, Prompt), b + 1, b)
    BY <1>0, <2>2, AppendPaired
  <2>7. Len(Append(s, Prompt)) = Len(s) + 1
    BY <2>2
  <2> QED BY <1>0, <2>1, <2>4, <2>5, <2>6, <2>7 DEF RangePaired
<1>2. CASE s # <<>> /\ Last(s).role = "user"
  <2>1. PICK l \in Nat \ {0} : l = Len(s)
    BY <1>2
  <2>2. PICK m \in Messages : m = s[l]
    BY <2>1
  <2>3. PICK w : w = [m EXCEPT !.text = TRUE]
    OBVIOUS
  <2>4. w = Fields(m.role, m.mark, TRUE, m.calls, m.results, m.cleared, m.usage)
    BY <2>3, SetText
  <2>5. /\ w \in Messages /\ w.role = m.role /\ w.mark = m.mark /\ w.text /\ w.calls = m.calls
        /\ w.results = m.results /\ w.cleared = m.cleared
    <3>1. PICK v \in BOOLEAN : v = TRUE
      OBVIOUS
    <3>2. w = Fields(m.role, m.mark, v, m.calls, m.results, m.cleared, m.usage)
      BY <2>4, <3>1
    <3>3. /\ w \in Messages /\ w.role = m.role /\ w.mark = m.mark /\ w.text = v
          /\ w.calls = m.calls /\ w.results = m.results /\ w.cleared = m.cleared
      <4>1. /\ m.role \in {"user", "assistant", "system"}
            /\ m.mark \in {"none", "boundary", "summary"}
            /\ m.calls \in SUBSET Calls /\ m.results \in SUBSET Calls
            /\ m.cleared \in SUBSET Calls /\ m.usage \in Nat
        BY FieldsTyped
      <4> QED BY <3>2, <4>1, FieldsMessage
    <3> QED BY <3>1, <3>3
  <2>6. PICK t : t = Front(s) \o <<w>>
    OBVIOUS
  <2>7. AddPrompt(s) = t
    BY <1>2, <2>1, <2>2, <2>3, <2>6 DEF AddPrompt, Last
  <2>8. t \in Seq(Messages) /\ Len(t) = l /\ t[l] = w /\ \A i \in 1 .. l - 1 : t[i] = s[i]
    <3>1. PICK u : u = SubSeq(s, 1, l - 1)
      OBVIOUS
    <3>2. u \in Seq(Messages) /\ Len(u) = l - 1 /\ \A i \in 1 .. l - 1 : u[i] = s[i]
      BY <2>1, <3>1
    <3>3. t = Append(u, w)
      BY <2>1, <2>5, <2>6, <3>1, <3>2 DEF Front
    <3> QED BY <2>1, <2>5, <3>2, <3>3
  <2>9. ASSUME NEW i \in 1 .. l
        PROVE  /\ t[i].role = s[i].role /\ t[i].mark = s[i].mark /\ t[i].calls = s[i].calls
               /\ t[i].results = s[i].results /\ t[i].cleared = s[i].cleared
               /\ s[i].text => t[i].text
    <3>1. CASE i = l
      BY <2>2, <2>5, <2>8, <3>1
    <3>2. CASE i \in 1 .. l - 1
      BY <2>8, <3>2
    <3> QED BY <3>1, <3>2
  <2>10. Rewritten(s, t)
    BY <2>1, <2>8, <2>9 DEF Rewritten, Sound, Formed, MessageFormed
  <2>11. Sound(t, n) /\ CallsIn(t) = CallsIn(s)
    BY <2>8, <2>10, SoundRewritten
  <2>12. Recent(t, el)
    BY <2>1, <2>8, <2>9, <2>11, RecentRewritten
  <2>13. PairedFrom(t, b + 1, b)
    BY <1>0, <2>8, <2>10, PairedRewritten
  <2> QED BY <1>0, <2>1, <2>7, <2>8, <2>11, <2>12, <2>13 DEF RangePaired
<1> QED BY <1>1, <1>2

(* Results for calls that wait.                                            *)
LEMMA ResultsAdded ==
  ASSUME NEW n \in Nat, NEW s \in Seq(Messages), Sound(s, n), NEW el, Recent(s, el),
         NEW b, RangePaired(s, b), NEW C, C \in SUBSET Calls, C # {}, Waiting(s, b, C),
         NEW m, m = Results(C)
  PROVE  /\ Append(s, m) \in Seq(Messages)
         /\ Sound(Append(s, m), n) /\ Recent(Append(s, m), el) /\ RangePaired(Append(s, m), b)
<1>1. /\ m \in Messages /\ m.role = "user" /\ m.mark = "none" /\ m.text = FALSE
      /\ m.calls = {} /\ m.results = C /\ m.cleared = {}
  BY ConstructedAre DEF Is
<1>2. MessageFormed(m, n)
  BY <1>1 DEF MessageFormed
<1>3. Waiting(s, 1, C)
  <2>1. \A j \in 1 .. Len(s) : 1 <= j
    OBVIOUS
  <2> QED BY <2>1 DEF Waiting
<1>4. Append(s, m) \in Seq(Messages) /\ Sound(Append(s, m), n)
  BY <1>1, <1>2, <1>3, SoundAppend
<1>5. Recent(Append(s, m), el)
  BY <1>1, RecentAppend
<1>6. b \in Nat /\ b + 1 \in Nat /\ b <= Len(s) /\ PairedFrom(s, b + 1, b)
  BY DEF RangePaired
<1>7. PairedFrom(Append(s, m), b + 1, b)
  BY <1>1, <1>6, AppendPaired
<1>8. Len(Append(s, m)) = Len(s) + 1
  BY <1>1
<1> QED BY <1>4, <1>5, <1>6, <1>7, <1>8 DEF RangePaired

LEMMA Repaired ==
  ASSUME NEW n \in Nat, NEW s \in Seq(Messages), Sound(s, n), NEW el, Recent(s, el),
         NEW b, RangePaired(s, b), NEW r, r = repairOrphanToolUses(s)
  PROVE  r \in Seq(Messages) /\ Sound(r, n) /\ Recent(r, el) /\ RangePaired(r, b)
<1>1. CASE s # <<>> /\ Last(s).calls # {}
  <2>1. Last(s) \in Messages
    BY <1>1 DEF Last
  <2>2. Last(s).calls \in SUBSET Calls
    BY <2>1, FieldsTyped
  <2>3. Waiting(s, b, Last(s).calls)
    BY <1>1, WaitingLast DEF RangePaired
  <2>4. PICK C, m : C = Last(s).calls /\ m = Results(C)
    OBVIOUS
  <2>5. r = Append(s, m)
    BY <1>1, <2>4 DEF repairOrphanToolUses
  <2> QED BY <1>1, <2>2, <2>3, <2>4, <2>5, ResultsAdded
<1>2. CASE ~(s # <<>> /\ Last(s).calls # {})
  BY <1>2 DEF repairOrphanToolUses
<1> QED BY <1>1, <1>2

(* Memories go before the last message.                                    *)
LEMMA MemoryAdded ==
  ASSUME NEW n \in Nat, NEW s \in Seq(Messages), s # <<>>, Sound(s, n), NEW el, Recent(s, el),
         NEW u \in injectRelevantMemories(s)
  PROVE  u \in Seq(Messages) /\ Sound(u, n) /\ Recent(u, el)
<1>1. CASE u = s
  BY <1>1
<1>2. CASE u # s
  <2>1. PICK l \in Nat \ {0} : l = Len(s)
    OBVIOUS
  <2>2. PICK m, w : m = Memory /\ w = s[l]
    OBVIOUS
  <2>3. /\ m \in Messages /\ m.role = "user" /\ m.mark = "none" /\ m.text = TRUE
        /\ m.calls = {} /\ m.results = {} /\ m.cleared = {} /\ w \in Messages
    <3>1. Memory = Prompt
      BY DEF Memory, Prompt
    <3>2. Is(m, "user", "none", TRUE, {})
      BY <2>2, <3>1, ConstructedAre
    <3>3. w \in Messages
      BY <2>1, <2>2
    <3> QED BY <3>2, <3>3 DEF Is
  <2>4. MessageFormed(m, n)
    BY <2>3 DEF MessageFormed
  <2>5. PICK f : f = SubSeq(s, 1, l - 1)
    OBVIOUS
  <2>6. f \in Seq(Messages) /\ Len(f) = l - 1 /\ \A i \in 1 .. l - 1 : f[i] = s[i]
    BY <2>1, <2>5
  <2>7. u = f \o <<m, w>>
    BY <1>2, <2>1, <2>2, <2>5 DEF injectRelevantMemories, Front, Last
  <2>8. PICK v : v = <<m, w>>
    OBVIOUS
  <2>9. v \in Seq(Messages) /\ Len(v) = 2 /\ v[1] = m /\ v[2] = w
    BY <2>3, <2>8
  <2>10. u \in Seq(Messages) /\ Len(u) = l + 1
    BY <2>1, <2>6, <2>7, <2>8, <2>9
  <2>11. u[l] = m /\ u[l + 1] = w
    <3>1. PICK a \in Nat : a = l - 1 /\ a + 1 = l /\ a + 2 = l + 1
      BY <2>1
    <3>2. u = f \o v /\ Len(f) = a /\ Len(v) = 2
      BY <2>6, <2>7, <2>8, <2>9, <3>1
    <3>3. f \in Seq(Messages) /\ v \in Seq(Messages) /\ u = f \o v
      BY <2>6, <2>9, <3>2
    <3>4. PICK x, y \in Nat : x = Len(f) /\ y = Len(v)
      BY <3>3
    <3>5. \A k \in 1 .. y : u[x + k] = v[k]
      BY <3>3, <3>4
    <3>6. x = a /\ y = 2 /\ 1 \in 1 .. 2 /\ 2 \in 1 .. 2
      BY <3>2, <3>4
    <3> QED BY <2>9, <3>1, <3>5, <3>6
  <2>12. \A i \in 1 .. l - 1 : u[i] = s[i]
    BY <2>1, <2>6, <2>7, <2>8, <2>9
  <2>13. PICK p : p = [i \in 1 .. l |-> IF i = l THEN l + 1 ELSE i]
    OBVIOUS
  <2>14. p[l] = l + 1 /\ \A i \in 1 .. l - 1 : p[i] = i
    BY <2>1, <2>13
  <2>15. \A i \in 1 .. l : i = l \/ i \in 1 .. l - 1
    BY <2>1
  <2>16. \A i \in 1 .. l : p[i] \in 1 .. l + 1 /\ u[p[i]] = s[i]
    BY <2>1, <2>2, <2>11, <2>12, <2>14, <2>15
  <2>17. \A i, j \in 1 .. l : i < j => p[i] < p[j]
    <3> TAKE i, j \in 1 .. l
    <3> HAVE i < j
    <3>1. i \in 1 .. l - 1 /\ p[i] = i
      BY <2>1, <2>14
    <3>2. p[j] = j \/ p[j] = l + 1
      BY <2>14, <2>15
    <3> QED BY <2>1, <3>1, <3>2
  <2>18. ASSUME NEW k \in 1 .. l + 1
         PROVE  \/ \E i \in 1 .. l : k = p[i]
                \/ u[k].calls = {} /\ u[k].results = {} /\ MessageFormed(u[k], n)
    <3>1. CASE k = l
      BY <2>3, <2>4, <2>11, <3>1
    <3>2. CASE k = l + 1
      <4>1. l \in 1 .. l
        BY <2>1
      <4> QED BY <2>14, <3>2, <4>1
    <3>3. CASE k \in 1 .. l - 1
      <4>1. k \in 1 .. l
        BY <2>1, <3>3
      <4> QED BY <2>14, <3>3, <4>1
    <3> QED BY <2>1, <3>1, <3>2, <3>3
  <2>19. Embeds(u, p, s, n)
    BY <2>1, <2>10, <2>16, <2>17, <2>18 DEF Embeds
  <2> QED BY <2>10, <2>19, SoundEmbedded
<1> QED BY <1>1, <1>2

(* Microcompaction clears results only, and no recent one.                 *)
LEMMA SoundMicro ==
  ASSUME NEW n \in Nat, NEW s \in Seq(Messages), Sound(s, n), eligible \subseteq Calls,
         Recent(s, eligible), NEW t \in Microcompacted(s)
  PROVE  t \in Seq(Messages) /\ Sound(t, n) /\ Recent(t, eligible)
<1> DEFINE ids  == CallsIn(s) \cap eligible
           kept == LastCalls(ids, KeepRecent)
<1>1. collectCompactableToolIDs(s) = ids
  <2>1. DOMAIN s = 1 .. Len(s)
    OBVIOUS
  <2> QED BY <2>1 DEF collectCompactableToolIDs, CallsIn
<1>2. PICK l \in Nat : l = Len(s)
  OBVIOUS
<1>3. CASE t = s
  BY <1>3
<1>4. CASE t # s
  <2>1. t = [i \in 1 .. l |-> [s[i] EXCEPT !.cleared = @ \cup (s[i].results \ kept)]]
    <3>1. t = applyTimeBasedMicrocompact(s) /\ DOMAIN s = 1 .. l
      BY <1>2, <1>4 DEF Microcompacted
    <3>2. applyTimeBasedMicrocompact(s) # s
      BY <1>4, <3>1
    <3>3. applyTimeBasedMicrocompact(s) =
            IF Cardinality(ids) <= KeepRecent THEN s
            ELSE [i \in DOMAIN s |-> [s[i] EXCEPT !.cleared = @ \cup (s[i].results \ kept)]]
      BY <1>1, Zenon DEF applyTimeBasedMicrocompact
    <3> QED BY <3>1, <3>2, <3>3
  <2> HIDE DEF ids, kept
  <2>2. ASSUME NEW i \in 1 .. l
        PROVE  /\ t[i] \in Messages /\ t[i].role = s[i].role /\ t[i].mark = s[i].mark
               /\ t[i].text = s[i].text /\ t[i].calls = s[i].calls /\ t[i].results = s[i].results
               /\ t[i].cleared = s[i].cleared \cup (s[i].results \ kept)
    <3>1. PICK m \in Messages : m = s[i]
      BY <1>2
    <3>2. PICK v : v = m.cleared \cup (m.results \ kept)
      OBVIOUS
    <3>3. v \in SUBSET Calls
      BY <3>2, FieldsTyped
    <3>4. t[i] = [m EXCEPT !.cleared = v]
      BY <2>1, <3>1, <3>2
    <3>5. t[i] = Fields(m.role, m.mark, m.text, m.calls, m.results, v, m.usage)
      BY <3>3, <3>4, SetCleared
    <3>6. /\ t[i] \in Messages /\ t[i].role = m.role /\ t[i].mark = m.mark /\ t[i].text = m.text
          /\ t[i].calls = m.calls /\ t[i].results = m.results /\ t[i].cleared = v
      BY <3>3, <3>5, FieldsTyped, FieldsMessage
    <3> QED BY <3>1, <3>2, <3>6
  <2>3. t \in Seq(Messages) /\ Len(t) = l
    <3>1. t = [i \in 1 .. l |-> t[i]]
      BY <2>1
    <3>2. t \in [1 .. l -> Messages]
      BY <2>2, <3>1
    <3> QED BY <3>2
  <2>4. Rewritten(s, t)
    BY <1>2, <2>2, <2>3 DEF Rewritten, Sound, Formed, MessageFormed
  <2>5. Sound(t, n) /\ CallsIn(t) = CallsIn(s)
    BY <2>3, <2>4, SoundRewritten
  <2>6. ASSUME NEW i \in 1 .. l, NEW c \in t[i].cleared \cap eligible
        PROVE  Cardinality({d \in ids : d > c}) >= KeepRecent
    <3>1. CASE c \in s[i].cleared
      BY <1>2, <2>6, <3>1 DEF Recent, ids
    <3>2. CASE c \in s[i].results /\ c \notin kept
      <4>1. PICK j \in 1 .. Len(s) : s[i].results \subseteq s[j].calls
        BY <1>2, <3>2, ResultCalled DEF Answers
      <4>2. c \in ids
        BY <2>6, <3>2, <4>1 DEF ids, CallsIn
      <4>3. ~(Cardinality({d \in ids : d > c}) < KeepRecent)
        BY <3>2, <4>2 DEF kept, LastCalls
      <4>4. Cardinality({d \in ids : d > c}) \in Nat
        <5>1. {d \in ids : d > c} \subseteq Calls
          BY CallsTyped DEF ids
        <5> QED BY <5>1, FiniteCalls
      <4> QED BY <4>3, <4>4, CompactionAssumption
    <3> QED BY <2>2, <2>6, <3>1, <3>2
  <2>7. Recent(t, eligible)
    BY <2>3, <2>5, <2>6 DEF Recent, ids
  <2> QED BY <2>3, <2>5, <2>7
<1> QED BY <1>3, <1>4

-----------------------------------------------------------------------------
(* Session-memory compaction: what is left of a history from message first *)
(* on, if that has the calls of its results and none of either is taken    *)
(* out.                                                                    *)

Selects(t, pos, s, first) ==
  /\ \A k \in 1 .. Len(t) : pos[k] \in first .. Len(s) /\ t[k] = s[pos[k]]
  /\ \A k, l \in 1 .. Len(t) : k < l => pos[k] < pos[l]
  /\ \A i \in first .. Len(s) :
       s[i].calls # {} \/ s[i].results # {} => \E k \in 1 .. Len(t) : pos[k] = i

LEMMA SoundSelected ==
  ASSUME NEW n \in Nat, NEW s \in Seq(Messages), Sound(s, n), NEW t \in Seq(Messages), NEW pos,
         NEW first \in Nat \ {0}, Selects(t, pos, s, first), PairedFrom(s, first, first),
         NEW el, Recent(s, el)
  PROVE  Sound(t, n) /\ Recent(t, el)
<1>1. PICK l, h \in Nat : l = Len(s) /\ h = Len(t)
  OBVIOUS
<1>2. ASSUME NEW k \in 1 .. h
      PROVE  /\ pos[k] \in first .. l /\ pos[k] \in 1 .. l /\ t[k] = s[pos[k]]
             /\ \A j \in 1 .. h : (k < j <=> pos[k] < pos[j]) /\ (pos[j] = pos[k] => j = k)
  <2>1. pos[k] \in first .. l /\ t[k] = s[pos[k]]
    BY <1>1 DEF Selects
  <2>2. ASSUME NEW j \in 1 .. h
        PROVE  /\ k < j => pos[k] < pos[j]
               /\ j < k => pos[j] < pos[k]
               /\ pos[j] \in first .. l
    BY <1>1 DEF Selects
  <2>3. ASSUME NEW j \in 1 .. h
        PROVE  (k < j <=> pos[k] < pos[j]) /\ (pos[j] = pos[k] => j = k)
    <3>1. k < j \/ j < k \/ j = k
      BY <1>1
    <3>2. pos[j] \in Int /\ pos[k] \in Int
      BY <1>1, <2>1, <2>2
    <3> QED BY <2>2, <3>1, <3>2
  <2> QED BY <1>1, <2>1, <2>3
<1>3. Formed(t, n)
  BY <1>1, <1>2 DEF Sound, Formed
<1>4. ASSUME NEW k \in 1 .. h, t[k].results # {}
      PROVE  \E j \in 1 .. h : j < k /\ Answers(t, k, j)
  <2>1. PICK i \in first .. l : i = pos[k]
    BY <1>2
  <2>2. i \in 1 .. l /\ t[k] = s[i] /\ first <= i
    BY <1>1, <1>2, <1>4, <2>1
  <2>3. PICK y \in 1 .. l : first <= y /\ y < i /\ Answers(s, i, y)
    <3>1. Answered(s, i, first)
      BY <1>1, <1>4, <2>2 DEF PairedFrom
    <3> QED BY <1>1, <3>1 DEF Answered
  <2>4. y \in first .. l /\ s[y].calls # {}
    BY <1>1, <1>4, <2>2, <2>3 DEF Answers
  <2>5. PICK j \in 1 .. h : pos[j] = y
    BY <1>1, <2>4 DEF Selects
  <2>6. j < k /\ t[j] = s[y]
    BY <1>2, <2>1, <2>3, <2>5
  <2>7. ASSUME NEW x \in 1 .. h, j < x, x < k
        PROVE  t[x].calls = {} /\ t[x].results = {}
    <3>1. y < pos[x] /\ pos[x] < i /\ pos[x] \in 1 .. l /\ t[x] = s[pos[x]]
      BY <1>2, <2>1, <2>5, <2>7
    <3> QED BY <1>1, <2>3, <3>1 DEF Answers, Quiet
  <2>8. Answers(t, k, j)
    BY <1>1, <2>2, <2>3, <2>6, <2>7 DEF Answers, Quiet
  <2> QED BY <2>6, <2>8
<1>5. Paired(t)
  <2>1. \A k \in 1 .. h : t[k].results # {} => Answered(t, k, 1)
    <3>1. \A j \in 1 .. h : 1 <= j
      OBVIOUS
    <3> QED BY <1>1, <1>4, <3>1 DEF Answered
  <2> QED BY <1>1, <2>1 DEF Paired, PairedFrom
<1>6. InOrder(t)
  BY <1>1, <1>2 DEF Sound, InOrder
<1>7. ASSUME NEW k \in 1 .. h, NEW c \in t[k].cleared \cap el
      PROVE  Cardinality({d \in CallsIn(t) \cap el : d > c}) >= KeepRecent
  <2>1. PICK i \in 1 .. l : i = pos[k] /\ t[k] = s[i]
    BY <1>2
  <2>2. c \in t[k].results
    BY <1>1, <1>7, <2>1 DEF Sound, Formed, MessageFormed
  <2>3. PICK x \in 1 .. h : c \in t[x].calls
    BY <1>4, <2>2 DEF Answers
  <2>4. PICK y \in 1 .. l : c \in s[y].calls /\ y \in first .. l
    BY <1>2, <2>3
  <2>5. {d \in CallsIn(s) \cap el : d > c} \subseteq {d \in CallsIn(t) \cap el : d > c}
    <3> SUFFICES ASSUME NEW j \in 1 .. l, NEW d \in s[j].calls, d > c
                 PROVE  d \in CallsIn(t)
      BY <1>1 DEF CallsIn
    <3>1. s[j] \in Messages /\ s[y] \in Messages
      BY <1>1
    <3>2. c \in Int /\ d \in Int
      BY <2>4, <3>1, FieldsTyped DEF Calls
    <3>3. ~(j < y)
      <4>1. j < y => d < c
        BY <1>1, <2>4 DEF Sound, InOrder
      <4> QED BY <3>2, <4>1
    <3>4. j \in first .. l
      BY <1>1, <2>4, <3>3
    <3>5. PICK m \in 1 .. h : pos[m] = j
      BY <1>1, <3>4 DEF Selects
    <3>6. d \in t[m].calls
      BY <1>2, <3>5
    <3> QED BY <1>1, <3>6 DEF CallsIn
  <2>6. Cardinality({d \in CallsIn(s) \cap el : d > c}) >= KeepRecent
    BY <1>1, <1>7, <2>1 DEF Recent
  <2>7. PICK S, T : S = {d \in CallsIn(s) \cap el : d > c} /\ T = {d \in CallsIn(t) \cap el : d > c}
    OBVIOUS
  <2>8. S \subseteq T /\ T \subseteq Calls
    BY <2>5, <2>7, CallsTyped
  <2>9. Cardinality(S) <= Cardinality(T) /\ Cardinality(S) \in Nat /\ Cardinality(T) \in Nat
    BY <2>8, MoreCalls, FiniteCalls
  <2> QED BY <2>6, <2>7, <2>9, CompactionAssumption
<1>8. Recent(t, el)
  BY <1>1, <1>7 DEF Recent
<1> QED BY <1>3, <1>5, <1>6, <1>8 DEF Sound

(* A boundary and a summary come before it.                                *)
LEMMA SoundPrefixed ==
  ASSUME NEW n \in Nat, NEW t \in Seq(Messages), Sound(t, n), NEW el, Recent(t, el),
         NEW u, u = <<Boundary, Summary>> \o t
  PROVE  u \in Seq(Messages) /\ Sound(u, n) /\ Recent(u, el)
<1>1. PICK h \in Nat : h = Len(t)
  OBVIOUS
<1>2. PICK a, b : a = Boundary /\ b = Summary
  OBVIOUS
<1>3. /\ a \in Messages /\ a.role = "system" /\ a.mark = "boundary" /\ a.calls = {}
      /\ a.results = {} /\ a.cleared = {}
      /\ b \in Messages /\ b.role = "user" /\ b.mark = "summary" /\ b.text = TRUE /\ b.calls = {}
      /\ b.results = {} /\ b.cleared = {}
  BY <1>2, ConstructedAre DEF Is
<1>4. /\ u \in Seq(Messages) /\ Len(u) = h + 2 /\ u[1] = a /\ u[2] = b
      /\ \A k \in 1 .. h : u[k + 2] = t[k]
  BY <1>1, <1>2, <1>3
<1>5. MessageFormed(a, n) /\ MessageFormed(b, n)
  BY <1>3 DEF MessageFormed
<1>6. PICK p : p = [k \in 1 .. h |-> k + 2]
  OBVIOUS
<1>7. \A k \in 1 .. h : p[k] = k + 2 /\ p[k] \in 1 .. h + 2
  BY <1>1, <1>6
<1>8. ASSUME NEW k \in 1 .. h + 2
      PROVE  k = 1 \/ k = 2 \/ \E i \in 1 .. h : k = p[i]
  <2>1. k > 2 => k - 2 \in 1 .. h /\ k = (k - 2) + 2
    BY <1>1
  <2> QED BY <1>1, <1>7, <2>1
<1>9. Embeds(u, p, t, n)
  <2>1. \A k \in 1 .. h : p[k] \in 1 .. h + 2 /\ u[p[k]] = t[k]
    BY <1>4, <1>7
  <2>2. \A i, j \in 1 .. h : i < j => p[i] < p[j]
    BY <1>1, <1>7
  <2>3. \A k \in 1 .. h + 2 : \/ \E i \in 1 .. h : k = p[i]
                              \/ u[k].calls = {} /\ u[k].results = {} /\ MessageFormed(u[k], n)
    BY <1>3, <1>4, <1>5, <1>8
  <2> QED BY <1>1, <1>4, <2>1, <2>2, <2>3 DEF Embeds
<1> QED BY <1>4, <1>9, SoundEmbedded

(* A tail with one message more is long enough if it was before.           *)
LEMMA EnoughGrows ==
  ASSUME NEW s \in Seq(Messages), NEW i \in 2 .. Len(s), EnoughKept(s, i)
  PROVE  EnoughKept(s, i - 1)
<1>1. PICK a, b : a = Suffix(s, i) /\ b = Suffix(s, i - 1)
  OBVIOUS
<1>2. a \in Seq(Messages) /\ b \in Seq(Messages)
  BY <1>1 DEF Suffix
<1>3. PICK x, y \in Nat : x = EstimateMessageTokens(a) /\ y = EstimateMessageTokens(b)
  BY <1>2, EstimateNat
<1>4. x <= y
  BY <1>1, <1>3, EstimateGrows
<1>5. PICK S, T : S = {j \in i .. Len(s) : s[j].text} /\ T = {j \in (i - 1) .. Len(s) : s[j].text}
  OBVIOUS
<1>6. S \subseteq T /\ T \subseteq 1 .. Len(s)
  BY <1>5
<1>7. IsFiniteSet(1 .. Len(s))
  BY FS_Interval
<1>8. IsFiniteSet(T) /\ Cardinality(S) <= Cardinality(T)
      /\ Cardinality(S) \in Nat /\ Cardinality(T) \in Nat
  BY <1>6, <1>7, FS_Subset, FS_CardinalityType
<1>9. x >= MaxTokens \/ (x >= MinTokens /\ Cardinality(S) >= MinTexts)
  BY <1>1, <1>3, <1>5 DEF EnoughKept
<1>10. y >= MaxTokens \/ (y >= MinTokens /\ Cardinality(T) >= MinTexts)
  BY <1>3, <1>4, <1>8, <1>9, CompactionAssumption
<1> QED BY <1>1, <1>3, <1>5, <1>10 DEF EnoughKept

LEMMA EnoughLonger ==
  ASSUME NEW s \in Seq(Messages), NEW a \in 1 .. Len(s), EnoughKept(s, a), NEW j \in 1 .. a
  PROVE  EnoughKept(s, j)
<1>1. PICK h \in Nat : h = a - 1
  OBVIOUS
<1> DEFINE T == {m \in 0 .. h : EnoughKept(s, a - m)}
<1>2. 0 \in T
  <2>1. a - 0 = a /\ 0 \in 0 .. h
    BY <1>1
  <2> QED BY <2>1
<1>3. ASSUME NEW m \in 1 .. h, m - 1 \in T
      PROVE  m \in T
  <2>1. PICK i \in 2 .. Len(s) : i = a - (m - 1) /\ i - 1 = a - m
    BY <1>1
  <2>2. EnoughKept(s, i - 1)
    BY <1>3, <2>1, EnoughGrows
  <2> QED BY <2>1, <2>2
<1>4. \A m \in 1 .. h : m - 1 \in T => m \in T
  BY <1>3
<1> HIDE DEF T
<1>5. \A m \in 0 .. h : m \in T
  BY <1>2, <1>4, Induct
<1>6. a - j \in 0 .. h /\ a - (a - j) = j
  BY <1>1
<1>7. a - j \in T
  BY <1>5, <1>6
<1>8. EnoughKept(s, a - (a - j))
  BY <1>7 DEF T
<1> QED BY <1>6, <1>8

(* A call is made once.                                                    *)
LEMMA CalledOnce ==
  ASSUME NEW n \in Nat, NEW s \in Seq(Messages), Sound(s, n), NEW i \in 1 .. Len(s),
         NEW j \in 1 .. Len(s), NEW c, c \in s[i].calls, c \in s[j].calls
  PROVE  i = j
<1>1. c \in Nat
  <2>1. MessageFormed(s[i], n)
    BY DEF Sound, Formed
  <2> QED BY <2>1 DEF MessageFormed
<1>2. ~(i < j) /\ ~(j < i)
  BY <1>1 DEF Sound, InOrder
<1> QED BY <1>2

(* The tail from x on has the calls of its results.                        *)
LEMMA ClosedAt ==
  ASSUME NEW n \in Nat, NEW s \in Seq(Messages), Sound(s, n), NEW x \in 1 .. Len(s)
  PROVE  TailClosed(s, x) <=> PairedFrom(s, x, x)
<1>1. PICK l \in Nat : l = Len(s)
  OBVIOUS
<1>2. ASSUME PairedFrom(s, x, x), NEW j \in x .. l, NEW c \in s[j].results
      PROVE  \E k \in x .. j - 1 : c \in s[k].calls
  <2>1. j \in 1 .. l /\ x <= j
    BY <1>1
  <2>2. Answered(s, j, x)
    BY <1>1, <1>2, <2>1 DEF PairedFrom
  <2>3. PICK k \in 1 .. l : x <= k /\ k < j /\ c \in s[k].calls
    BY <1>1, <2>2 DEF Answered, Answers
  <2>4. k \in x .. j - 1
    BY <1>1, <2>3
  <2> QED BY <2>3, <2>4
<1>3. ASSUME TailClosed(s, x), NEW i \in 1 .. l, x <= i, s[i].results # {}
      PROVE  Answered(s, i, x)
  <2>1. PICK j \in 1 .. l : j < i /\ Answers(s, i, j)
    BY <1>1, <1>3, ResultCalled
  <2>2. PICK c : c \in s[i].results
    BY <1>3
  <2>3. i \in x .. Len(s)
    BY <1>1, <1>3
  <2>4. PICK k \in x .. i - 1 : c \in s[k].calls
    BY <1>3, <2>2, <2>3 DEF TailClosed
  <2>5. k \in 1 .. l /\ x <= k
    BY <1>1
  <2>6. k = j
    BY <1>1, <2>1, <2>2, <2>4, <2>5, CalledOnce DEF Answers
  <2> QED BY <1>1, <2>1, <2>5, <2>6 DEF Answered
<1>4. PairedFrom(s, x, x) => TailClosed(s, x)
  BY <1>1, <1>2 DEF TailClosed
<1>5. TailClosed(s, x) => PairedFrom(s, x, x)
  BY <1>1, <1>3 DEF PairedFrom
<1> QED BY <1>4, <1>5

(* The index moves back over all that stands between results and their     *)
(* calls, and no further: calls of two messages never wait for their       *)
(* results at once.                                                        *)
AdjustedTo(s, x, k) ==
  \/ PairedFrom(s, x, x) /\ k = x
  \/ \E i \in x .. Len(s), j \in 1 .. x - 1 : s[i].results # {} /\ Answers(s, i, j) /\ k = j

LEMMA AdjustIs ==
  ASSUME NEW n \in Nat, NEW s \in Seq(Messages), Sound(s, n), NEW x \in 1 .. Len(s)
  PROVE  AdjustedTo(s, x, adjustIndexToPreserveAPIInvariants(s, x))
<1>1. PICK l \in Nat : l = Len(s)
  OBVIOUS
<1> DEFINE results == UNION {s[i].results : i \in x .. l}
           uses    == UNION {s[i].calls : i \in x .. l}
           needed  == results \ uses
           found   == {x} \cup {i \in 1 .. x - 1 : s[i].calls \cap needed # {}}
<1>2. adjustIndexToPreserveAPIInvariants(s, x) = Min(found)
  BY <1>1 DEF adjustIndexToPreserveAPIInvariants
<1>3. x \in 1 .. l
  BY <1>1
<1>4. ASSUME NEW c \in needed
      PROVE  /\ \E i \in x .. l : c \in s[i].results
             /\ \A i \in x .. l : c \notin s[i].calls
  OBVIOUS
<1>5. ASSUME NEW c, NEW i \in x .. l, c \in s[i].results, \A k \in x .. l : c \notin s[k].calls
      PROVE  c \in needed
  BY <1>5
<1> HIDE DEF results, uses, needed
<1>6. found \subseteq Nat /\ found # {} /\ x \in found
  BY <1>3
<1>7. PICK m : m = Min(found) /\ m \in found /\ \A y \in found : m <= y
  <2> HIDE DEF found
  <2> QED BY <1>6, MinIs
<1>8. CASE PairedFrom(s, x, x)
  <2>1. ASSUME NEW c \in needed PROVE FALSE
    <3>1. PICK i \in x .. l : c \in s[i].results
      BY <1>4
    <3>2. i \in 1 .. l /\ x <= i
      BY <1>3
    <3>3. Answered(s, i, x)
      BY <1>1, <1>8, <3>1, <3>2 DEF PairedFrom
    <3>4. PICK j \in 1 .. l : x <= j /\ c \in s[j].calls
      BY <1>1, <3>1, <3>3 DEF Answered, Answers
    <3>5. j \in x .. l
      BY <1>3, <3>4
    <3> QED BY <1>4, <3>4, <3>5
  <2>2. found = {x}
    BY <2>1
  <2> QED BY <1>2, <1>7, <1>8, <2>2 DEF AdjustedTo
<1>9. CASE ~PairedFrom(s, x, x)
  <2>1. PICK i \in 1 .. l : x <= i /\ s[i].results # {} /\ ~Answered(s, i, x)
    BY <1>1, <1>9 DEF PairedFrom
  <2>2. PICK j \in 1 .. l : j < i /\ Answers(s, i, j)
    BY <1>1, <2>1, ResultCalled
  <2>3. ~(x <= j)
    BY <1>1, <2>1, <2>2 DEF Answered
  <2>4. i \in x .. l /\ j \in 1 .. x - 1 /\ j < x
    BY <1>3, <2>1, <2>3
  <2>5. PICK c : c \in s[i].results /\ c \in s[j].calls
    BY <2>1, <2>2 DEF Answers
  <2>6. \A k \in x .. l : c \notin s[k].calls
    <3> SUFFICES ASSUME NEW k \in x .. l, c \in s[k].calls PROVE FALSE
      OBVIOUS
    <3>1. k \in 1 .. l
      BY <1>3
    <3>2. k = j
      BY <1>1, <2>5, <3>1, CalledOnce
    <3> QED BY <1>3, <2>4, <3>2
  <2>7. c \in needed
    BY <1>5, <2>4, <2>5, <2>6
  <2>8. j \in found
    BY <2>4, <2>5, <2>7
  <2>9. ASSUME NEW y \in found, y # x
        PROVE  y = j
    <3>1. y \in 1 .. x - 1 /\ y \in 1 .. l /\ y < x
      BY <1>3, <2>9
    <3>2. PICK d : d \in s[y].calls /\ d \in needed
      BY <2>9
    <3>3. PICK z \in x .. l : d \in s[z].results
      BY <1>4, <3>2
    <3>4. z \in 1 .. l /\ x <= z
      BY <1>3
    <3>5. PICK w \in 1 .. l : w < z /\ Answers(s, z, w)
      BY <1>1, <3>3, <3>4, ResultCalled
    <3>6. w = y
      BY <1>1, <3>1, <3>2, <3>3, <3>5, CalledOnce DEF Answers
    <3>7. ~(j < y)
      <4>1. j < y => s[y].calls = {}
        BY <1>1, <1>3, <2>1, <2>2, <3>1 DEF Answers, Quiet
      <4> QED BY <3>2, <4>1
    <3>8. ~(y < j)
      <4>1. y < j => s[j].calls = {}
        BY <1>1, <1>3, <2>4, <3>4, <3>5, <3>6 DEF Answers, Quiet
      <4> QED BY <2>5, <4>1
    <3> QED BY <3>1, <3>7, <3>8
  <2>10. m = j
    BY <1>3, <1>7, <2>4, <2>8, <2>9
  <2> QED BY <1>1, <1>2, <1>7, <2>1, <2>2, <2>4, <2>10 DEF AdjustedTo
<1> QED BY <1>8, <1>9

(* The tail that is kept, in the words of ShortestTail.                    *)
GoodTails(s) == {i \in DOMAIN s : EnoughKept(s, i) /\ TailClosed(s, i)}

LEMMA KeepIndex ==
  ASSUME NEW n \in Nat, NEW s \in Seq(Messages), Sound(s, n),
         NEW k, k = calculateMessagesToKeepIndex(s)
  PROVE  /\ k \in Nat \ {0} /\ k = Max({1} \cup GoodTails(s))
         /\ s = <<>> => k = 1
         /\ s # <<>> => k \in 1 .. Len(s) /\ PairedFrom(s, k, k)
<1>1. PICK l, h \in Nat : l = Len(s) /\ DOMAIN s = 1 .. l /\ h = l + 1
  OBVIOUS
<1> DEFINE long == {1} \cup {i \in DOMAIN s : EnoughKept(s, i)}
           good == {1} \cup GoodTails(s)
<1>2. long \subseteq 0 .. h /\ long # {} /\ good \subseteq 0 .. h /\ good # {}
  BY <1>1 DEF GoodTails
<1>3. PICK a : a = Max(long) /\ a \in long /\ \A y \in long : y <= a
  <2> HIDE DEF long
  <2>1. long \subseteq 0 .. h /\ long # {}
    BY <1>2
  <2>2. Max(long) \in long /\ \A y \in long : y <= Max(long)
    BY <2>1, MaxIs
  <2> QED BY <2>2
<1>4. PICK b : b = Max(good) /\ b \in good /\ \A y \in good : y <= b
  <2> HIDE DEF good
  <2>1. good \subseteq 0 .. h /\ good # {}
    BY <1>2
  <2>2. Max(good) \in good /\ \A y \in good : y <= Max(good)
    BY <2>1, MaxIs
  <2> QED BY <2>2
<1>5. k = adjustIndexToPreserveAPIInvariants(s, a)
  BY <1>3 DEF calculateMessagesToKeepIndex
<1>6. CASE s = <<>>
  <2>1. long = {1} /\ good = {1}
    BY <1>6 DEF GoodTails
  <2>2. a = 1 /\ b = 1
    BY <1>3, <1>4, <2>1
  <2> DEFINE results == UNION {s[i].results : i \in a .. Len(s)}
             uses    == UNION {s[i].calls : i \in a .. Len(s)}
             found   == {a} \cup {i \in 1 .. a - 1 : s[i].calls \cap (results \ uses) # {}}
  <2>3. k = Min(found)
    BY <1>5 DEF adjustIndexToPreserveAPIInvariants
  <2>4. found = {1}
    <3> HIDE DEF results, uses
    <3> QED BY <2>2
  <2> HIDE DEF found
  <2>5. {1} \subseteq Nat /\ {1} # {}
    OBVIOUS
  <2>6. Min(found) \in {1}
    BY <2>4, <2>5, MinIs
  <2>7. k = 1
    BY <2>3, <2>6
  <2>8. k = Max(good)
    BY <1>4, <2>2, <2>7
  <2> QED BY <1>6, <2>7, <2>8
<1>7. CASE s # <<>>
  <2>1. a \in 1 .. l /\ b \in 1 .. l
    BY <1>1, <1>3, <1>4, <1>7 DEF GoodTails
  <2>2. AdjustedTo(s, a, k)
    BY <1>1, <1>5, <2>1, AdjustIs
  <2>3. PairedFrom(s, b, b)
    <3>1. PairedFrom(s, 1, 1)
      BY DEF Sound, Paired
    <3>2. ASSUME NEW i \in GoodTails(s) PROVE PairedFrom(s, i, i)
      BY <1>1, ClosedAt DEF GoodTails
    <3> QED BY <1>4, <3>1, <3>2
  <2>4. b <= a
    BY <1>3, <1>4 DEF GoodTails
  <2>5. ASSUME NEW i \in 1 .. a, i = 1 \/ PairedFrom(s, i, i)
        PROVE  i <= b
    <3>1. i \in 1 .. l /\ i \in DOMAIN s
      BY <1>1, <2>1
    <3>2. i # 1 => EnoughKept(s, a)
      BY <1>3, <2>1
    <3>3. i # 1 => EnoughKept(s, i)
      BY <1>1, <2>1, <3>2, EnoughLonger
    <3>4. i # 1 => TailClosed(s, i)
      BY <1>1, <2>5, <3>1, ClosedAt
    <3>5. i \in good
      BY <3>1, <3>3, <3>4 DEF GoodTails
    <3> QED BY <1>4, <3>5
  <2>6. CASE PairedFrom(s, a, a) /\ k = a
    <3>1. a \in 1 .. a
      BY <2>1
    <3>2. a <= b
      BY <2>5, <2>6, <3>1
    <3>3. k = b
      BY <2>1, <2>4, <2>6, <3>2
    <3> QED BY <1>1, <1>4, <1>7, <2>1, <2>6, <3>3
  <2>7. CASE \E i \in a .. l, j \in 1 .. a - 1 : s[i].results # {} /\ Answers(s, i, j) /\ k = j
    <3>1. PICK i \in a .. l, j \in 1 .. a - 1 : s[i].results # {} /\ Answers(s, i, j) /\ k = j
      BY <2>7
    <3>2. i \in 1 .. l /\ j \in 1 .. l /\ j \in 1 .. a /\ j < i
      BY <2>1
    <3>3. PICK c : c \in s[i].results /\ c \in s[j].calls
      BY <3>1 DEF Answers
    <3>4. ASSUME NEW y \in 1 .. l, j <= y, s[y].results # {}
          PROVE  Answered(s, y, j)
      <4>1. PICK z \in 1 .. l : z < y /\ Answers(s, y, z)
        BY <1>1, <3>4, ResultCalled
      <4>2. y # j
        <5>1. MessageFormed(s[j], n)
          BY <1>1, <3>2 DEF Sound, Formed
        <5>2. s[j].results = {}
          BY <3>3, <5>1 DEF MessageFormed
        <5> QED BY <3>4, <5>2
      <4>3. ~(z < j)
        <5>1. j < y
          BY <1>1, <3>2, <3>4, <4>2
        <5>2. z < j => s[j].calls = {}
          BY <1>1, <3>2, <4>1, <5>1 DEF Answers, Quiet
        <5> QED BY <3>3, <5>2
      <4>4. j <= z
        BY <3>2, <4>3
      <4> QED BY <1>1, <4>1, <4>4 DEF Answered
    <3>5. PairedFrom(s, j, j)
      BY <1>1, <3>4 DEF PairedFrom
    <3>6. j <= b
      BY <2>5, <3>2, <3>5
    <3>7. b <= j
      <4>1. b <= i
        BY <2>1, <2>4
      <4>2. Answered(s, i, b)
        BY <1>1, <2>3, <3>1, <3>2, <4>1 DEF PairedFrom
      <4>3. PICK y \in 1 .. l : b <= y /\ c \in s[y].calls
        BY <1>1, <3>3, <4>2 DEF Answered, Answers
      <4>4. y = j
        BY <1>1, <3>2, <3>3, <4>3, CalledOnce
      <4> QED BY <4>3, <4>4
    <3>8. k = b
      BY <2>1, <3>1, <3>2, <3>6, <3>7
    <3> QED BY <1>1, <1>4, <1>7, <2>1, <2>3, <3>8
  <2> QED BY <1>1, <2>2, <2>6, <2>7 DEF AdjustedTo
<1> QED BY <1>6, <1>7

(* The history of CompactWithMemory.                                       *)
LEMMA SoundSession ==
  ASSUME NEW n \in Nat, NEW s \in Seq(Messages), Sound(s, n), NEW el, Recent(s, el)
  PROVE  /\ TrySessionMemoryCompaction(s) \in Seq(Messages)
         /\ Sound(TrySessionMemoryCompaction(s), n) /\ Recent(TrySessionMemoryCompaction(s), el)
<1>1. PICK k, r, keep : /\ k = calculateMessagesToKeepIndex(s) /\ r = Suffix(s, k)
                        /\ keep = {m \in Range(s) : ~isCompactBoundaryMessage(m)}
  OBVIOUS
<1>2. PICK l \in Nat : l = Len(s)
  OBVIOUS
<1>3. k \in Nat \ {0} /\ (s = <<>> => k = 1) /\ (s # <<>> => k \in 1 .. Len(s) /\ PairedFrom(s, k, k))
  BY <1>1, KeepIndex
<1>4. k <= l + 1
  BY <1>2, <1>3
<1>5. PICK h \in Nat : h = l - k + 1
  BY <1>3, <1>4
<1>6. r \in Seq(Messages) /\ Len(r) = h /\ \A j \in 1 .. h : r[j] = s[j + k - 1]
  <2>1. k \in Nat \ {0} /\ h = Len(s) - k + 1
    BY <1>2, <1>3, <1>5
  <2>2. /\ Suffix(s, k) \in Seq(Messages) /\ Len(Suffix(s, k)) = h
        /\ \A j \in 1 .. h : Suffix(s, k)[j] = s[j + k - 1]
    BY <2>1, SuffixIs
  <2> QED BY <1>1, <2>2
<1>7. PICK t, q : t = Kept(r, keep) /\ t \in Seq(Messages) /\ Places(t, q, r, h, keep)
  BY <1>6, KeptPlaces
<1>8. PICK g \in Nat : g = Len(t)
  BY <1>7
<1>9. PICK pos : pos = [j \in 1 .. g |-> q[j] + k - 1]
  OBVIOUS
<1>10. ASSUME NEW j \in 1 .. g
       PROVE  pos[j] = q[j] + k - 1 /\ q[j] \in 1 .. h /\ pos[j] \in k .. l /\ t[j] = s[pos[j]]
  <2>1. q[j] \in 1 .. h /\ t[j] = r[q[j]]
    BY <1>7, <1>8 DEF Places
  <2>2. pos[j] = q[j] + k - 1
    BY <1>9
  <2>3. pos[j] \in k .. l
    BY <1>3, <1>5, <2>1, <2>2
  <2> QED BY <1>6, <2>1, <2>2, <2>3
<1>11. ASSUME NEW i \in 1 .. g, NEW j \in 1 .. g, i < j
       PROVE  pos[i] < pos[j]
  <2>1. q[i] < q[j]
    BY <1>7, <1>8, <1>11 DEF Places
  <2>2. /\ q[i] \in 1 .. h /\ q[j] \in 1 .. h
        /\ pos[i] = q[i] + k - 1 /\ pos[j] = q[j] + k - 1
    BY <1>10
  <2> QED BY <1>3, <2>1, <2>2
<1>12. ASSUME NEW i \in k .. l, s[i].calls # {} \/ s[i].results # {}
       PROVE  \E j \in 1 .. g : pos[j] = i
  <2>1. i \in 1 .. l /\ i - k + 1 \in 1 .. h /\ (i - k + 1) + k - 1 = i
    BY <1>3, <1>5
  <2>2. MessageFormed(s[i], n)
    BY <1>2, <2>1 DEF Sound, Formed
  <2>3. s[i].role # "system"
    BY <1>12, <2>2 DEF MessageFormed
  <2>4. s[i] \in Range(s)
    BY <1>2, <2>1 DEF Range
  <2>5. r[i - k + 1] = s[i]
    BY <1>6, <2>1
  <2>6. r[i - k + 1] \in keep
    BY <1>1, <2>3, <2>4, <2>5 DEF isCompactBoundaryMessage
  <2>7. PICK j \in 1 .. g : q[j] = i - k + 1
    BY <1>7, <1>8, <2>1, <2>6 DEF Places
  <2>8. pos[j] = q[j] + k - 1
    BY <1>10
  <2> QED BY <2>1, <2>7, <2>8
<1>13. Selects(t, pos, s, k)
  BY <1>2, <1>8, <1>10, <1>11, <1>12 DEF Selects
<1>14. PairedFrom(s, k, k)
  <2>1. CASE s = <<>>
    <3>1. Len(s) = 0
      BY <2>1
    <3> QED BY <3>1 DEF PairedFrom
  <2>2. CASE s # <<>>
    BY <1>3, <2>2
  <2> QED BY <2>1, <2>2
<1>15. Sound(t, n) /\ Recent(t, el)
  BY <1>3, <1>7, <1>13, <1>14, SoundSelected
<1>16. TrySessionMemoryCompaction(s) = <<Boundary, Summary>> \o t
  BY <1>1, <1>7 DEF TrySessionMemoryCompaction
<1> QED BY <1>7, <1>15, <1>16, SoundPrefixed

(* The history of CompactConversation.                                     *)
LEMMA SoundSummary ==
  ASSUME NEW n \in Nat, NEW el
  PROVE  /\ <<Boundary, Summary>> \in Seq(Messages)
         /\ Sound(<<Boundary, Summary>>, n) /\ Recent(<<Boundary, Summary>>, el)
<1>1. PICK t, u : t = <<>> /\ u = <<Boundary, Summary>> \o t
  OBVIOUS
<1>2. t \in Seq(Messages) /\ Len(t) = 0
  BY <1>1
<1>3. Sound(t, n) /\ Recent(t, el)
  BY <1>2 DEF Sound, Formed, Paired, PairedFrom, InOrder, Recent
<1>4. u \in Seq(Messages) /\ Sound(u, n) /\ Recent(u, el)
  BY <1>1, <1>2, <1>3, SoundPrefixed
<1>5. u = <<Boundary, Summary>>
  BY <1>1
<1> QED BY <1>4, <1>5

-----------------------------------------------------------------------------
(* Every action keeps CompactionInv.                                       *)

(* The actions that change neither calls nor what is listed.               *)
LEMMA SameCounters ==
  ASSUME CompactionInv, eligible' = eligible, made' = made,
         prompts' \in 0 .. MaxPrompts, replies' \in 0 .. MaxReplies, notes' \in 0 .. MaxNotes,
         phase' \in {"idle", "top", "llm", "tools"}, tracking' \in 0 .. 1,
         QueryRuns', messages' \in Seq(Messages), msgs' \in Seq(Messages),
         Sound(messages', made), Sound(msgs', made),
         Recent(messages', eligible), Recent(msgs', eligible), RangePaired(messages', start')
  PROVE  CompactionInv'
<1>1. TypeOK'
  BY DEF CompactionInv, TypeOK, RangePaired
<1>2. Sound(messages', made') /\ Sound(msgs', made')
      /\ Recent(messages', eligible') /\ Recent(msgs', eligible')
      /\ RangePaired(messages', start')
  OBVIOUS
<1> QED BY <1>1, <1>2
        DEF CompactionInv, Sound, Formed, Paired, PairedFrom, Answered, Answers, Quiet, InOrder,
            Recent, CallsIn, MessageFormed, RangePaired

LEMMA EmptySound ==
  ASSUME NEW n \in Nat, NEW el
  PROVE  <<>> \in Seq(Messages) /\ Sound(<<>>, n) /\ Recent(<<>>, el)
BY DEF Sound, Formed, Paired, PairedFrom, InOrder, Recent

LEMMA InvParts ==
  ASSUME CompactionInv
  PROVE  /\ made \in Nat /\ made \in 0 .. MaxCalls /\ eligible \subseteq 1 .. made
         /\ eligible \subseteq Calls
         /\ messages \in Seq(Messages) /\ msgs \in Seq(Messages)
         /\ Sound(messages, made) /\ Sound(msgs, made)
         /\ Recent(messages, eligible) /\ Recent(msgs, eligible)
         /\ prompts \in 0 .. MaxPrompts /\ replies \in 0 .. MaxReplies /\ notes \in 0 .. MaxNotes
         /\ phase \in {"idle", "top", "llm", "tools"} /\ tracking \in 0 .. 1
         /\ RangePaired(messages, start) /\ start \in Nat
BY CompactionAssumption DEF CompactionInv, TypeOK, Calls

(* No record begins at 0, where all results have their calls; one that     *)
(* begins at the end has no results but those of its first message.        *)
LEMMA RangeAtEnds ==
  ASSUME NEW n \in Nat, NEW s \in Seq(Messages), Sound(s, n)
  PROVE  RangePaired(s, 0) /\ RangePaired(s, Len(s))
<1>1. PICK l \in Nat : l = Len(s)
  OBVIOUS
<1>2. PairedFrom(s, 0 + 1, 0)
  <2>1. PairedFrom(s, 1, 1)
    BY DEF Sound, Paired
  <2>2. 0 + 1 = 1 /\ \A j \in 1 .. l : 0 <= j
    OBVIOUS
  <2> QED BY <1>1, <2>1, <2>2 DEF PairedFrom, Answered
<1>3. PairedFrom(s, l + 1, l)
  <2>1. \A i \in 1 .. l : ~(l + 1 <= i)
    OBVIOUS
  <2> QED BY <1>1, <2>1 DEF PairedFrom
<1> QED BY <1>1, <1>2, <1>3 DEF RangePaired

LEMMA StartTurnKeeps ==
  ASSUME CompactionInv, StartTurn
  PROVE  CompactionInv'
<1>1. PICK r, s : r = repairOrphanToolUses(messages) /\ s = AddPrompt(r)
  OBVIOUS
<1>2. r \in Seq(Messages) /\ Sound(r, made) /\ Recent(r, eligible) /\ RangePaired(r, start)
  BY <1>1, InvParts, Repaired
<1>3. s \in Seq(Messages) /\ s # <<>> /\ Sound(s, made) /\ Recent(s, eligible)
      /\ RangePaired(s, start)
  BY <1>1, <1>2, InvParts, PromptAdded
<1>4. messages' = s /\ msgs' \in injectRelevantMemories(s) /\ phase' = "top" /\ tracking' = 0
      /\ start' = start /\ eligible' = eligible /\ made' = made /\ replies' = replies /\ notes' = notes
  BY <1>1 DEF StartTurn
<1>5. msgs' \in Seq(Messages) /\ Sound(msgs', made) /\ Recent(msgs', eligible)
  <2>1. PICK u \in injectRelevantMemories(s) : u = msgs'
    BY <1>4
  <2>2. u \in Seq(Messages) /\ Sound(u, made) /\ Recent(u, eligible)
    BY <1>3, InvParts, MemoryAdded
  <2> QED BY <2>1, <2>2
<1>6. prompts' \in 0 .. MaxPrompts
  BY InvParts, CompactionAssumption DEF StartTurn
<1>7. QueryRuns'
  BY <1>4 DEF QueryRuns
<1>8. replies' \in 0 .. MaxReplies /\ notes' \in 0 .. MaxNotes /\ tracking' \in 0 .. 1
      /\ phase' \in {"idle", "top", "llm", "tools"}
  BY <1>4, InvParts
<1>9. /\ messages' \in Seq(Messages) /\ Sound(messages', made) /\ Recent(messages', eligible)
      /\ RangePaired(messages', start')
  BY <1>3, <1>4
<1> QED BY <1>4, <1>5, <1>6, <1>7, <1>8, <1>9, SameCounters

(* A message that carries no calls and no results.                         *)
LEMMA PlainAppended ==
  ASSUME NEW n \in Nat, NEW s \in Seq(Messages), Sound(s, n), NEW el, Recent(s, el),
         NEW m \in Messages, m.calls = {}, m.results = {}, m.cleared = {}, m.mark = "none",
         m.role \in {"assistant", "system"}, NEW b, RangePaired(s, b)
  PROVE  /\ Append(s, m) \in Seq(Messages) /\ Sound(Append(s, m), n) /\ Recent(Append(s, m), el)
         /\ RangePaired(Append(s, m), b)
<1>1. MessageFormed(m, n)
  BY DEF MessageFormed
<1>2. Append(s, m) \in Seq(Messages) /\ Sound(Append(s, m), n)
  BY <1>1, SoundAppend
<1>3. el \subseteq el /\ (el \ el) \cap (1 .. n) = {}
  OBVIOUS
<1>4. Recent(Append(s, m), el)
  BY <1>3, RecentAppend
<1>5. b \in Nat /\ b + 1 \in Nat /\ b <= Len(s) /\ PairedFrom(s, b + 1, b)
  BY DEF RangePaired
<1>6. PairedFrom(Append(s, m), b + 1, b)
  BY <1>5, AppendPaired
<1>7. Len(Append(s, m)) = Len(s) + 1
  OBVIOUS
<1> QED BY <1>2, <1>4, <1>5, <1>6, <1>7 DEF RangePaired

LEMMA NotifyKeeps ==
  ASSUME CompactionInv, Notify
  PROVE  CompactionInv'
<1>1. PICK m : m = Notice
  OBVIOUS
<1>2. /\ m \in Messages /\ m.calls = {} /\ m.results = {} /\ m.cleared = {} /\ m.mark = "none"
      /\ m.role = "system"
  BY <1>1, ConstructedAre DEF Is
<1>3. PICK s : s = Append(messages, m)
  OBVIOUS
<1>4. s \in Seq(Messages) /\ Sound(s, made) /\ Recent(s, eligible) /\ RangePaired(s, start)
  BY <1>2, <1>3, InvParts, PlainAppended
<1>5. messages' = s /\ msgs' = msgs /\ phase' = phase /\ tracking' = tracking /\ start' = start
      /\ eligible' = eligible /\ made' = made /\ replies' = replies /\ prompts' = prompts
  BY <1>1, <1>3 DEF Notify
<1>6. notes' \in 0 .. MaxNotes
  BY InvParts, CompactionAssumption DEF Notify
<1>7. QueryRuns'
  <2>1. (phase = "tools") => Waiting(s, start, Last(msgs).calls)
    <3>1. CASE phase = "tools"
      <4>1. PICK C : C = Last(msgs).calls
        OBVIOUS
      <4>2. Waiting(messages, start, C)
        BY <3>1, <4>1 DEF CompactionInv, QueryRuns
      <4>3. Waiting(s, start, C)
        BY <1>2, <1>3, <4>2, InvParts, WaitingAppend
      <4> QED BY <4>1, <4>3
    <3> QED BY <3>1
  <2>2. phase = "tools" => Waiting(messages', start', Last(msgs').calls)
    BY <1>5, <2>1
  <2>3. /\ phase' # "idle" => tracking' = 0
        /\ phase' = "tools" => msgs' # <<>> /\ Last(msgs').calls # {}
    BY <1>5 DEF CompactionInv, QueryRuns, Last
  <2> QED BY <1>5, <2>2, <2>3 DEF QueryRuns, Waiting, Quiet, Last
<1>8. replies' \in 0 .. MaxReplies /\ prompts' \in 0 .. MaxPrompts /\ tracking' \in 0 .. 1
      /\ phase' \in {"idle", "top", "llm", "tools"}
  BY <1>5, InvParts
<1>9. /\ messages' \in Seq(Messages) /\ msgs' \in Seq(Messages)
      /\ Sound(messages', made) /\ Sound(msgs', made)
      /\ Recent(messages', eligible) /\ Recent(msgs', eligible)
      /\ RangePaired(messages', start')
  BY <1>4, <1>5, InvParts
<1> QED BY <1>5, <1>6, <1>7, <1>8, <1>9, SameCounters

(* A record that begins holds the last message only.                       *)
LEMMA InvokeSkillKeeps ==
  ASSUME CompactionInv, InvokeSkill
  PROVE  CompactionInv'
<1>1. messages' = messages /\ msgs' = msgs /\ phase' = phase /\ tracking' = tracking
      /\ phase = "llm" /\ start' = Len(messages) /\ eligible' = eligible /\ made' = made
      /\ prompts' = prompts /\ replies' = replies /\ notes' = notes
  BY DEF InvokeSkill, Counters
<1>2. QueryRuns'
  BY <1>1 DEF CompactionInv, QueryRuns
<1>3. /\ prompts' \in 0 .. MaxPrompts /\ replies' \in 0 .. MaxReplies /\ notes' \in 0 .. MaxNotes
      /\ phase' \in {"idle", "top", "llm", "tools"} /\ tracking' \in 0 .. 1
  BY <1>1, InvParts
<1>4. RangePaired(messages', start')
  BY <1>1, InvParts, RangeAtEnds
<1>5. /\ messages' \in Seq(Messages) /\ msgs' \in Seq(Messages)
      /\ Sound(messages', made) /\ Sound(msgs', made)
      /\ Recent(messages', eligible) /\ Recent(msgs', eligible)
  BY <1>1, InvParts
<1> QED BY <1>1, <1>2, <1>3, <1>4, <1>5, SameCounters

(* The turn ends, with tracking what it may be.                            *)
LEMMA EndTurnKeeps ==
  ASSUME CompactionInv, EndTurn, UNCHANGED <<messages, start, Counters>>, tracking' \in 0 .. 1
  PROVE  CompactionInv'
<1>1. messages' = messages /\ msgs' = <<>> /\ phase' = "idle" /\ start' = start /\ eligible' = eligible
      /\ made' = made /\ replies' = replies /\ prompts' = prompts /\ notes' = notes
  BY DEF EndTurn, Counters
<1>2. QueryRuns'
  BY <1>1 DEF QueryRuns
<1>3. replies' \in 0 .. MaxReplies /\ prompts' \in 0 .. MaxPrompts /\ notes' \in 0 .. MaxNotes
      /\ phase' \in {"idle", "top", "llm", "tools"}
  BY <1>1, InvParts
<1>4. msgs' \in Seq(Messages) /\ Sound(msgs', made) /\ Recent(msgs', eligible)
  BY <1>1, InvParts, EmptySound
<1>5. messages' \in Seq(Messages) /\ Sound(messages', made) /\ Recent(messages', eligible)
      /\ RangePaired(messages', start')
  BY <1>1, InvParts
<1> QED BY <1>1, <1>2, <1>3, <1>4, <1>5, SameCounters

LEMMA ReplaceKeeps ==
  ASSUME CompactionInv, NEW s, Replace(s), s \in Seq(Messages), Sound(s, made), Recent(s, eligible)
  PROVE  CompactionInv'
<1>1. messages' = s /\ msgs' = s /\ phase' = "llm" /\ start' = 0 /\ tracking' = 0 /\ eligible' = eligible
      /\ made' = made /\ replies' = replies /\ prompts' = prompts /\ notes' = notes
  BY DEF Replace, Counters
<1>2. QueryRuns'
  BY <1>1 DEF QueryRuns
<1>3. replies' \in 0 .. MaxReplies /\ prompts' \in 0 .. MaxPrompts /\ notes' \in 0 .. MaxNotes
      /\ phase' \in {"idle", "top", "llm", "tools"} /\ tracking' \in 0 .. 1
  BY <1>1, InvParts
<1>4. /\ messages' \in Seq(Messages) /\ msgs' \in Seq(Messages)
      /\ Sound(messages', made) /\ Sound(msgs', made)
      /\ Recent(messages', eligible) /\ Recent(msgs', eligible)
  BY <1>1
<1>5. RangePaired(messages', start')
  BY <1>1, InvParts, RangeAtEnds
<1> QED BY <1>1, <1>2, <1>3, <1>4, <1>5, SameCounters

LEMMA PipelineKeeps ==
  ASSUME CompactionInv, Pipeline
  PROVE  CompactionInv'
<1>1. PICK s \in Microcompacted(msgs) :
        CompactWithMemory(s) \/ CompactConversation(s) \/ CompactFails(s) \/ NoCompact(s)
  BY DEF Pipeline
<1>2. s \in Seq(Messages) /\ Sound(s, made) /\ Recent(s, eligible)
  BY InvParts, SoundMicro
<1>3. CASE CompactWithMemory(s)
  <2>1. PICK t : t = TrySessionMemoryCompaction(s)
    OBVIOUS
  <2>2. t \in Seq(Messages) /\ Sound(t, made) /\ Recent(t, eligible)
    BY <1>2, <2>1, InvParts, SoundSession
  <2>3. Replace(t)
    BY <1>3, <2>1 DEF CompactWithMemory
  <2> QED BY <2>2, <2>3, ReplaceKeeps
<1>4. CASE CompactConversation(s)
  <2>1. PICK t : t = <<Boundary, Summary>>
    OBVIOUS
  <2>2. t \in Seq(Messages) /\ Sound(t, made) /\ Recent(t, eligible)
    BY <2>1, InvParts, SoundSummary
  <2>3. Replace(t)
    BY <1>4, <2>1 DEF CompactConversation
  <2> QED BY <2>2, <2>3, ReplaceKeeps
<1>5. CASE CompactFails(s)
  <2>1. tracking = 0
    BY <1>5 DEF CompactFails, CompactionInv, QueryRuns
  <2>2. tracking' \in 0 .. 1 /\ EndTurn /\ UNCHANGED <<messages, start, Counters>>
    BY <1>5, <2>1 DEF CompactFails
  <2> QED BY <2>2, EndTurnKeeps
<1>6. CASE NoCompact(s)
  <2>1. tracking' = 0 /\ tracking' \in 0 .. 1 /\ UNCHANGED <<messages, start, Counters>>
    BY <1>6 DEF NoCompact
  <2>2. EndTurn \/ (phase' = "llm" /\ msgs' = s)
    BY <1>6 DEF NoCompact
  <2>3. CASE EndTurn
    BY <2>1, <2>3, EndTurnKeeps
  <2>4. CASE phase' = "llm" /\ msgs' = s
    <3>1. messages' = messages /\ start' = start /\ eligible' = eligible
          /\ made' = made /\ replies' = replies /\ prompts' = prompts /\ notes' = notes
      BY <2>1 DEF Counters
    <3>2. QueryRuns'
      BY <2>1, <2>4 DEF QueryRuns
    <3>3. replies' \in 0 .. MaxReplies /\ prompts' \in 0 .. MaxPrompts /\ notes' \in 0 .. MaxNotes
          /\ phase' \in {"idle", "top", "llm", "tools"}
      BY <2>4, <3>1, InvParts
    <3>4. /\ messages' \in Seq(Messages) /\ msgs' \in Seq(Messages)
          /\ Sound(messages', made) /\ Sound(msgs', made)
          /\ Recent(messages', eligible) /\ Recent(msgs', eligible)
          /\ RangePaired(messages', start')
      BY <1>2, <2>4, <3>1, InvParts
    <3> QED BY <2>1, <3>1, <3>2, <3>3, <3>4, SameCounters
  <2> QED BY <2>2, <2>3, <2>4
<1> QED BY <1>1, <1>3, <1>4, <1>5, <1>6

LEMMA ReplyKeeps ==
  ASSUME CompactionInv, Reply
  PROVE  CompactionInv'
<1>1. PICK m0 : m0 = Message("assistant", TRUE)
  OBVIOUS
<1>2. PICK b \in BOOLEAN : b = TRUE
  OBVIOUS
<1>3. {} \in SUBSET Calls
  OBVIOUS
<1>4. m0 = Fields("assistant", "none", b, {}, {}, {}, 0)
  BY <1>1, <1>2, <1>3, Constructed
<1>5. PICK m \in WithUsage(m0) : messages' = Append(messages, m)
  BY <1>1 DEF Reply
<1>6. Replied(m, b, {})
  BY <1>3, <1>4, InvParts, ReplyFields
<1>7. PICK s : s = Append(messages, m)
  OBVIOUS
<1>8. s \in Seq(Messages) /\ Sound(s, made) /\ Recent(s, eligible) /\ RangePaired(s, start)
  BY <1>6, <1>7, InvParts, PlainAppended DEF Replied
<1>9. messages' = s /\ msgs' = <<>> /\ phase' = "idle" /\ tracking' = tracking /\ start' = start
      /\ eligible' = eligible /\ made' = made /\ prompts' = prompts /\ notes' = notes
  BY <1>5, <1>7 DEF Reply, EndTurn
<1>10. replies' \in 0 .. MaxReplies
  BY InvParts, CompactionAssumption DEF Reply
<1>11. QueryRuns'
  BY <1>9 DEF QueryRuns
<1>12. notes' \in 0 .. MaxNotes /\ prompts' \in 0 .. MaxPrompts /\ tracking' \in 0 .. 1
      /\ phase' \in {"idle", "top", "llm", "tools"}
  BY <1>9, InvParts
<1>13. messages' \in Seq(Messages) /\ Sound(messages', made) /\ Recent(messages', eligible)
       /\ RangePaired(messages', start')
  BY <1>8, <1>9
<1>14. msgs' \in Seq(Messages) /\ Sound(msgs', made) /\ Recent(msgs', eligible)
  BY <1>9, InvParts, EmptySound
<1> QED BY <1>9, <1>10, <1>11, <1>12, <1>13, <1>14, SameCounters

(* A history t with m at its end, and the calls up to k.                   *)
Grown(t, k, el, m, b) ==
  /\ t \in Seq(Messages) /\ Sound(t, k) /\ Recent(t, el) /\ t # <<>> /\ Last(t) = m
  /\ RangePaired(t, b)

(* New calls have higher numbers than all that were made, and only new     *)
(* calls are added to those of listed tools.                               *)
LEMMA CallsAppended ==
  ASSUME NEW n \in Nat, NEW k \in Nat, n <= k, NEW C, C = n + 1 .. k,
         NEW s \in Seq(Messages), Sound(s, n), NEW el, Recent(s, el),
         NEW listed, listed \subseteq C, NEW text \in BOOLEAN, NEW m, Replied(m, text, C),
         NEW b, RangePaired(s, b)
  PROVE  Grown(Append(s, m), k, el \cup listed, m, b)
<1>1. k \in Nat /\ n <= k
  OBVIOUS
<1>2. /\ m \in Messages /\ m.role = "assistant" /\ m.mark = "none" /\ m.calls = n + 1 .. k
      /\ m.results = {} /\ m.cleared = {}
  BY DEF Replied
<1>3. m.calls \subseteq 1 .. k /\ \A c \in m.calls : c > n
  BY <1>1, <1>2
<1>4. MessageFormed(m, k)
  BY <1>2, <1>3 DEF MessageFormed
<1>5. Append(s, m) \in Seq(Messages) /\ Sound(Append(s, m), k)
  BY <1>1, <1>2, <1>3, <1>4, SoundAppend
<1>6. PICK fl : fl = el \cup listed
  OBVIOUS
<1>7. el \subseteq fl /\ (fl \ el) \cap (1 .. n) = {}
  BY <1>1, <1>6
<1>8. Recent(Append(s, m), fl)
  BY <1>2, <1>7, RecentAppend
<1>9. Append(s, m) # <<>> /\ Last(Append(s, m)) = m
  BY <1>2 DEF Last
<1>10. b \in Nat /\ b + 1 \in Nat /\ b <= Len(s) /\ PairedFrom(s, b + 1, b)
  BY DEF RangePaired
<1>11. PairedFrom(Append(s, m), b + 1, b)
  BY <1>2, <1>10, AppendPaired
<1>12. Len(Append(s, m)) = Len(s) + 1
  BY <1>2
<1>13. RangePaired(Append(s, m), b)
  BY <1>10, <1>11, <1>12 DEF RangePaired
<1> QED BY <1>5, <1>6, <1>8, <1>9, <1>13 DEF Grown

LEMMA ReplyWithCallsKeeps ==
  ASSUME CompactionInv, ReplyWithCalls
  PROVE  CompactionInv'
<1>1. PICK n \in made + 1 .. MaxCalls, text \in BOOLEAN :
        /\ \E m \in WithUsage([Message("assistant", text) EXCEPT !.calls = made + 1 .. n]) : Add(m)
        /\ \E listed \in SUBSET (made + 1 .. n) : eligible' = eligible \cup listed
        /\ made' = n
  BY DEF ReplyWithCalls
<1>2. PICK C, m0 : C = made + 1 .. n /\ m0 = [Message("assistant", text) EXCEPT !.calls = C]
  OBVIOUS
<1>3. C \in SUBSET Calls /\ made \in Nat /\ n \in made + 1 .. MaxCalls /\ n \in 0 .. MaxCalls
  <2>1. made \in Nat /\ MaxCalls \in Nat
    BY InvParts, CompactionAssumption
  <2>2. n \in Nat /\ made + 1 <= n /\ n <= MaxCalls
    BY <2>1
  <2>3. \A c \in C : c \in 1 .. MaxCalls
    BY <1>2, <2>1, <2>2
  <2>4. n \in 0 .. MaxCalls
    BY <2>1, <2>2
  <2> QED BY <2>1, <2>3, <2>4 DEF Calls
<1>4. m0 = Fields("assistant", "none", text, C, {}, {}, 0)
  BY <1>2, <1>3, Constructed
<1>5. PICK m \in WithUsage(m0) : Add(m)
  BY <1>1, <1>2
<1>6. Replied(m, text, C)
  BY <1>3, <1>4, InvParts, ReplyFields
<1>7. PICK listed \in SUBSET (made + 1 .. n) : eligible' = eligible \cup listed
  BY <1>1
<1>8. PICK s, t : s = Append(messages, m) /\ t = Append(msgs, m)
  OBVIOUS
<1>9. messages' = s /\ msgs' = t
  BY <1>5, <1>8 DEF Add
<1>10. /\ s \in Seq(Messages) /\ Sound(s, n) /\ Recent(s, eligible \cup listed)
       /\ s # <<>> /\ Last(s) = m /\ RangePaired(s, start)
  <2>1. messages \in Seq(Messages) /\ Sound(messages, made) /\ Recent(messages, eligible)
        /\ RangePaired(messages, start)
    BY InvParts
  <2>2. PICK h, u, el, b : h = made /\ u = messages /\ el = eligible /\ b = start
    OBVIOUS
  <2>3. /\ h \in Nat /\ n \in Nat /\ h <= n /\ C = h + 1 .. n /\ listed \subseteq C
        /\ u \in Seq(Messages) /\ Sound(u, h) /\ Recent(u, el) /\ Replied(m, text, C)
        /\ RangePaired(u, b)
    <3>1. n \in Nat /\ made <= n
      BY <1>3, CompactionAssumption
    <3> QED BY <1>2, <1>3, <1>6, <1>7, <2>1, <2>2, <3>1
  <2>4. Grown(Append(u, m), n, el \cup listed, m, b)
    BY <2>3, CallsAppended
  <2> QED BY <1>8, <2>2, <2>4 DEF Grown
<1>11. /\ t \in Seq(Messages) /\ Sound(t, n) /\ Recent(t, eligible \cup listed)
       /\ t # <<>> /\ Last(t) = m
  <2>1. msgs \in Seq(Messages) /\ Sound(msgs, made) /\ Recent(msgs, eligible)
        /\ RangePaired(msgs, 0)
    BY InvParts, RangeAtEnds
  <2>2. PICK h, u, el, b : h = made /\ u = msgs /\ el = eligible /\ b = 0
    OBVIOUS
  <2>3. /\ h \in Nat /\ n \in Nat /\ h <= n /\ C = h + 1 .. n /\ listed \subseteq C
        /\ u \in Seq(Messages) /\ Sound(u, h) /\ Recent(u, el) /\ Replied(m, text, C)
        /\ RangePaired(u, b)
    <3>1. n \in Nat /\ made <= n
      BY <1>3, CompactionAssumption
    <3> QED BY <1>2, <1>3, <1>6, <1>7, <2>1, <2>2, <3>1
  <2>4. Grown(Append(u, m), n, el \cup listed, m, b)
    BY <2>3, CallsAppended
  <2> QED BY <1>8, <2>2, <2>4 DEF Grown
<1>12. phase' = "tools" /\ start' = start /\ tracking' = tracking /\ prompts' = prompts /\ notes' = notes
  BY DEF ReplyWithCalls
<1>13. replies' \in 0 .. MaxReplies
  <2>1. replies < MaxReplies /\ replies' = replies + 1
    BY DEF ReplyWithCalls
  <2> QED BY <2>1, InvParts, CompactionAssumption
<1>14. tracking = 0
  BY DEF ReplyWithCalls, CompactionInv, QueryRuns
<1>15. m.calls # {}
  <2>1. n \in C
    BY <1>2, <1>3
  <2> QED BY <1>6, <2>1 DEF Replied
<1>16. QueryRuns'
  <2>1. Waiting(s, start, m.calls)
    BY <1>10, WaitingLast DEF RangePaired
  <2>2. Waiting(messages', start', Last(msgs').calls)
    BY <1>9, <1>11, <1>12, <2>1
  <2>3. tracking' = 0 /\ msgs' # <<>> /\ Last(msgs').calls # {}
    BY <1>9, <1>11, <1>12, <1>14, <1>15
  <2> QED BY <2>2, <2>3 DEF QueryRuns, Waiting, Quiet, Last
<1>17. n \in 0 .. MaxCalls /\ eligible' \subseteq 1 .. n
  <2>1. n \in Nat /\ made \in Nat /\ made < n /\ eligible \subseteq 1 .. made
    BY <1>3, InvParts
  <2>2. 1 .. made \subseteq 1 .. n /\ made + 1 .. n \subseteq 1 .. n
    BY <2>1
  <2> QED BY <1>3, <1>7, <2>1, <2>2
<1>18. TypeOK'
  BY <1>1, <1>9, <1>10, <1>11, <1>12, <1>13, <1>14, <1>17, InvParts DEF TypeOK, RangePaired
<1>19. /\ Sound(messages', made') /\ Sound(msgs', made')
       /\ Recent(messages', eligible') /\ Recent(msgs', eligible')
       /\ RangePaired(messages', start')
  BY <1>1, <1>7, <1>9, <1>10, <1>11, <1>12
<1> QED BY <1>16, <1>18, <1>19
        DEF CompactionInv, Sound, Formed, Paired, PairedFrom, Answered, Answers, Quiet, InOrder,
            Recent, CallsIn, MessageFormed, RangePaired

LEMMA ExecuteToolsKeeps ==
  ASSUME CompactionInv, ExecuteTools
  PROVE  CompactionInv'
<1>1. PICK C, b, m, s, t : /\ C = Last(msgs).calls /\ b = start /\ m = Results(C)
                           /\ s = Append(messages, m) /\ t = Append(msgs, m)
  OBVIOUS
<1>2. msgs # <<>> /\ C # {} /\ Waiting(messages, b, C) /\ tracking = 0
  BY <1>1 DEF ExecuteTools, CompactionInv, QueryRuns
<1>3. messages' = s /\ msgs' = t /\ phase' = "top" /\ tracking' = 0 /\ start' = b
      /\ eligible' = eligible /\ made' = made
      /\ replies' = replies /\ prompts' = prompts /\ notes' = notes
  BY <1>1, <1>2 DEF ExecuteTools, Add, Counters
<1>4. C \in SUBSET Calls
  <2>1. Last(msgs) \in Messages
    BY <1>2, InvParts DEF Last
  <2> QED BY <1>1, <2>1, FieldsTyped
<1>5. s \in Seq(Messages) /\ Sound(s, made) /\ Recent(s, eligible) /\ RangePaired(s, b)
  BY <1>1, <1>2, <1>4, InvParts, ResultsAdded
<1>6. t \in Seq(Messages) /\ Sound(t, made) /\ Recent(t, eligible)
  <2>1. RangePaired(msgs, 0)
    BY InvParts, RangeAtEnds
  <2>2. Waiting(msgs, 0, C)
    BY <1>1, <1>2, <2>1, InvParts, WaitingLast DEF RangePaired
  <2> QED BY <1>1, <1>2, <1>4, <2>1, <2>2, InvParts, ResultsAdded
<1>7. QueryRuns'
  BY <1>3 DEF QueryRuns
<1>8. replies' \in 0 .. MaxReplies /\ notes' \in 0 .. MaxNotes /\ prompts' \in 0 .. MaxPrompts
      /\ tracking' \in 0 .. 1 /\ phase' \in {"idle", "top", "llm", "tools"}
  BY <1>3, InvParts
<1>9. /\ messages' \in Seq(Messages) /\ msgs' \in Seq(Messages)
      /\ Sound(messages', made) /\ Sound(msgs', made)
      /\ Recent(messages', eligible) /\ Recent(msgs', eligible)
      /\ RangePaired(messages', start')
  BY <1>3, <1>5, <1>6
<1> QED BY <1>3, <1>7, <1>8, <1>9, SameCounters

LEMMA UnchangedKeeps ==
  ASSUME CompactionInv, UNCHANGED vars
  PROVE  CompactionInv'
<1>1. messages' = messages /\ msgs' = msgs /\ phase' = phase /\ tracking' = tracking
      /\ start' = start /\ eligible' = eligible /\ made' = made
      /\ prompts' = prompts /\ replies' = replies /\ notes' = notes
  BY DEF vars
<1>2. QueryRuns'
  BY <1>1 DEF CompactionInv, QueryRuns, Waiting, Quiet, Last
<1>3. /\ prompts' \in 0 .. MaxPrompts /\ replies' \in 0 .. MaxReplies /\ notes' \in 0 .. MaxNotes
      /\ phase' \in {"idle", "top", "llm", "tools"} /\ tracking' \in 0 .. 1
  BY <1>1, InvParts
<1>4. /\ messages' \in Seq(Messages) /\ msgs' \in Seq(Messages)
      /\ Sound(messages', made) /\ Sound(msgs', made)
      /\ Recent(messages', eligible) /\ Recent(msgs', eligible)
      /\ RangePaired(messages', start')
  BY <1>1, InvParts
<1> QED BY <1>1, <1>2, <1>3, <1>4, SameCounters

LEMMA InitCorrect == Init => CompactionInv
<1> SUFFICES ASSUME Init PROVE CompactionInv
  OBVIOUS
<1>1. TypeOK
  BY CompactionAssumption DEF Init, TypeOK
<1>2. QueryRuns
  BY DEF Init, QueryRuns
<1>3. messages = <<>> /\ msgs = <<>> /\ made \in Nat /\ start = 0
  BY DEF Init
<1>4. RangePaired(messages, start)
  BY <1>3, EmptySound, RangeAtEnds
<1> QED BY <1>1, <1>2, <1>3, <1>4, EmptySound DEF CompactionInv

LEMMA StepCorrect == CompactionInv /\ [Next]_vars => CompactionInv'
<1> SUFFICES ASSUME CompactionInv, [Next]_vars PROVE CompactionInv'
  OBVIOUS
<1>1. CASE StartTurn      BY <1>1, StartTurnKeeps
<1>2. CASE Notify         BY <1>2, NotifyKeeps
<1>3. CASE Pipeline       BY <1>3, PipelineKeeps
<1>4. CASE Reply          BY <1>4, ReplyKeeps
<1>5. CASE ReplyWithCalls BY <1>5, ReplyWithCallsKeeps
<1>6. CASE ExecuteTools   BY <1>6, ExecuteToolsKeeps
<1>7. CASE Abandon
  <2>1. tracking' \in 0 .. 1
    BY <1>7, InvParts DEF Abandon
  <2>2. EndTurn /\ UNCHANGED <<messages, start, Counters>>
    BY <1>7 DEF Abandon
  <2> QED BY <2>1, <2>2, EndTurnKeeps
<1>8. CASE InvokeSkill    BY <1>8, InvokeSkillKeeps
<1>9. CASE UNCHANGED vars BY <1>9, UnchangedKeeps
<1> QED BY <1>1, <1>2, <1>3, <1>4, <1>5, <1>6, <1>7, <1>8, <1>9 DEF Next

(* Whatever is compacted, cleared, repaired and merged, and whatever       *)
(* memories and notices come between, in both histories the results of a   *)
(* message are of the calls of one earlier message, and only messages      *)
(* without calls and results stand between the two; calls keep their       *)
(* order, no recent result is cleared, and a record that is being made     *)
(* lacks no call but those of its first message (runCompactionPipeline,    *)
(* injectRelevantMemories, handleNotify).                                  *)
THEOREM CompactionCorrect == Spec => []CompactionInv
BY InitCorrect, StepCorrect, PTL DEF Spec

(* The state has its types; a query that has not ended has not failed yet. *)
THEOREM CompactionTyped == Spec => []TypeOK
<1>1. CompactionInv => TypeOK
  BY DEF CompactionInv
<1> QED BY <1>1, CompactionCorrect, PTL

LEMMA PairedCalls ==
  ASSUME NEW s \in Seq(Messages), Paired(s)
  PROVE  CallsPrecedeResults(s)
<1> SUFFICES ASSUME NEW i \in 1 .. Len(s), NEW c \in s[i].results
             PROVE  \E j \in 1 .. i - 1 : c \in s[j].calls
  BY DEF CallsPrecedeResults
<1>1. Answered(s, i, 1)
  BY DEF Paired, PairedFrom
<1>2. PICK j \in 1 .. Len(s) : j < i /\ c \in s[j].calls
  BY <1>1 DEF Answered, Answers
<1>3. j \in 1 .. i - 1
  BY <1>2
<1> QED BY <1>2, <1>3

(* A tool result always follows the message with its call, whatever was    *)
(* compacted, repaired, merged and put between them                        *)
(* (adjustIndexToPreserveAPIInvariants, repairOrphanToolUses).             *)
THEOREM ResultsPaired == Spec => []ResultsHaveCalls
<1>1. CompactionInv => ResultsHaveCalls
  BY PairedCalls DEF CompactionInv, TypeOK, Sound, ResultsHaveCalls
<1> QED BY <1>1, CompactionCorrect, PTL

(* However often histories are cleared and cut, the results of the last    *)
(* calls of listed tools keep their content (applyTimeBasedMicrocompact).  *)
THEOREM RecentKept == Spec => []RecentResultsKept
<1>1. ASSUME NEW s \in Seq(Messages), Recent(s, eligible), NEW i \in DOMAIN s,
             NEW c \in s[i].cleared \cap eligible
      PROVE  Cardinality({d \in collectCompactableToolIDs(s) : d > c}) >= KeepRecent
  <2>1. DOMAIN s = 1 .. Len(s)
    OBVIOUS
  <2>2. collectCompactableToolIDs(s) = CallsIn(s) \cap eligible
    BY <2>1 DEF collectCompactableToolIDs, CallsIn
  <2> QED BY <1>1, <2>1, <2>2 DEF Recent
<1>2. CompactionInv => RecentResultsKept
  BY <1>1 DEF CompactionInv, TypeOK, RecentResultsKept
<1> QED BY <1>2, CompactionCorrect, PTL

(* What CompactWithMemory keeps, in the words of ShortestTail.             *)
LEMMA ShortestKept ==
  ASSUME NEW n \in Nat, NEW s \in Seq(Messages), Sound(s, n), CompactWithMemory(s)
  PROVE  ShortestTail(s)
<1>1. PICK k : k = calculateMessagesToKeepIndex(s)
  OBVIOUS
<1>2. k = Max({1} \cup GoodTails(s))
  BY <1>1, KeepIndex
<1>3. {m \in Range(s) : ~isCompactBoundaryMessage(m)} = {m \in Range(s) : m.mark # "boundary"}
  <2>1. ASSUME NEW m \in Range(s) PROVE isCompactBoundaryMessage(m) <=> m.mark = "boundary"
    <3>1. PICK i \in 1 .. Len(s) : m = s[i]
      BY DEF Range
    <3>2. MessageFormed(m, n)
      BY <3>1 DEF Sound, Formed
    <3> QED BY <3>2 DEF MessageFormed, isCompactBoundaryMessage
  <2> QED BY <2>1
<1>4. msgs' = TrySessionMemoryCompaction(s)
  BY DEF CompactWithMemory, Replace
<1>5. TrySessionMemoryCompaction(s) =
        <<Boundary, Summary>> \o Kept(Suffix(s, k), {m \in Range(s) : m.mark # "boundary"})
  BY <1>1, <1>3 DEF TrySessionMemoryCompaction
<1>6. ShortestTail(s) <=>
        msgs' = <<Boundary, Summary>> \o Kept(Suffix(s, Max({1} \cup GoodTails(s))),
                                              {m \in Range(s) : m.mark # "boundary"})
  BY DEF ShortestTail, GoodTails
<1> QED BY <1>2, <1>4, <1>5, <1>6

(* Session-memory compaction keeps the shortest tail that is long enough   *)
(* and holds the call of each of its results: the walk from the end and    *)
(* the way back from results to their calls, over the memories between,    *)
(* find no longer one (calculateMessagesToKeepIndex).                      *)
THEOREM TailShortest == Spec => KeepsShortestTail
<1>1. ASSUME CompactionInv
      PROVE  [\A s \in Microcompacted(msgs) : CompactWithMemory(s) => ShortestTail(s)]_vars
  <2>1. ASSUME NEW s \in Microcompacted(msgs), CompactWithMemory(s)
        PROVE  ShortestTail(s)
    <3>1. s \in Seq(Messages) /\ Sound(s, made)
      BY <1>1, InvParts, SoundMicro
    <3> QED BY <1>1, <2>1, <3>1, InvParts, ShortestKept
  <2> QED BY <2>1
<1>2. CompactionInv => [\A s \in Microcompacted(msgs) : CompactWithMemory(s) => ShortestTail(s)]_vars
  BY <1>1
<1> QED BY <1>2, CompactionCorrect, PTL DEF KeepsShortestTail


-----------------------------------------------------------------------------
(* The log of an execution: a block of paragraphs for each message.        *)

Entries == {Prompts} \cup {Replies(m) : m \in Messages}
             \cup {ResultOf(c, w, 1) : c \in Nat, w \in {"omitted", "whole"}}

LEMMA Paragraphs ==
  /\ Prompts.by = "user" /\ Prompts.calls = {}
  /\ \A m \in Messages : Replies(m).by = "assistant" /\ Replies(m).calls = m.calls
  /\ \A c, w : /\ ResultOf(c, w, 1).by = "result" /\ ResultOf(c, w, 1).calls = {c}
               /\ ResultOf(c, w, 1).merged = 1
<1>1. Prompts.by = "user" /\ Prompts.calls = {}
  BY DEF Prompts
<1>2. ASSUME NEW m \in Messages
      PROVE  Replies(m).by = "assistant" /\ Replies(m).calls = m.calls
  BY DEF Prompts, Replies
<1>3. \A c, w : /\ ResultOf(c, w, 1).by = "result" /\ ResultOf(c, w, 1).calls = {c}
                /\ ResultOf(c, w, 1).merged = 1
  BY DEF ResultOf
<1> QED BY <1>1, <1>2, <1>3

(* The block of a message: a result each that is not noise.                *)
Told(f, kind, m) ==
  /\ f \in Seq(Entries)
  /\ m.role = "user" /\ m.text => Len(f) = 1 /\ f[1] = Prompts
  /\ m.role = "assistant" => Len(f) = 1 /\ f[1] = Replies(m)
  /\ m.role = "system" => Len(f) = 0
  /\ m.role = "user" /\ ~m.text =>
       /\ \A k \in 1 .. Len(f) : /\ f[k].by = "result" /\ f[k].merged = 1
                                 /\ \E c \in m.results : f[k].calls = {c}
       /\ \A k, l \in 1 .. Len(f) : k # l => f[k].calls \cap f[l].calls = {}
       /\ \A c \in KeptResults(kind, m) : \E k \in 1 .. Len(f) : f[k].calls = {c}

LEMMA ResultsTold ==
  ASSUME NEW kind, NEW m \in Messages, m.role = "user", ~m.text, m.results # {}
  PROVE  Told(formatMessageToMDL(kind, m), kind, m)
<1>1. PICK n, K, x : /\ n = Max(m.results) /\ K = KeptResults(kind, m)
                     /\ x = [c \in 1 .. n |-> c]
  OBVIOUS
<1>2. m.results \subseteq 0 .. MaxCalls /\ m.results \subseteq 1 .. MaxCalls /\ MaxCalls \in Nat
  BY FieldsTyped, CompactionAssumption DEF Calls
<1>3. n \in m.results /\ \A y \in m.results : y <= n
  BY <1>1, <1>2, MaxIs
<1>4. n \in Nat /\ m.results \subseteq 1 .. n
  BY <1>2, <1>3
<1>5. x \in Seq(Nat) /\ Len(x) = n /\ \A c \in 1 .. n : x[c] = c
  BY <1>1, <1>4
<1>6. PICK cs, pos : cs = Kept(x, K) /\ cs \in Seq(Nat) /\ Places(cs, pos, x, n, K)
  BY <1>5, KeptPlaces
<1>7. PICK h \in Nat : h = Len(cs) /\ DOMAIN cs = 1 .. h
  BY <1>6
<1>8. K \subseteq m.results
  BY <1>1 DEF KeptResults
<1>9. ASSUME NEW k \in 1 .. h
      PROVE  cs[k] = pos[k] /\ pos[k] \in 1 .. n /\ cs[k] \in K /\ cs[k] \in Nat
  BY <1>5, <1>6, <1>7 DEF Places
<1>10. PICK f : f = [i \in 1 .. h |->
                 ResultOf(cs[i], IF ContentOf(kind, m, cs[i]) = "doc" THEN "omitted" ELSE "whole", 1)]
  OBVIOUS
<1>11. formatMessageToMDL(kind, m) = f
  BY <1>1, <1>6, <1>7, <1>10 DEF formatMessageToMDL
<1>12. ASSUME NEW k \in 1 .. h
       PROVE  \E w \in {"omitted", "whole"} : f[k] = ResultOf(cs[k], w, 1)
  BY <1>10
<1>13. \A k \in 1 .. h : f[k] \in Entries
  BY <1>9, <1>12 DEF Entries
<1>14. f \in Seq(Entries) /\ Len(f) = h
  BY <1>10, <1>13
<1>15. ASSUME NEW k \in 1 .. h
       PROVE  f[k].by = "result" /\ f[k].merged = 1 /\ f[k].calls = {cs[k]}
  BY <1>12, Paragraphs
<1>16. ASSUME NEW k \in 1 .. h, NEW l \in 1 .. h, k # l
       PROVE  f[k].calls \cap f[l].calls = {}
  <2>1. k < l \/ l < k
    BY <1>7, <1>16
  <2>2. pos[k] < pos[l] \/ pos[l] < pos[k]
    BY <1>6, <1>7, <2>1 DEF Places
  <2>3. cs[k] # cs[l]
    BY <1>9, <2>2
  <2> QED BY <1>15, <2>3
<1>17. ASSUME NEW c \in K
       PROVE  \E k \in 1 .. h : f[k].calls = {c}
  <2>1. c \in 1 .. n /\ x[c] \in K
    BY <1>4, <1>5, <1>8
  <2>2. PICK k \in 1 .. h : pos[k] = c
    BY <1>6, <1>7, <2>1 DEF Places
  <2> QED BY <1>9, <1>15, <2>2
<1>18. \A k \in 1 .. h : \E c \in m.results : f[k].calls = {c}
  BY <1>8, <1>9, <1>15
<1>19. Told(f, kind, m)
  BY <1>1, <1>14, <1>15, <1>16, <1>17, <1>18 DEF Told
<1> QED BY <1>11, <1>19

LEMMA MessageTold ==
  ASSUME NEW kind, NEW n, NEW m \in Messages, MessageFormed(m, n)
  PROVE  Told(formatMessageToMDL(kind, m), kind, m)
<1>1. CASE m.role = "user" /\ ~m.text
  <2>1. m.results # {}
    BY <1>1 DEF MessageFormed
  <2> QED BY <1>1, <2>1, ResultsTold
<1>2. CASE m.role = "user" /\ m.text
  <2>1. formatMessageToMDL(kind, m) = <<Prompts>>
    BY <1>2 DEF formatMessageToMDL
  <2>2. Prompts \in Entries
    BY DEF Entries
  <2>3. PICK f : f = <<Prompts>>
    OBVIOUS
  <2>4. f \in Seq(Entries) /\ Len(f) = 1 /\ f[1] = Prompts
    BY <2>2, <2>3
  <2>5. Told(f, kind, m)
    BY <1>2, <2>4 DEF Told
  <2> QED BY <2>1, <2>3, <2>5
<1>3. CASE m.role = "assistant"
  <2>1. formatMessageToMDL(kind, m) = <<Replies(m)>>
    BY <1>3 DEF formatMessageToMDL
  <2>2. Replies(m) \in Entries
    BY DEF Entries
  <2>3. PICK f : f = <<Replies(m)>>
    OBVIOUS
  <2>4. f \in Seq(Entries) /\ Len(f) = 1 /\ f[1] = Replies(m)
    BY <2>2, <2>3
  <2>5. Told(f, kind, m)
    BY <1>3, <2>4 DEF Told
  <2> QED BY <2>1, <2>3, <2>5
<1>4. CASE m.role = "system"
  <2>1. formatMessageToMDL(kind, m) = <<>>
    BY <1>4 DEF formatMessageToMDL
  <2>2. PICK f : f = <<>>
    OBVIOUS
  <2>3. f \in Seq(Entries) /\ Len(f) = 0
    BY <2>2
  <2>4. Told(f, kind, m)
    BY <1>4, <2>3 DEF Told
  <2> QED BY <2>1, <2>2, <2>4
<1>5. m.role \in {"user", "assistant", "system"} /\ m.text \in BOOLEAN
  BY FieldsTyped
<1> QED BY <1>1, <1>2, <1>3, <1>4, <1>5

(* What an execution records: messages whose results answer calls in the   *)
(* record, except those of the first message, and stand in one place each. *)
OnceIn(t)    == \A i, j \in 1 .. Len(t) : t[i].results \cap t[j].results # {} => i = j
Ranged(t, n) == Formed(t, n) /\ PairedFrom(t, 2, 1) /\ OnceIn(t)

LEMMA ResultsOnce ==
  ASSUME NEW n \in Nat, NEW s \in Seq(Messages), Sound(s, n)
  PROVE  OnceIn(s)
<1>1. PICK l \in Nat : l = Len(s)
  OBVIOUS
<1>2. ASSUME NEW i \in 1 .. l, NEW j \in 1 .. l, i < j, s[i].results \cap s[j].results # {}
      PROVE  FALSE
  <2>1. PICK c : c \in s[i].results /\ c \in s[j].results
    BY <1>2
  <2>2. Answered(s, i, 1) /\ Answered(s, j, 1)
    BY <1>1, <2>1 DEF Sound, Paired, PairedFrom
  <2>3. PICK x \in 1 .. l : x < i /\ Answers(s, i, x)
    BY <1>1, <2>2 DEF Answered
  <2>4. PICK y \in 1 .. l : y < j /\ Answers(s, j, y)
    BY <1>1, <2>2 DEF Answered
  <2>5. x = y
    <3>1. c \in s[x].calls /\ c \in s[y].calls
      BY <2>1, <2>3, <2>4 DEF Answers
    <3> QED BY <1>1, <3>1, CalledOnce
  <2>6. s[i].results = {}
    BY <1>1, <1>2, <2>3, <2>4, <2>5 DEF Answers, Quiet
  <2> QED BY <2>1, <2>6
<1>3. ASSUME NEW i \in 1 .. l, NEW j \in 1 .. l, s[i].results \cap s[j].results # {}
      PROVE  i = j
  <2>1. ~(i < j)
    BY <1>2, <1>3
  <2>2. ~(j < i)
    BY <1>2, <1>3
  <2> QED BY <2>1, <2>2
<1> QED BY <1>1, <1>3 DEF OnceIn

LEMMA SuffixRanged ==
  ASSUME NEW n \in Nat, NEW s \in Seq(Messages), Sound(s, n), NEW b \in 1 .. Len(s),
         RangePaired(s, b)
  PROVE  Suffix(s, b) \in Seq(Messages) /\ Ranged(Suffix(s, b), n)
<1>1. PICK l, h \in Nat : l = Len(s) /\ h = l - b + 1
  OBVIOUS
<1>2. PICK t : t = Suffix(s, b)
  OBVIOUS
<1>3. t \in Seq(Messages) /\ Len(t) = h /\ \A j \in 1 .. h : t[j] = s[j + b - 1]
  <2>1. b \in Nat \ {0} /\ h = Len(s) - b + 1
    BY <1>1
  <2> QED BY <1>2, <2>1, SuffixIs
<1>4. \A j \in 1 .. h : j + b - 1 \in 1 .. l
  BY <1>1
<1>5. Formed(t, n)
  BY <1>1, <1>3, <1>4 DEF Sound, Formed
<1>6. OnceIn(t)
  <2>1. \A i, j \in 1 .. l : s[i].results \cap s[j].results # {} => i = j
    BY <1>1, ResultsOnce DEF OnceIn
  <2>2. ASSUME NEW i \in 1 .. h, NEW j \in 1 .. h, t[i].results \cap t[j].results # {}
        PROVE  i = j
    <3>1. i + b - 1 = j + b - 1
      BY <1>3, <1>4, <2>1, <2>2
    <3> QED BY <3>1
  <2> QED BY <1>3, <2>2 DEF OnceIn
<1>7. ASSUME NEW i \in 1 .. h, 2 <= i, t[i].results # {}
      PROVE  Answered(t, i, 1)
  <2>1. PICK x \in 1 .. l : x = i + b - 1
    BY <1>4
  <2>2. t[i] = s[x] /\ b + 1 <= x
    BY <1>3, <1>7, <2>1
  <2>3. Answered(s, x, b)
    BY <1>1, <1>7, <2>2 DEF RangePaired, PairedFrom
  <2>4. PICK y \in 1 .. l : b <= y /\ y < x /\ Answers(s, x, y)
    BY <1>1, <2>3 DEF Answered
  <2>5. PICK j \in 1 .. h : j = y - b + 1
    BY <1>1, <2>4
  <2>6. j < i /\ t[j] = s[y]
    <3>1. j + b - 1 = y
      BY <2>5
    <3>2. t[j] = s[y]
      BY <1>3, <3>1
    <3>3. j < i
      BY <2>1, <2>4, <2>5
    <3> QED BY <3>2, <3>3
  <2>7. ASSUME NEW k \in 1 .. h, j < k, k < i
        PROVE  t[k].calls = {} /\ t[k].results = {}
    <3>1. PICK z \in 1 .. l : z = k + b - 1
      BY <1>4
    <3>2. y < z /\ z < x /\ t[k] = s[z]
      BY <1>3, <2>1, <2>5, <2>7, <3>1
    <3> QED BY <1>1, <2>4, <3>2 DEF Answers, Quiet
  <2>8. Answers(t, i, j)
    BY <1>3, <2>2, <2>4, <2>6, <2>7 DEF Answers, Quiet
  <2> QED BY <1>3, <2>6, <2>8 DEF Answered
<1>8. PairedFrom(t, 2, 1)
  BY <1>3, <1>7 DEF PairedFrom
<1> QED BY <1>2, <1>3, <1>5, <1>6, <1>8 DEF Ranged

LEMMA RecordedRanged ==
  ASSUME CompactionInv
  PROVE  made \in Nat /\ Recorded \in Seq(Messages) /\ Ranged(Recorded, made)
<1>1. /\ made \in Nat /\ messages \in Seq(Messages) /\ Sound(messages, made)
      /\ RangePaired(messages, start) /\ start \in 0 .. Len(messages)
  BY InvParts DEF RangePaired
<1>2. CASE start = 0
  <2>1. PICK t : t = <<>>
    OBVIOUS
  <2>2. t \in Seq(Messages) /\ Ranged(t, made)
    BY <2>1 DEF Ranged, Formed, PairedFrom, OnceIn
  <2> QED BY <1>1, <1>2, <2>1, <2>2 DEF Recorded
<1>3. CASE start # 0
  <2>1. start \in 1 .. Len(messages)
    BY <1>1, <1>3
  <2>2. Suffix(messages, start) \in Seq(Messages) /\ Ranged(Suffix(messages, start), made)
    BY <1>1, <2>1, SuffixRanged
  <2>3. Recorded = Suffix(messages, start)
    BY <1>3 DEF Recorded, Suffix
  <2> QED BY <1>1, <2>2, <2>3
<1> QED BY <1>2, <1>3

(* Messages with results never follow each other, so none are merged.      *)
LEMMA NoneMerged ==
  ASSUME NEW kind, NEW n \in Nat, NEW s \in Seq(Messages), Ranged(s, n), NEW i \in 1 .. Len(s),
         isRepeatedToolResultStart(kind, s[i])
  PROVE  ~(consumed(s, i) > 1)
<1>1. PICK l \in Nat : l = Len(s)
  OBVIOUS
<1> DEFINE ends == {j \in i .. l : ~(s[j].role = "user" /\ Cardinality(s[j].results) = 1)}
           stop == ends \cup {l + 1}
<1>2. consumed(s, i) = Min(stop) - i
  BY <1>1 DEF consumed
<1>3. Cardinality({}) = 0
  BY FS_EmptySet
<1>4. s[i].role = "user" /\ s[i].results # {}
  <2>1. s[i].role = "user" /\ Cardinality(KeptResults(kind, s[i])) = 1
    BY DEF isRepeatedToolResultStart
  <2>2. KeptResults(kind, s[i]) # {}
    <3>1. ASSUME KeptResults(kind, s[i]) = {} PROVE Cardinality(KeptResults(kind, s[i])) = 0
      BY <1>3, <3>1, Zenon
    <3> QED BY <2>1, <3>1
  <2> QED BY <2>1, <2>2 DEF KeptResults
<1>5. s[i].calls = {}
  <2>1. MessageFormed(s[i], n)
    BY DEF Ranged, Formed
  <2> QED BY <1>4, <2>1 DEF MessageFormed
<1>6. i + 1 \in stop
  <2>1. CASE i = l
    BY <2>1
  <2>2. CASE i # l
    <3>1. PICK k \in 1 .. l : k = i + 1 /\ k \in i .. l /\ 2 <= k
      BY <1>1, <2>2
    <3>2. s[k].results = {}
      <4>1. SUFFICES ASSUME s[k].results # {} PROVE FALSE
        OBVIOUS
      <4>2. Answered(s, k, 1)
        BY <1>1, <3>1, <4>1 DEF Ranged, PairedFrom
      <4>3. PICK j \in 1 .. l : j < k /\ Answers(s, k, j)
        BY <1>1, <4>2 DEF Answered
      <4>4. j # i
        BY <1>5, <4>1, <4>3 DEF Answers
      <4>5. j < i
        BY <3>1, <4>3, <4>4
      <4> QED BY <1>1, <1>4, <3>1, <4>3, <4>5 DEF Answers, Quiet
    <3>3. Cardinality(s[k].results) # 1
      BY <1>3, <3>2
    <3> QED BY <3>1, <3>3
  <2> QED BY <2>1, <2>2
<1>7. stop \subseteq Nat /\ stop # {}
  BY <1>1, <1>6
<1> HIDE DEF stop
<1>8. Min(stop) \in Nat /\ Min(stop) <= i + 1
  BY <1>6, <1>7, MinIs
<1> QED BY <1>2, <1>8

(* A log t of l blocks F: block i stands behind off[i] paragraphs.         *)
Joined(g, F, l) == g[l + 1] = <<>> /\ \A i \in 1 .. l : g[i] = F[i] \o g[i + 1]
Blocks(t, off, F, l) ==
  /\ \A i \in 1 .. l + 1 : off[i] \in Nat
  /\ off[1] = 0 /\ off[l + 1] = Len(t)
  /\ \A i \in 1 .. l : off[i + 1] = off[i] + Len(F[i])
  /\ \A i \in 1 .. l : \A j \in 1 .. Len(F[i]) : t[off[i] + j] = F[i][j]

LEMMA JoinedTyped ==
  ASSUME NEW E, NEW l \in Nat, NEW F \in [1 .. l -> Seq(E)], NEW g, Joined(g, F, l)
  PROVE  \A i \in 1 .. l + 1 : g[i] \in Seq(E)
<1> DEFINE T == {j \in 0 .. l : g[l + 1 - j] \in Seq(E)}
<1>1. 0 \in T
  <2>1. l + 1 - 0 = l + 1 /\ <<>> \in Seq(E) /\ 0 \in 0 .. l
    OBVIOUS
  <2> QED BY <2>1 DEF Joined
<1>2. ASSUME NEW j \in 1 .. l, j - 1 \in T
      PROVE  j \in T
  <2>1. PICK i \in 1 .. l : i = l + 1 - j
    OBVIOUS
  <2>2. l + 1 - (j - 1) = i + 1
    BY <2>1
  <2>3. g[i + 1] \in Seq(E) /\ g[i] = F[i] \o g[i + 1] /\ F[i] \in Seq(E)
    BY <1>2, <2>2 DEF Joined
  <2>4. g[i] \in Seq(E)
    BY <2>3
  <2> QED BY <2>1, <2>4
<1>3. \A j \in 1 .. l : j - 1 \in T => j \in T
  BY <1>2
<1> HIDE DEF T
<1>4. \A j \in 0 .. l : j \in T
  BY <1>1, <1>3, Induct
<1>5. ASSUME NEW i \in 1 .. l + 1
      PROVE  g[i] \in Seq(E)
  <2>1. l + 1 - i \in 0 .. l /\ l + 1 - (l + 1 - i) = i
    OBVIOUS
  <2>2. l + 1 - i \in T
    BY <1>4, <2>1
  <2>3. g[l + 1 - (l + 1 - i)] \in Seq(E)
    BY <2>2 DEF T
  <2> QED BY <2>1, <2>3
<1> QED BY <1>5

LEMMA JoinedBlocks ==
  ASSUME NEW E, NEW l \in Nat, NEW F \in [1 .. l -> Seq(E)], NEW g, Joined(g, F, l)
  PROVE  g[1] \in Seq(E) /\ \E off : Blocks(g[1], off, F, l)
<1>1. \A i \in 1 .. l + 1 : g[i] \in Seq(E)
  BY JoinedTyped
<1>2. PICK len : len = [i \in 1 .. l + 1 |-> Len(g[i])]
  OBVIOUS
<1>3. \A i \in 1 .. l + 1 : len[i] = Len(g[i]) /\ len[i] \in Nat
  BY <1>1, <1>2
<1>4. 1 \in 1 .. l + 1 /\ l + 1 \in 1 .. l + 1
  OBVIOUS
<1>5. PICK h \in Nat : h = len[1]
  BY <1>3, <1>4
<1>6. PICK t : t = g[1] /\ Len(t) = h
  BY <1>3, <1>4, <1>5
<1>7. ASSUME NEW i \in 1 .. l
      PROVE  /\ i \in 1 .. l + 1 /\ i + 1 \in 1 .. l + 1 /\ Len(F[i]) \in Nat
             /\ len[i] = Len(F[i]) + len[i + 1]
             /\ \A j \in 1 .. Len(F[i]) : g[i][j] = F[i][j]
             /\ \A j \in 1 .. len[i + 1] : g[i][Len(F[i]) + j] = g[i + 1][j]
  <2>1. i \in 1 .. l + 1 /\ i + 1 \in 1 .. l + 1
    OBVIOUS
  <2>2. PICK a, b, c : a = F[i] /\ b = g[i + 1] /\ c = g[i]
    OBVIOUS
  <2>3. a \in Seq(E) /\ b \in Seq(E) /\ c = a \o b
    BY <1>1, <2>1, <2>2 DEF Joined
  <2>4. PICK x, y \in Nat : x = Len(a) /\ y = Len(b)
    BY <2>3
  <2>5. /\ Len(c) = x + y
        /\ \A j \in 1 .. x : c[j] = a[j]
        /\ \A j \in 1 .. y : c[x + j] = b[j]
    BY <2>3, <2>4
  <2>6. len[i] = x + y /\ len[i + 1] = y
    BY <1>3, <2>1, <2>2, <2>4, <2>5
  <2> QED BY <2>1, <2>2, <2>4, <2>5, <2>6
<1> DEFINE T == {m \in 0 .. l : /\ len[m + 1] <= h
                                /\ \A j \in 1 .. len[m + 1] : t[h - len[m + 1] + j] = g[m + 1][j]}
<1>8. 0 \in T
  <2>1. 0 + 1 = 1 /\ 0 \in 0 .. l
    OBVIOUS
  <2>2. \A j \in 1 .. h : h - h + j = j
    OBVIOUS
  <2>3. \A j \in 1 .. h : t[h - h + j] = g[1][j]
    BY <1>6, <2>2
  <2>4. h <= h
    OBVIOUS
  <2> QED BY <1>5, <2>1, <2>3, <2>4
<1>9. ASSUME NEW m \in 1 .. l, m - 1 \in T
      PROVE  m \in T
  <2>1. (m - 1) + 1 = m
    OBVIOUS
  <2>2. /\ len[m] <= h
        /\ \A j \in 1 .. len[m] : t[h - len[m] + j] = g[m][j]
    BY <1>9, <2>1
  <2>3. PICK x, y, z \in Nat : x = Len(F[m]) /\ y = len[m + 1] /\ z = len[m] /\ z = x + y /\ z <= h
    BY <1>3, <1>7, <2>2
  <2>4. y <= h
    BY <1>5, <2>3
  <2>5. ASSUME NEW j \in 1 .. y
        PROVE  t[h - y + j] = g[m + 1][j]
    <3>1. z = x + y
      BY <2>3
    <3>2. x + j \in 1 .. z /\ h - z + (x + j) = h - y + j
      BY <3>1
    <3>3. t[h - z + (x + j)] = g[m][x + j]
      BY <2>2, <2>3, <3>2
    <3>4. g[m][x + j] = g[m + 1][j]
      BY <1>7, <2>3
    <3> QED BY <3>2, <3>3, <3>4
  <2>6. m \in 0 .. l
    OBVIOUS
  <2> QED BY <2>3, <2>4, <2>5, <2>6
<1>10. \A m \in 1 .. l : m - 1 \in T => m \in T
  BY <1>9
<1> HIDE DEF T
<1>11. \A m \in 0 .. l : m \in T
  BY <1>8, <1>10, Induct
<1>12. ASSUME NEW i \in 1 .. l + 1
       PROVE  /\ len[i] <= h
              /\ \A j \in 1 .. len[i] : t[h - len[i] + j] = g[i][j]
  <2>1. i - 1 \in 0 .. l /\ (i - 1) + 1 = i
    OBVIOUS
  <2>2. i - 1 \in T
    BY <1>11, <2>1
  <2>3. /\ len[(i - 1) + 1] <= h
        /\ \A j \in 1 .. len[(i - 1) + 1] : t[h - len[(i - 1) + 1] + j] = g[(i - 1) + 1][j]
    BY <2>2 DEF T
  <2> QED BY <2>1, <2>3
<1>13. PICK off : off = [i \in 1 .. l + 1 |-> h - len[i]]
  OBVIOUS
<1>14. \A i \in 1 .. l + 1 : off[i] = h - len[i] /\ off[i] \in Nat
  BY <1>3, <1>5, <1>12, <1>13
<1>15. off[1] = 0 /\ off[l + 1] = h
  <2>1. len[l + 1] = 0
    BY <1>3, <1>4 DEF Joined
  <2>2. off[1] = h - len[1] /\ off[l + 1] = h - len[l + 1]
    BY <1>4, <1>14
  <2>3. h - h = 0 /\ h - 0 = h
    OBVIOUS
  <2> QED BY <1>5, <2>1, <2>2, <2>3
<1>16. ASSUME NEW i \in 1 .. l
       PROVE  /\ off[i + 1] = off[i] + Len(F[i])
              /\ \A j \in 1 .. Len(F[i]) : t[off[i] + j] = F[i][j]
  <2>1. PICK x, y, z \in Nat : x = Len(F[i]) /\ y = len[i + 1] /\ z = len[i] /\ z = x + y
    <3>1. /\ Len(F[i]) \in Nat /\ len[i + 1] \in Nat /\ len[i] \in Nat
          /\ len[i] = Len(F[i]) + len[i + 1]
      <4>1. i \in 1 .. l + 1 /\ i + 1 \in 1 .. l + 1
        BY <1>7
      <4>2. len[i + 1] \in Nat /\ len[i] \in Nat
        BY <1>3, <4>1
      <4>3. Len(F[i]) \in Nat /\ len[i] = Len(F[i]) + len[i + 1]
        BY <1>7
      <4> QED BY <4>2, <4>3
    <3> QED BY <3>1
  <2>2. off[i + 1] = h - y /\ off[i] = h - z
    BY <1>7, <1>14, <2>1
  <2>3. z = x + y
    BY <2>1
  <2>4. h - y = (h - z) + x
    BY <2>3
  <2>5. off[i + 1] = off[i] + x
    BY <2>2, <2>4
  <2>6. ASSUME NEW j \in 1 .. x
        PROVE  t[off[i] + j] = F[i][j]
    <3>1. j \in 1 .. z /\ i \in 1 .. l + 1
      BY <2>1
    <3>2. t[h - z + j] = g[i][j]
      BY <1>12, <2>1, <3>1
    <3>3. g[i][j] = F[i][j]
      BY <1>7, <2>1
    <3> QED BY <2>2, <3>2, <3>3
  <2> QED BY <2>1, <2>5, <2>6
<1>17. Blocks(t, off, F, l)
  BY <1>6, <1>14, <1>15, <1>16 DEF Blocks
<1> QED BY <1>1, <1>4, <1>6, <1>17

(* Each paragraph is in one block.                                         *)
InBlock(k, t, off, F, l) ==
  \E i \in 1 .. l : \E j \in 1 .. Len(F[i]) : k = off[i] + j /\ t[k] = F[i][j]

LEMMA BlockOf ==
  ASSUME NEW E, NEW l \in Nat, NEW F \in [1 .. l -> Seq(E)], NEW t \in Seq(E), NEW off,
         Blocks(t, off, F, l), NEW k \in 1 .. Len(t)
  PROVE  InBlock(k, t, off, F, l)
<1> DEFINE T == {i \in 1 .. l + 1 : k <= off[i]}
<1>1. T \subseteq Nat /\ l + 1 \in T
  BY DEF Blocks
<1>2. PICK i \in T : \A y \in T : i <= y
  <2> HIDE DEF T
  <2>1. T # {}
    BY <1>1
  <2> QED BY <1>1, <2>1, Least
<1>3. i \in 1 .. l + 1 /\ k <= off[i] /\ k \in Nat /\ k > 0
  BY <1>2
<1>4. i # 1
  BY <1>3 DEF Blocks
<1>5. PICK m \in 1 .. l : m = i - 1 /\ m + 1 = i
  BY <1>3, <1>4
<1>6. off[i] = off[m] + Len(F[m]) /\ off[m] \in Nat /\ Len(F[m]) \in Nat
  BY <1>5 DEF Blocks
<1>7. ~(k <= off[m])
  <2>1. m \notin T
    BY <1>2, <1>3, <1>5
  <2> QED BY <2>1
<1>8. PICK j \in 1 .. Len(F[m]) : k = off[m] + j
  <2>1. k - off[m] \in 1 .. Len(F[m]) /\ k = off[m] + (k - off[m])
    BY <1>3, <1>6, <1>7
  <2> QED BY <2>1
<1>9. t[k] = F[m][j]
  BY <1>8 DEF Blocks
<1> QED BY <1>8, <1>9 DEF InBlock

LEMMA BlocksOrdered ==
  ASSUME NEW E, NEW l \in Nat, NEW F \in [1 .. l -> Seq(E)], NEW t, NEW off,
         Blocks(t, off, F, l), NEW i \in 1 .. l, NEW j \in i + 1 .. l
  PROVE  off[i] + Len(F[i]) <= off[j]
<1> DEFINE T == {m \in 0 .. l : i + 1 <= m => off[i + 1] <= off[m]}
<1>1. 0 \in T
  OBVIOUS
<1>2. ASSUME NEW m \in 1 .. l, m - 1 \in T
      PROVE  m \in T
  <2>1. CASE i + 1 <= m - 1
    <3>1. m - 1 \in 1 .. l /\ (m - 1) + 1 = m
      BY <2>1
    <3>2. off[m] = off[m - 1] + Len(F[m - 1]) /\ Len(F[m - 1]) \in Nat /\ off[m - 1] \in Nat
      BY <3>1 DEF Blocks
    <3>3. off[i + 1] <= off[m - 1]
      BY <1>2, <2>1
    <3>4. off[i + 1] \in Nat
      BY DEF Blocks
    <3> QED BY <3>2, <3>3, <3>4
  <2>2. CASE i + 1 = m
    <3>1. off[m] \in Nat
      BY DEF Blocks
    <3> QED BY <2>2, <3>1
  <2> QED BY <2>1, <2>2
<1>3. \A m \in 1 .. l : m - 1 \in T => m \in T
  BY <1>2
<1> HIDE DEF T
<1>4. \A m \in 0 .. l : m \in T
  BY <1>1, <1>3, Induct
<1>5. j \in T /\ i + 1 <= j
  BY <1>4
<1>6. off[i + 1] <= off[j]
  BY <1>5 DEF T
<1> QED BY <1>6 DEF Blocks

(* The steps of CompactMessages.                                           *)
LogStep(g, kind, s, i) ==
  IF i > Len(s) THEN <<>>
  ELSE IF isRepeatedToolResultStart(kind, s[i]) /\ consumed(s, i) > 1
       THEN <<ResultOf(CHOOSE c \in s[i].results : TRUE, "whole", consumed(s, i))>>
              \o g[i + consumed(s, i)]
       ELSE formatMessageToMDL(kind, s[i]) \o g[i + 1]
LogBy(g, kind, s) == g = [i \in 1 .. Len(s) + 1 |-> LogStep(g, kind, s, i)]

LEMMA LogEnds ==
  ASSUME NEW kind, NEW s \in Seq(Messages), NEW g
  PROVE  LogStep(g, kind, s, Len(s) + 1) = <<>>
BY DEF LogStep

Steps(g, kind, s) ==
  \A i \in 1 .. Len(s) : LogStep(g, kind, s, i) = formatMessageToMDL(kind, s[i]) \o g[i + 1]

LEMMA LogSteps ==
  ASSUME NEW kind, NEW n \in Nat, NEW s \in Seq(Messages), Ranged(s, n), NEW g
  PROVE  Steps(g, kind, s)
<1> SUFFICES ASSUME NEW i \in 1 .. Len(s)
             PROVE  LogStep(g, kind, s, i) = formatMessageToMDL(kind, s[i]) \o g[i + 1]
  BY DEF Steps
<1>1. ~(i > Len(s))
  OBVIOUS
<1>2. ~(isRepeatedToolResultStart(kind, s[i]) /\ consumed(s, i) > 1)
  BY NoneMerged
<1> QED BY <1>1, <1>2 DEF LogStep

BlocksOf(kind, s) == [i \in 1 .. Len(s) |-> formatMessageToMDL(kind, s[i])]

LEMMA BlocksTold ==
  ASSUME NEW kind, NEW n \in Nat, NEW s \in Seq(Messages), Ranged(s, n), NEW F, F = BlocksOf(kind, s)
  PROVE  /\ F \in [1 .. Len(s) -> Seq(Entries)]
         /\ \A i \in 1 .. Len(s) : s[i] \in Messages /\ MessageFormed(s[i], n)
                                     /\ Told(F[i], kind, s[i])
<1>1. ASSUME NEW i \in 1 .. Len(s)
      PROVE  /\ s[i] \in Messages /\ MessageFormed(s[i], n) /\ Told(F[i], kind, s[i])
             /\ F[i] \in Seq(Entries)
  <2>1. s[i] \in Messages /\ MessageFormed(s[i], n)
    BY DEF Ranged, Formed
  <2>2. F[i] = formatMessageToMDL(kind, s[i])
    BY DEF BlocksOf
  <2>3. Told(F[i], kind, s[i])
    BY <2>1, <2>2, MessageTold
  <2>4. F[i] \in Seq(Entries)
    BY <2>3 DEF Told
  <2> QED BY <2>1, <2>3, <2>4
<1>2. DOMAIN F = 1 .. Len(s) /\ F = [i \in 1 .. Len(s) |-> F[i]]
  BY DEF BlocksOf
<1> QED BY <1>1, <1>2

LEMMA LogExists ==
  ASSUME NEW kind, NEW n \in Nat, NEW s \in Seq(Messages), Ranged(s, n)
  PROVE  \E g : LogBy(g, kind, s)
<1>1. PICK F, l : F = BlocksOf(kind, s) /\ l = Len(s)
  OBVIOUS
<1>2. l \in Nat /\ F \in [1 .. l -> Seq(Entries)]
      /\ \A i \in 1 .. l : F[i] = formatMessageToMDL(kind, s[i])
  <2>1. F \in [1 .. Len(s) -> Seq(Entries)]
    BY <1>1, BlocksTold
  <2>2. \A i \in 1 .. Len(s) : F[i] = formatMessageToMDL(kind, s[i])
    BY <1>1 DEF BlocksOf
  <2> QED BY <1>1, <2>1, <2>2
<1>3. PICK SE : SE = Seq(Entries)
  OBVIOUS
<1> DEFINE G == [p \in SE \X (1 .. l) |-> F[l + 1 - p[2]] \o p[1]]
<1>4. G \in [SE \X (1 .. l) -> SE]
  <2>1. ASSUME NEW p \in SE \X (1 .. l)
        PROVE  F[l + 1 - p[2]] \o p[1] \in SE
    <3>1. p[1] \in SE /\ p[2] \in 1 .. l
      OBVIOUS
    <3>2. l + 1 - p[2] \in 1 .. l
      BY <1>2, <3>1
    <3>3. F[l + 1 - p[2]] \in SE
      BY <1>2, <1>3, <3>2
    <3> QED BY <1>3, <3>1, <3>3
  <2> QED BY <2>1
<1>5. <<>> \in SE
  BY <1>3
<1>6. PICK f \in [0 .. l -> SE] : Recurs(f, l, <<>>, G)
  <2> HIDE DEF G
  <2> QED BY <1>2, <1>4, <1>5, Recursion
<1>7. PICK g : g = [i \in 1 .. l + 1 |-> f[l + 1 - i]]
  OBVIOUS
<1>8. g[l + 1] = <<>>
  <2>1. l + 1 \in 1 .. l + 1 /\ l + 1 - (l + 1) = 0
    BY <1>2
  <2> QED BY <1>6, <1>7, <2>1 DEF Recurs
<1>9. ASSUME NEW i \in 1 .. l
      PROVE  g[i] = F[i] \o g[i + 1]
  <2>1. PICK j \in 1 .. l : j = l + 1 - i
    BY <1>2
  <2>2. j - 1 = l + 1 - (i + 1) /\ j - 1 \in 0 .. l /\ l + 1 - j = i /\ i + 1 \in 1 .. l + 1
        /\ i \in 1 .. l + 1
    BY <1>2, <2>1
  <2>3. f[j] = G[<<f[j - 1], j>>]
    BY <1>6 DEF Recurs
  <2>4. f[j - 1] \in SE
    BY <2>2
  <2>5. G[<<f[j - 1], j>>] = F[l + 1 - j] \o f[j - 1]
    BY <2>4
  <2>6. g[i] = f[j] /\ g[i + 1] = f[j - 1]
    BY <1>7, <2>1, <2>2
  <2> QED BY <2>2, <2>3, <2>5, <2>6
<1>10. ASSUME NEW i \in 1 .. l + 1
       PROVE  g[i] = LogStep(g, kind, s, i)
  <2>1. CASE i = l + 1
    <3>1. LogStep(g, kind, s, l + 1) = <<>>
      BY <1>1, LogEnds
    <3> QED BY <1>8, <2>1, <3>1
  <2>2. CASE i \in 1 .. l
    <3>1. LogStep(g, kind, s, i) = formatMessageToMDL(kind, s[i]) \o g[i + 1]
      BY <1>1, <2>2, LogSteps DEF Steps
    <3> QED BY <1>2, <1>9, <2>2, <3>1
  <2> QED BY <1>2, <2>1, <2>2
<1>11. LogBy(g, kind, s)
  <2>1. g = [i \in 1 .. l + 1 |-> g[i]]
    BY <1>7
  <2> QED BY <1>1, <1>10, <2>1 DEF LogBy
<1> QED BY <1>11

LEMMA LogBlocks ==
  ASSUME NEW kind, NEW n \in Nat, NEW s \in Seq(Messages), Ranged(s, n), NEW F, F = BlocksOf(kind, s)
  PROVE  CompactMessages(kind, s) \in Seq(Entries)
         /\ \E off : Blocks(CompactMessages(kind, s), off, F, Len(s))
<1>1. LogBy(CHOOSE g : LogBy(g, kind, s), kind, s)
  BY LogExists
<1>2. CompactMessages(kind, s) = (CHOOSE g : LogBy(g, kind, s))[1]
  BY DEF CompactMessages, LogBy, LogStep
<1>3. PICK g : LogBy(g, kind, s) /\ CompactMessages(kind, s) = g[1]
  BY <1>1, <1>2
<1>4. PICK l \in Nat : l = Len(s)
  OBVIOUS
<1>5. \A i \in 1 .. l + 1 : g[i] = LogStep(g, kind, s, i)
  BY <1>3, <1>4 DEF LogBy
<1>6. g[l + 1] = <<>>
  <2>1. LogStep(g, kind, s, l + 1) = <<>>
    BY <1>4, LogEnds
  <2>2. l + 1 \in 1 .. l + 1
    OBVIOUS
  <2> QED BY <1>5, <2>1, <2>2
<1>7. ASSUME NEW i \in 1 .. l
      PROVE  g[i] = F[i] \o g[i + 1]
  <2>1. LogStep(g, kind, s, i) = formatMessageToMDL(kind, s[i]) \o g[i + 1]
    <3>1. i \in 1 .. Len(s)
      BY <1>4
    <3>2. Steps(g, kind, s)
      BY LogSteps
    <3> QED BY <3>1, <3>2 DEF Steps
  <2>2. F[i] = formatMessageToMDL(kind, s[i])
    BY <1>4 DEF BlocksOf
  <2>3. i \in 1 .. l + 1
    OBVIOUS
  <2> QED BY <1>5, <2>1, <2>2, <2>3
<1>8. Joined(g, F, l)
  BY <1>6, <1>7 DEF Joined
<1>9. F \in [1 .. l -> Seq(Entries)]
  BY <1>4, BlocksTold
<1>10. g[1] \in Seq(Entries) /\ \E off : Blocks(g[1], off, F, l)
  BY <1>8, <1>9, JoinedBlocks
<1> QED BY <1>3, <1>4, <1>10

(* Whose paragraphs a block has.                                           *)
LEMMA ToldBy ==
  ASSUME NEW kind, NEW m \in Messages, NEW f, Told(f, kind, m), NEW j \in 1 .. Len(f)
  PROVE  /\ f[j].by = "user" <=> m.role = "user" /\ m.text
         /\ f[j].by = "user" => j = 1
         /\ f[j].by = "result" <=> m.role = "user" /\ ~m.text
<1>1. m.role \in {"user", "assistant", "system"} /\ m.text \in BOOLEAN
  BY FieldsTyped
<1>2. CASE m.role = "user" /\ ~m.text
  <2>1. f[j].by = "result"
    BY <1>2 DEF Told
  <2> QED BY <1>2, <2>1
<1>3. CASE m.role = "user" /\ m.text
  <2>1. Len(f) = 1 /\ f[1] = Prompts
    BY <1>3 DEF Told
  <2>2. j = 1
    BY <2>1
  <2>3. f[j].by = "user"
    BY <2>1, <2>2, Paragraphs
  <2> QED BY <1>3, <2>2, <2>3
<1>4. CASE m.role = "assistant"
  <2>1. Len(f) = 1 /\ f[1] = Replies(m)
    BY <1>4 DEF Told
  <2>2. j = 1
    BY <2>1
  <2>3. f[j].by = "assistant"
    BY <2>1, <2>2, Paragraphs
  <2> QED BY <1>4, <2>3
<1>5. CASE m.role = "system"
  <2>1. Len(f) = 0
    BY <1>5 DEF Told
  <2> QED BY <2>1
<1> QED BY <1>1, <1>2, <1>3, <1>4, <1>5

SaidIn(s) == {i \in 1 .. Len(s) : s[i].role = "user" /\ s[i].text}
ParasBy(log, who) == {i \in DOMAIN log : log[i].by = who}

(* Every text of a user message is told by a paragraph of its own.         *)
LEMMA PromptsTold ==
  ASSUME NEW kind, NEW n \in Nat, NEW s \in Seq(Messages), Ranged(s, n)
  PROVE  Cardinality(ParasBy(CompactMessages(kind, s), "user")) = Cardinality(SaidIn(s))
<1>1. PICK F, l, log : F = BlocksOf(kind, s) /\ l = Len(s) /\ log = CompactMessages(kind, s)
  OBVIOUS
<1>2. l \in Nat /\ F \in [1 .. l -> Seq(Entries)]
      /\ \A i \in 1 .. l : s[i] \in Messages /\ MessageFormed(s[i], n) /\ Told(F[i], kind, s[i])
  <2>1. F \in [1 .. Len(s) -> Seq(Entries)]
        /\ \A i \in 1 .. Len(s) : s[i] \in Messages /\ MessageFormed(s[i], n) /\ Told(F[i], kind, s[i])
    BY <1>1, BlocksTold
  <2> QED BY <1>1, <2>1
<1>3. log \in Seq(Entries) /\ \E off : Blocks(log, off, F, Len(s))
  BY <1>1, LogBlocks
<1>4. PICK off : Blocks(log, off, F, l)
  BY <1>1, <1>3
<1>5. PICK S, U : S = SaidIn(s) /\ U = ParasBy(log, "user")
  OBVIOUS
<1>6. PICK b : b = [i \in S |-> off[i] + 1]
  OBVIOUS
<1>7. S \subseteq 1 .. l /\ \A i \in S : s[i].role = "user" /\ s[i].text
  BY <1>1, <1>5 DEF SaidIn
<1>8. DOMAIN log = 1 .. Len(log) /\ Len(log) \in Nat
  BY <1>3
<1>9. ASSUME NEW i \in S
      PROVE  /\ b[i] = off[i] + 1 /\ off[i] \in Nat /\ b[i] \in U /\ Len(F[i]) = 1
  <2>1. i \in 1 .. l /\ Told(F[i], kind, s[i])
    BY <1>2, <1>7
  <2>2. Len(F[i]) = 1 /\ F[i][1] = Prompts
    BY <1>7, <2>1 DEF Told
  <2>3. b[i] = off[i] + 1 /\ off[i] \in Nat
    <3>1. i \in 1 .. l + 1
      BY <1>2, <2>1
    <3> QED BY <1>4, <1>6, <3>1 DEF Blocks
  <2>4. log[off[i] + 1] = Prompts
    <3>1. 1 \in 1 .. Len(F[i])
      BY <2>2
    <3>2. log[off[i] + 1] = F[i][1]
      BY <1>4, <2>1, <3>1 DEF Blocks
    <3> QED BY <2>2, <3>2
  <2>5. off[i] + 1 <= Len(log)
    <3>1. off[i + 1] = off[i] + 1
      BY <1>4, <2>1, <2>2 DEF Blocks
    <3>2. CASE i = l
      BY <1>4, <1>8, <3>1, <3>2 DEF Blocks
    <3>3. CASE i # l
      <4>1. l \in i + 1 .. l /\ l \in 1 .. l
        BY <1>2, <2>1, <3>3
      <4>2. off[i] + Len(F[i]) <= off[l]
        BY <1>2, <1>4, <2>1, <4>1, BlocksOrdered
      <4>3. off[l + 1] = off[l] + Len(F[l]) /\ off[l + 1] = Len(log) /\ off[l] \in Nat
        <5>1. l \in 1 .. l + 1
          BY <1>2, <4>1
        <5> QED BY <1>4, <4>1, <5>1 DEF Blocks
      <4>4. Len(F[l]) \in Nat
        <5>1. F[l] \in Seq(Entries)
          BY <1>2, <4>1
        <5> QED BY <5>1
      <4> QED BY <2>2, <2>3, <4>2, <4>3, <4>4
    <3> QED BY <3>2, <3>3
  <2>6. b[i] \in 1 .. Len(log) /\ log[b[i]].by = "user"
    BY <1>8, <2>3, <2>4, <2>5, Paragraphs
  <2> QED BY <1>5, <1>8, <2>2, <2>3, <2>6 DEF ParasBy
<1>10. ASSUME NEW i \in S, NEW j \in S, i < j
       PROVE  b[i] # b[j]
  <2>1. i \in 1 .. l /\ j \in i + 1 .. l
    BY <1>2, <1>7, <1>10
  <2>2. off[i] + Len(F[i]) <= off[j]
    BY <1>2, <1>4, <2>1, BlocksOrdered
  <2>3. b[i] = off[i] + 1 /\ b[j] = off[j] + 1 /\ off[i] \in Nat /\ off[j] \in Nat /\ Len(F[i]) = 1
    BY <1>9
  <2>4. off[i] + 1 <= off[j]
    BY <2>2, <2>3
  <2> QED BY <2>3, <2>4
<1>11. ASSUME NEW k \in U
       PROVE  \E i \in S : b[i] = k
  <2>1. k \in 1 .. Len(log) /\ log[k].by = "user"
    BY <1>5, <1>8 DEF ParasBy
  <2>2. PICK i \in 1 .. l : \E j \in 1 .. Len(F[i]) : k = off[i] + j /\ log[k] = F[i][j]
    <3>1. l \in Nat /\ F \in [1 .. l -> Seq(Entries)] /\ log \in Seq(Entries)
          /\ Blocks(log, off, F, l) /\ k \in 1 .. Len(log)
      BY <1>2, <1>3, <1>4, <2>1
    <3>2. InBlock(k, log, off, F, l)
      BY <3>1, BlockOf
    <3> QED BY <3>2 DEF InBlock
  <2>3. PICK j \in 1 .. Len(F[i]) : k = off[i] + j /\ log[k] = F[i][j]
    BY <2>2
  <2>4. F[i][j].by = "user" /\ s[i] \in Messages /\ Told(F[i], kind, s[i])
    BY <1>2, <2>1, <2>3
  <2>5. s[i].role = "user" /\ s[i].text /\ j = 1
    BY <2>4, ToldBy
  <2>6. i \in S
    BY <1>1, <1>5, <2>5 DEF SaidIn
  <2> QED BY <1>9, <2>3, <2>5, <2>6
<1>12. b \in Bijection(S, U)
  <2>1. b \in [S -> U]
    BY <1>6, <1>9
  <2>2. ASSUME NEW i \in S, NEW j \in S, b[i] = b[j]
        PROVE  i = j
    <3>1. i \in Nat /\ j \in Nat
      BY <1>7
    <3>2. ~(i < j) /\ ~(j < i)
      BY <1>10, <2>2
    <3> QED BY <3>1, <3>2
  <2>3. b \in Injection(S, U)
    BY <2>1, <2>2 DEF Injection, IsInjective
  <2>4. b \in Surjection(S, U)
    BY <1>11, <2>1 DEF Surjection
  <2> QED BY <2>3, <2>4 DEF Bijection
<1>13. IsFiniteSet(S)
  <2>1. IsFiniteSet(1 .. l)
    BY <1>2, FS_Interval
  <2> QED BY <1>7, <2>1, FS_Subset
<1>14. Cardinality(S) = Cardinality(U)
  <2>1. ExistsBijection(S, U)
    BY <1>12 DEF ExistsBijection
  <2> QED BY <1>13, <2>1, FS_Bijection
<1> QED BY <1>1, <1>5, <1>14

(* A log of a history, and the blocks it is made of.                       *)
Logged(log, off, F, kind, s, n) ==
  /\ log \in Seq(Entries) /\ Blocks(log, off, F, Len(s))
  /\ F \in [1 .. Len(s) -> Seq(Entries)]
  /\ \A i \in 1 .. Len(s) : s[i] \in Messages /\ MessageFormed(s[i], n) /\ Told(F[i], kind, s[i])

LEMMA LogIs ==
  ASSUME NEW kind, NEW n \in Nat, NEW s \in Seq(Messages), Ranged(s, n)
  PROVE  \E off, F : Logged(CompactMessages(kind, s), off, F, kind, s, n)
<1>1. PICK F, log : F = BlocksOf(kind, s) /\ log = CompactMessages(kind, s)
  OBVIOUS
<1>2. F \in [1 .. Len(s) -> Seq(Entries)]
      /\ \A i \in 1 .. Len(s) : s[i] \in Messages /\ MessageFormed(s[i], n) /\ Told(F[i], kind, s[i])
  BY <1>1, BlocksTold
<1>3. log \in Seq(Entries) /\ \E off : Blocks(log, off, F, Len(s))
  BY <1>1, LogBlocks
<1>4. PICK off : Blocks(log, off, F, Len(s))
  BY <1>3
<1>5. Logged(log, off, F, kind, s, n)
  BY <1>2, <1>3, <1>4 DEF Logged
<1> QED BY <1>1, <1>5

(* Where a paragraph of block i stands: behind those of the blocks before. *)
Placed(log, off, F, i, j) ==
  off[i] + j \in DOMAIN log /\ off[i] \in Nat /\ log[off[i] + j] = F[i][j]

LEMMA PlaceOf ==
  ASSUME NEW kind, NEW n \in Nat, NEW s \in Seq(Messages), NEW log, NEW off, NEW F,
         Logged(log, off, F, kind, s, n), NEW i \in 1 .. Len(s), NEW j \in 1 .. Len(F[i])
  PROVE  Placed(log, off, F, i, j)
<1>1. PICK l \in Nat : l = Len(s)
  OBVIOUS
<1>2. /\ log \in Seq(Entries) /\ Blocks(log, off, F, l) /\ F \in [1 .. l -> Seq(Entries)]
  BY <1>1 DEF Logged
<1>3. DOMAIN log = 1 .. Len(log) /\ Len(log) \in Nat
  BY <1>2
<1>4. i \in 1 .. l /\ i \in 1 .. l + 1 /\ l \in 1 .. l /\ l \in 1 .. l + 1
  BY <1>1
<1>5. off[i] \in Nat /\ log[off[i] + j] = F[i][j] /\ off[i + 1] = off[i] + Len(F[i])
  BY <1>2, <1>4 DEF Blocks
<1>6. Len(F[i]) \in Nat /\ Len(F[l]) \in Nat
  <2>1. F[i] \in Seq(Entries) /\ F[l] \in Seq(Entries)
    BY <1>2, <1>4
  <2> QED BY <2>1
<1>7. off[i] + Len(F[i]) <= Len(log)
  <2>1. off[l + 1] = Len(log) /\ off[l + 1] = off[l] + Len(F[l]) /\ off[l] \in Nat
    BY <1>2, <1>4 DEF Blocks
  <2>2. CASE i = l
    BY <1>5, <1>6, <2>1, <2>2
  <2>3. CASE i # l
    <3>1. l \in i + 1 .. l
      BY <1>4, <2>3
    <3>2. off[i] + Len(F[i]) <= off[l]
      BY <1>2, <1>4, <3>1, BlocksOrdered
    <3> QED BY <1>5, <1>6, <2>1, <3>2
  <2> QED BY <2>2, <2>3
<1> QED BY <1>3, <1>5, <1>6, <1>7 DEF Placed

LEMMA PlaceIn ==
  ASSUME NEW kind, NEW n \in Nat, NEW s \in Seq(Messages), NEW log, NEW off, NEW F,
         Logged(log, off, F, kind, s, n), NEW k \in DOMAIN log
  PROVE  InBlock(k, log, off, F, Len(s))
<1>1. PICK l \in Nat : l = Len(s)
  OBVIOUS
<1>2. /\ log \in Seq(Entries) /\ Blocks(log, off, F, l) /\ F \in [1 .. l -> Seq(Entries)]
  BY <1>1 DEF Logged
<1>3. k \in 1 .. Len(log)
  BY <1>2
<1> QED BY <1>1, <1>2, <1>3, BlockOf

(* Every reply is told.                                                    *)
ReplyAt(log, off, F, m, i) ==
  /\ off[i] + 1 \in DOMAIN log /\ log[off[i] + 1] = Replies(m)
  /\ off[i] \in Nat /\ Len(F[i]) = 1

LEMMA ReplyTold ==
  ASSUME NEW kind, NEW n \in Nat, NEW s \in Seq(Messages), NEW log, NEW off, NEW F,
         Logged(log, off, F, kind, s, n), NEW i \in 1 .. Len(s), s[i].role = "assistant"
  PROVE  ReplyAt(log, off, F, s[i], i)
<1>1. Told(F[i], kind, s[i])
  BY DEF Logged
<1>2. Len(F[i]) = 1 /\ F[i][1] = Replies(s[i])
  BY <1>1 DEF Told
<1>3. 1 \in 1 .. Len(F[i])
  BY <1>2
<1>4. Placed(log, off, F, i, 1)
  BY <1>3, PlaceOf
<1> QED BY <1>2, <1>4 DEF Placed, ReplyAt

(* The result of call c, at place i, is told once and by itself, and       *)
(* behind its call unless it stands first.                                 *)
ResultTold(log, c, i) ==
  \E k \in DOMAIN log :
    /\ {x \in ParasBy(log, "result") : c \in log[x].calls} = {k}
    /\ log[k].merged = 1
    /\ i > 1 => \E j \in 1 .. k - 1 : log[j].by = "assistant" /\ c \in log[j].calls

LEMMA ResultToldOnce ==
  ASSUME NEW kind, NEW n \in Nat, NEW s \in Seq(Messages), Ranged(s, n), NEW log, NEW off, NEW F,
         Logged(log, off, F, kind, s, n), NEW i \in 1 .. Len(s), ~s[i].text,
         NEW c \in KeptResults(kind, s[i])
  PROVE  ResultTold(log, c, i)
<1>1. PICK l \in Nat : l = Len(s)
  OBVIOUS
<1>2. c \in s[i].results /\ i \in 1 .. l
  BY <1>1 DEF KeptResults
<1>3. \A k \in 1 .. l : s[k] \in Messages /\ MessageFormed(s[k], n) /\ Told(F[k], kind, s[k])
  BY <1>1 DEF Logged
<1>4. s[i].role = "user"
  BY <1>2, <1>3 DEF MessageFormed
<1>5. PICK j \in 1 .. Len(F[i]) : F[i][j].calls = {c}
  BY <1>2, <1>3, <1>4 DEF Told
<1>6. F[i][j].by = "result" /\ F[i][j].merged = 1
  BY <1>2, <1>3, <1>4, <1>5 DEF Told
<1>7. PICK p : p = off[i] + j
  OBVIOUS
<1>8. p \in DOMAIN log /\ off[i] \in Nat /\ log[p] = F[i][j]
  <2>1. Placed(log, off, F, i, j)
    BY <1>5, PlaceOf
  <2> QED BY <1>7, <2>1 DEF Placed
<1>9. p \in ParasBy(log, "result") /\ c \in log[p].calls /\ log[p].merged = 1
  BY <1>5, <1>6, <1>8 DEF ParasBy
<1>10. ASSUME NEW k \in ParasBy(log, "result"), c \in log[k].calls
       PROVE  k = p
  <2>1. k \in DOMAIN log /\ log[k].by = "result"
    BY DEF ParasBy
  <2>2. InBlock(k, log, off, F, l)
    BY <1>1, <2>1, PlaceIn
  <2>3. PICK a \in 1 .. l : \E b \in 1 .. Len(F[a]) : k = off[a] + b /\ log[k] = F[a][b]
    BY <2>2 DEF InBlock
  <2>4. PICK b \in 1 .. Len(F[a]) : k = off[a] + b /\ log[k] = F[a][b]
    BY <2>3
  <2>5. s[a].role = "user" /\ ~s[a].text
    BY <1>3, <2>1, <2>4, ToldBy
  <2>6. c \in s[a].results
    <3>1. \E d \in s[a].results : F[a][b].calls = {d}
      BY <1>3, <2>5 DEF Told
    <3> QED BY <1>10, <2>4, <3>1
  <2>7. a = i
    BY <1>1, <1>2, <2>6 DEF Ranged, OnceIn
  <2>8. b = j
    <3>1. b \in 1 .. Len(F[i]) /\ c \in F[i][b].calls
      BY <1>10, <2>4, <2>7
    <3>2. F[i][b].calls \cap F[i][j].calls # {}
      BY <1>5, <3>1
    <3> QED BY <1>2, <1>3, <1>4, <1>5, <3>1, <3>2 DEF Told
  <2> QED BY <1>7, <2>4, <2>7, <2>8
<1>11. {k \in ParasBy(log, "result") : c \in log[k].calls} = {p}
  BY <1>9, <1>10
<1>12. ASSUME i > 1
       PROVE  \E q \in 1 .. p - 1 : log[q].by = "assistant" /\ c \in log[q].calls
  <2>1. Answered(s, i, 1)
    BY <1>1, <1>2, <1>12 DEF Ranged, PairedFrom
  <2>2. PICK x \in 1 .. l : x < i /\ c \in s[x].calls
    BY <1>1, <1>2, <2>1 DEF Answered, Answers
  <2>3. s[x].role = "assistant" /\ x \in 1 .. Len(s)
    BY <1>1, <1>3, <2>2 DEF MessageFormed
  <2>4. ReplyAt(log, off, F, s[x], x)
    BY <2>3, ReplyTold
  <2>5. PICK q : q = off[x] + 1
    OBVIOUS
  <2>6. q \in DOMAIN log /\ log[q] = Replies(s[x]) /\ off[x] \in Nat /\ Len(F[x]) = 1
    BY <2>4, <2>5 DEF ReplyAt
  <2>7. off[x] + Len(F[x]) <= off[i]
    <3>1. Blocks(log, off, F, l) /\ F \in [1 .. l -> Seq(Entries)]
      BY <1>1 DEF Logged
    <3>2. i \in x + 1 .. l
      BY <1>2, <2>2
    <3> QED BY <2>2, <3>1, <3>2, BlocksOrdered
  <2>8. q \in 1 .. p - 1
    <3>1. PICK y, z \in Nat : y = off[x] /\ z = off[i]
      BY <1>8, <2>6
    <3>2. y + 1 <= z /\ q = y + 1 /\ p = z + j
      BY <1>7, <2>5, <2>6, <2>7, <3>1
    <3>3. j \in Nat /\ j > 0
      BY <1>5
    <3> QED BY <3>2, <3>3
  <2>9. log[q].by = "assistant" /\ c \in log[q].calls
    BY <1>3, <2>2, <2>6, Paragraphs
  <2> QED BY <2>8, <2>9
<1> QED BY <1>8, <1>9, <1>11, <1>12 DEF ResultTold

TellsOf(log, kind, m, i) ==
  /\ m.role = "assistant" => \E k \in DOMAIN log : log[k] = Replies(m)
  /\ ~m.text => \A c \in KeptResults(kind, m) : ResultTold(log, c, i)

LEMMA AllTold ==
  ASSUME NEW kind, NEW n \in Nat, NEW s \in Seq(Messages), Ranged(s, n), NEW log,
         log = CompactMessages(kind, s), NEW i \in 1 .. Len(s)
  PROVE  TellsOf(log, kind, s[i], i)
<1>1. PICK off, F : Logged(log, off, F, kind, s, n)
  BY LogIs
<1>2. ASSUME s[i].role = "assistant"
      PROVE  \E k \in DOMAIN log : log[k] = Replies(s[i])
  <2>1. ReplyAt(log, off, F, s[i], i)
    BY <1>1, <1>2, ReplyTold
  <2> QED BY <2>1 DEF ReplyAt
<1>3. ASSUME ~s[i].text, NEW c \in KeptResults(kind, s[i])
      PROVE  ResultTold(log, c, i)
  BY <1>1, <1>3, ResultToldOnce
<1> QED BY <1>2, <1>3 DEF TellsOf

(* The log of an execution tells of the range it records, whatever the     *)
(* results say, every reply, the text of every user message, and each      *)
(* result that is not noise once and by itself; behind its call, unless    *)
(* the range begins with it.  mergeRepeatedToolResults finds none to merge *)
(* (saveSkillExecutionMD and CompactMessages of internal/memory).          *)
THEOREM LogComplete == Spec => []LogTellsAll
<1>1. ASSUME CompactionInv, NEW kind, NEW log, log = CompactMessages(kind, Recorded)
      PROVE  /\ Cardinality({k \in DOMAIN log : log[k].by = "user"}) =
                  Cardinality({i \in DOMAIN Recorded : Recorded[i].role = "user" /\ Recorded[i].text})
             /\ \A i \in DOMAIN Recorded :
                  /\ Recorded[i].role = "assistant" =>
                       \E k \in DOMAIN log : log[k] = Replies(Recorded[i])
                  /\ ~Recorded[i].text => \A c \in KeptResults(kind, Recorded[i]) :
                       \E k \in DOMAIN log :
                         /\ {l \in {h \in DOMAIN log : log[h].by = "result"} : c \in log[l].calls} = {k}
                         /\ log[k].merged = 1
                         /\ i > 1 => \E j \in 1 .. k - 1 : log[j].by = "assistant" /\ c \in log[j].calls
  <2>1. PICK n, s : n = made /\ s = Recorded
    OBVIOUS
  <2>2. n \in Nat /\ s \in Seq(Messages) /\ Ranged(s, n) /\ DOMAIN s = 1 .. Len(s)
    BY <1>1, <2>1, RecordedRanged
  <2>3. Cardinality(ParasBy(log, "user")) = Cardinality(SaidIn(s))
    BY <1>1, <2>1, <2>2, PromptsTold
  <2>4. ParasBy(log, "user") = {k \in DOMAIN log : log[k].by = "user"}
    BY DEF ParasBy
  <2>5. SaidIn(s) = {i \in DOMAIN s : s[i].role = "user" /\ s[i].text}
    BY <2>2 DEF SaidIn
  <2>6. ASSUME NEW i \in DOMAIN s
        PROVE  /\ s[i].role = "assistant" => \E k \in DOMAIN log : log[k] = Replies(s[i])
               /\ ~s[i].text => \A c \in KeptResults(kind, s[i]) : ResultTold(log, c, i)
    <3>1. log = CompactMessages(kind, s) /\ i \in 1 .. Len(s)
      BY <1>1, <2>1, <2>2
    <3>2. TellsOf(log, kind, s[i], i)
      BY <2>2, <3>1, AllTold
    <3> QED BY <3>2 DEF TellsOf
  <2>7. ASSUME NEW i \in DOMAIN s, ~s[i].text, NEW c \in KeptResults(kind, s[i])
        PROVE  \E k \in DOMAIN log :
                 /\ {l \in {h \in DOMAIN log : log[h].by = "result"} : c \in log[l].calls} = {k}
                 /\ log[k].merged = 1
                 /\ i > 1 => \E j \in 1 .. k - 1 : log[j].by = "assistant" /\ c \in log[j].calls
    <3>1. ResultTold(log, c, i)
      BY <2>6, <2>7
    <3> QED BY <3>1, Zenon DEF ResultTold, ParasBy
  <2> QED BY <2>1, <2>3, <2>4, <2>5, <2>6, <2>7, Zenon
<1>2. CompactionInv => LogTellsAll
  BY <1>1, Zenon DEF LogTellsAll
<1> QED BY <1>2, CompactionCorrect, PTL
=================================================================================
