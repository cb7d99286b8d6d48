----------------------------- MODULE Recursion -----------------------------
(***************************************************************************)
(* Lemmas that proofs about several components rest on: a set of numbers   *)
(* has a least element, a recursive function over 0..N exists, what        *)
(* appending, concatenating and selecting do to the elements of a          *)
(* sequence, and which of these keep its elements distinct.  The induction *)
(* theorems of the library take an operator, so induction is done here by  *)
(* the least counterexample.                                               *)
(***************************************************************************)
EXTENDS Naturals, Sequences, SequencesExt, FiniteSetTheorems, WellFoundedInduction, TLAPS

\* A set of numbers that is not empty has a least element.
LEMMA LeastOf ==
  ASSUME NEW S, S \subseteq Nat, S # {}
  PROVE  \E x \in S : \A y \in S : x <= y
<1> DEFINE Below == {0..x : x \in S}
<1>1. Below \subseteq FiniteSubsetsOf(Nat) /\ Below # {}
  <2>1. \A x \in S : 0..x \subseteq Nat /\ IsFiniteSet(0..x)
    BY FS_Interval
  <2> QED
    BY <2>1 DEF FiniteSubsetsOf
<1>2. \E X \in Below : \A Y \in Below : <<Y, X>> \notin StrictSubsetOrdering(Nat)
  <2> HIDE DEF Below
  <2> QED
    BY <1>1, FS_StrictSubsetOrderingWellFounded, WFMin
<1>3. PICK x \in S : \A y \in S : <<0..y, 0..x>> \notin StrictSubsetOrdering(Nat)
  BY <1>2
<1>4. ASSUME NEW y \in S, y < x
      PROVE  <<0..y, 0..x>> \in StrictSubsetOrdering(Nat)
  <2>1. 0..y \subseteq 0..x /\ 0..x \subseteq Nat /\ x \in 0..x /\ x \notin 0..y
    BY <1>4
  <2> QED
    BY <2>1 DEF StrictSubsetOrdering
<1>5. \A y \in S : ~(y < x)
  <2> HIDE DEF Below
  <2> QED
    BY <1>3, <1>4, Zenon
<1> QED
  BY <1>5

\* Recursion over 0..N: the values are there, and so the function that the
\* definition chooses.
StepFunctions(N, X) == [1..N -> [X -> X]]
Recurs(f, N, X, base, step) ==
  f \in [0..N -> X] /\ f[0] = base /\ \A n \in 1..N : f[n] = step[n][f[n - 1]]

LEMMA RecursionTo ==
  ASSUME NEW X, NEW base \in X, NEW N \in Nat, NEW step \in StepFunctions(N, X)
  PROVE  \E f : Recurs(f, N, X, base, step)
<1> USE DEF StepFunctions
<1> DEFINE Upto(k) == \E f \in [0..k -> X] : f[0] = base /\ \A n \in 1..k : f[n] = step[n][f[n - 1]]
           Bad == {k \in 0..N : ~Upto(k)}
<1>1. Upto(0)
  <2> DEFINE f == [n \in 0..0 |-> base]
  <2>1. f \in [0..0 -> X] /\ f[0] = base
    OBVIOUS
  <2>2. \A n \in 1..0 : f[n] = step[n][f[n - 1]]
    OBVIOUS
  <2> HIDE DEF f
  <2> QED
    BY <2>1, <2>2
<1>2. ASSUME NEW k \in 0..N, k + 1 \in 0..N, Upto(k) PROVE Upto(k + 1)
  <2>1. PICK f \in [0..k -> X] : f[0] = base /\ \A n \in 1..k : f[n] = step[n][f[n - 1]]
    BY <1>2
  <2> DEFINE g == [n \in 0..(k + 1) |-> IF n <= k THEN f[n] ELSE step[k + 1][f[k]]]
  <2>2. step[k + 1][f[k]] \in X
    BY <1>2, <2>1
  <2>3. g \in [0..(k + 1) -> X]
    BY <2>1, <2>2
  <2>4. g[0] = base
    BY <2>1
  <2>5. ASSUME NEW n \in 1..(k + 1) PROVE g[n] = step[n][g[n - 1]]
    <3>1. CASE n <= k
      BY <2>1, <3>1
    <3>2. CASE n = k + 1
      BY <3>2
    <3> QED
      BY <3>1, <3>2
  <2> QED
    BY <2>3, <2>4, <2>5
<1> HIDE DEF Upto
<1>3. Bad = {}
  <2> SUFFICES ASSUME Bad # {} PROVE FALSE
    OBVIOUS
  <2>1. Bad \subseteq Nat
    OBVIOUS
  <2>2. PICK k \in Bad : \A m \in Bad : k <= m
    BY <2>1, LeastOf
  <2>3. k # 0 /\ k - 1 \in 0..N /\ k - 1 \notin Bad
    BY <1>1, <2>2
  <2> QED
    BY <1>2, <2>2, <2>3
<1>4. Upto(N)
  BY <1>3
<1> QED
  BY <1>4 DEF Upto, Recurs

LEMMA ToSetFacts ==
  ASSUME NEW S, NEW s \in Seq(S)
  PROVE  /\ ToSet(s) \subseteq S
         /\ ToSet(<<>>) = {}
         /\ \A x \in S : Append(s, x) \in Seq(S) /\ ToSet(Append(s, x)) = ToSet(s) \cup {x}
         /\ \A t \in Seq(S) : s \o t \in Seq(S) /\ ToSet(s \o t) = ToSet(s) \cup ToSet(t)
         /\ \A t \in Seq(S) : IsPrefix(s, t) => ToSet(s) \subseteq ToSet(t)
<1>1. ToSet(s) \subseteq S /\ ToSet(<<>>) = {}
  BY DEF ToSet
<1>2. ASSUME NEW x \in S
      PROVE  Append(s, x) \in Seq(S) /\ ToSet(Append(s, x)) = ToSet(s) \cup {x}
  <2>1. /\ Append(s, x) \in Seq(S) /\ DOMAIN Append(s, x) = DOMAIN s \cup {Len(s) + 1}
        /\ \A i \in DOMAIN s : Append(s, x)[i] = s[i]
        /\ Append(s, x)[Len(s) + 1] = x
    OBVIOUS
  <2> QED
    BY <2>1 DEF ToSet
<1>3. ASSUME NEW t \in Seq(S)
      PROVE  s \o t \in Seq(S) /\ ToSet(s \o t) = ToSet(s) \cup ToSet(t)
  <2>1. /\ s \o t \in Seq(S) /\ Len(s \o t) = Len(s) + Len(t)
        /\ \A i \in 1..Len(s) : (s \o t)[i] = s[i]
        /\ \A i \in 1..Len(t) : (s \o t)[Len(s) + i] = t[i]
        /\ \A i \in 1..Len(s \o t) : i \in 1..Len(s) \/ (i - Len(s) \in 1..Len(t) /\ (s \o t)[i] = t[i - Len(s)])
    OBVIOUS
  <2>2. /\ DOMAIN s = 1..Len(s) /\ DOMAIN t = 1..Len(t) /\ DOMAIN (s \o t) = 1..Len(s \o t)
        /\ Len(s) \in Nat /\ Len(t) \in Nat
    BY <2>1
  <2>3. ToSet(s) \subseteq ToSet(s \o t)
    BY <2>1, <2>2 DEF ToSet
  <2>4. ToSet(t) \subseteq ToSet(s \o t)
    <3>1. \A i \in 1..Len(t) : Len(s) + i \in 1..Len(s \o t)
      BY <2>1, <2>2
    <3>2. ASSUME NEW x \in ToSet(t) PROVE x \in ToSet(s \o t)
      <4>1. PICK i \in 1..Len(t) : x = t[i]
        BY <2>2 DEF ToSet
      <4>2. Len(s) + i \in DOMAIN (s \o t) /\ (s \o t)[Len(s) + i] = x
        BY <2>1, <2>2, <3>1, <4>1
      <4> QED
        BY <4>2 DEF ToSet
    <3> QED
      BY <3>2
  <2>5. ToSet(s \o t) \subseteq ToSet(s) \cup ToSet(t)
    BY <2>1, <2>2 DEF ToSet
  <2> QED
    BY <2>1, <2>3, <2>4, <2>5
<1>4. ASSUME NEW t \in Seq(S), IsPrefix(s, t) PROVE ToSet(s) \subseteq ToSet(t)
  <2>1. Len(s) <= Len(t) /\ SubSeq(s, 1, Len(s)) = SubSeq(t, 1, Len(s))
    BY <1>4 DEF IsPrefix
  <2>2. \A i \in 1..Len(s) : s[i] = t[i] /\ i \in 1..Len(t)
    <3>1. ASSUME NEW i \in 1..Len(s) PROVE SubSeq(s, 1, Len(s))[i] = s[i] /\ SubSeq(t, 1, Len(s))[i] = t[i]
      BY <2>1
    <3> QED
      BY <2>1, <3>1
  <2> QED
    BY <2>2 DEF ToSet
<1> QED
  BY <1>1, <1>2, <1>3, <1>4

\* The elements of s that are in keep, in their order.
Kept(s, keep) ==
  LET kept[n \in 0..Len(s)] ==
        IF n = 0 THEN <<>>
        ELSE IF s[n] \in keep THEN Append(kept[n - 1], s[n]) ELSE kept[n - 1]
  IN  kept[Len(s)]

LEMMA KeptElements ==
  ASSUME NEW S, NEW b \in Seq(S), NEW keep
  PROVE  Kept(b, keep) \in Seq(S) /\ ToSet(Kept(b, keep)) = ToSet(b) \cap keep
<1> DEFINE Body(kept, n) ==
             IF n = 0 THEN <<>>
             ELSE IF b[n] \in keep THEN Append(kept[n - 1], b[n]) ELSE kept[n - 1]
           kept == CHOOSE f : f = [n \in 0..Len(b) |-> Body(f, n)]
<1>1. Kept(b, keep) = kept[Len(b)]
  BY DEF Kept
<1>2. kept = [n \in 0..Len(b) |-> Body(kept, n)]
  <2> DEFINE step == [n \in 1..Len(b) |-> [x \in Seq(S) |-> IF b[n] \in keep THEN Append(x, b[n]) ELSE x]]
  <2>1. step \in [1..Len(b) -> [Seq(S) -> Seq(S)]]
    OBVIOUS
  <2>2. <<>> \in Seq(S) /\ Len(b) \in Nat
    OBVIOUS
  <2>3. PICK f \in [0..Len(b) -> Seq(S)] : f[0] = <<>> /\ \A n \in 1..Len(b) : f[n] = step[n][f[n - 1]]
    <3> DEFINE X == Seq(S)
               base0 == <<>>
    <3>1. step \in StepFunctions(Len(b), X) /\ base0 \in X /\ Len(b) \in Nat
      BY <2>1, <2>2 DEF StepFunctions
    <3> HIDE DEF step, X, base0
    <3>2. \E f : Recurs(f, Len(b), X, base0, step)
      BY <3>1, RecursionTo
    <3> QED
      BY <3>2 DEF X, base0, Recurs
  <2>4. ASSUME NEW n \in 0..Len(b) PROVE f[n] = Body(f, n)
    <3>1. CASE n = 0
      BY <2>3, <3>1
    <3>2. CASE n \in 1..Len(b)
      <4>1. f[n - 1] \in Seq(S)
        BY <2>3, <3>2
      <4> QED
        BY <2>3, <3>2, <4>1
    <3> QED
      BY <3>1, <3>2
  <2>5. f = [n \in 0..Len(b) |-> Body(f, n)]
    BY <2>3, <2>4
  <2> HIDE DEF Body
  <2> QED
    BY <2>5
<1> HIDE DEF kept
<1> DEFINE Good(n) == kept[n] \in Seq(S) /\ ToSet(kept[n]) = {b[k] : k \in 1..n} \cap keep
           Bad == {n \in 0..Len(b) : ~Good(n)}
<1>3. Good(0)
  <2>1. kept[0] = <<>>
    <3>1. 0 \in 0..Len(b)
      OBVIOUS
    <3>2. kept[0] = Body(kept, 0)
      <4> HIDE DEF Body
      <4> QED
        BY <1>2, <3>1
    <3> QED
      BY <3>2
  <2> QED
    BY <2>1 DEF ToSet
<1>4. ASSUME NEW n \in 1..Len(b), Good(n - 1) PROVE Good(n)
  <2>1. kept[n] = IF b[n] \in keep THEN Append(kept[n - 1], b[n]) ELSE kept[n - 1]
    <3>1. n \in 0..Len(b) /\ n # 0
      OBVIOUS
    <3>2. kept[n] = Body(kept, n)
      <4> HIDE DEF Body
      <4> QED
        BY <1>2, <3>1
    <3> QED
      BY <3>1, <3>2
  <2>2. {b[k] : k \in 1..n} = {b[k] : k \in 1..(n - 1)} \cup {b[n]}
    <3>1. 1..n = (1..(n - 1)) \cup {n}
      OBVIOUS
    <3> QED
      BY <3>1
  <2>3. b[n] \in S
    OBVIOUS
  <2>4. CASE b[n] \notin keep
    BY <1>4, <2>1, <2>2, <2>4
  <2>5. CASE b[n] \in keep
    <3>1. kept[n - 1] \in Seq(S)
      BY <1>4
    <3>2. kept[n] \in Seq(S) /\ ToSet(kept[n]) = ToSet(kept[n - 1]) \cup {b[n]}
      BY <2>1, <2>3, <2>5, <3>1, ToSetFacts
    <3> QED
      BY <1>4, <2>2, <2>5, <3>2
  <2> QED
    BY <2>4, <2>5
<1> HIDE DEF Good
<1>5. Bad = {}
  <2> SUFFICES ASSUME Bad # {} PROVE FALSE
    OBVIOUS
  <2>1. PICK k \in Bad : \A m \in Bad : k <= m
    <3>1. Bad \subseteq Nat
      OBVIOUS
    <3> HIDE DEF Bad
    <3> QED
      BY <3>1, LeastOf
  <2>2. k # 0 /\ k \in 1..Len(b) /\ k - 1 \in 0..Len(b) /\ k - 1 \notin Bad
    BY <1>3, <2>1
  <2> QED
    BY <1>4, <2>1, <2>2
<1>6. Good(Len(b))
  BY <1>5
<1>7. {b[k] : k \in 1..Len(b)} = ToSet(b)
  BY DEF ToSet
<1> QED
  BY <1>1, <1>6, <1>7 DEF Good
-----------------------------------------------------------------------------
\* Sequences in which nothing is twice.

Distinct(s) == \A i, j \in DOMAIN s : s[i] = s[j] => i = j

\* Two of them that share nothing, one after the other.
LEMMA DistinctTogether ==
  ASSUME NEW S, NEW s \in Seq(S), NEW t \in Seq(S), Distinct(s), Distinct(t), ToSet(s) \cap ToSet(t) = {}
  PROVE  Distinct(s \o t)
<1>1. /\ Len(s) \in Nat /\ Len(t) \in Nat /\ DOMAIN (s \o t) = 1..(Len(s) + Len(t))
      /\ DOMAIN s = 1..Len(s) /\ DOMAIN t = 1..Len(t)
      /\ \A i \in 1..Len(s) : (s \o t)[i] = s[i]
      /\ \A i \in 1..(Len(s) + Len(t)) : i > Len(s) => (s \o t)[i] = t[i - Len(s)]
  OBVIOUS
<1> DEFINE u == s \o t
<1>2. /\ DOMAIN u = 1..(Len(s) + Len(t)) /\ \A i \in 1..Len(s) : u[i] = s[i]
      /\ \A i \in 1..(Len(s) + Len(t)) : i > Len(s) => u[i] = t[i - Len(s)]
  BY <1>1
<1> HIDE DEF u
<1>3. \A i \in 1..Len(s), j \in 1..Len(t) : s[i] # t[j]
  BY <1>1 DEF ToSet
<1> SUFFICES ASSUME NEW i \in DOMAIN u, NEW j \in DOMAIN u, u[i] = u[j]
             PROVE  i = j
  BY DEF Distinct, u
<1>4. CASE i <= Len(s) /\ j <= Len(s)
  BY <1>1, <1>2, <1>4 DEF Distinct
<1>5. CASE i > Len(s) /\ j > Len(s)
  <2>1. i - Len(s) \in 1..Len(t) /\ j - Len(s) \in 1..Len(t) /\ t[i - Len(s)] = t[j - Len(s)]
    BY <1>1, <1>2, <1>5
  <2> QED
    BY <1>1, <1>2, <2>1 DEF Distinct
<1>6. CASE i <= Len(s) /\ j > Len(s)
  <2>1. j - Len(s) \in 1..Len(t) /\ i \in 1..Len(s) /\ s[i] = t[j - Len(s)]
    BY <1>1, <1>2, <1>6
  <2> QED
    BY <1>3, <2>1
<1>7. CASE i > Len(s) /\ j <= Len(s)
  <2>1. i - Len(s) \in 1..Len(t) /\ j \in 1..Len(s) /\ s[j] = t[i - Len(s)]
    BY <1>1, <1>2, <1>7
  <2> QED
    BY <1>3, <2>1
<1> QED
  BY <1>1, <1>2, <1>4, <1>5, <1>6, <1>7

\* What taking the first element does to the elements.
LEMMA HeadAndTail ==
  ASSUME NEW S, NEW s \in Seq(S), s # <<>>
  PROVE  /\ Tail(s) \in Seq(S) /\ Head(s) \in ToSet(s) /\ ToSet(Tail(s)) \subseteq ToSet(s)
         /\ \A x \in ToSet(s) : x = Head(s) \/ x \in ToSet(Tail(s))
<1>1. Tail(s) \in Seq(S) /\ Len(Tail(s)) = Len(s) - 1 /\ \A i \in 1..Len(Tail(s)) : Tail(s)[i] = s[i + 1]
  OBVIOUS
<1>2. ASSUME NEW i \in DOMAIN s, i # 1 PROVE s[i] \in ToSet(Tail(s))
  <2>1. i - 1 \in DOMAIN Tail(s) /\ Tail(s)[i - 1] = s[i]
    BY <1>1, <1>2
  <2> QED
    BY <2>1 DEF ToSet
<1>3. 1 \in DOMAIN s /\ Head(s) = s[1]
  OBVIOUS
<1>4. ASSUME NEW i \in DOMAIN Tail(s) PROVE Tail(s)[i] \in ToSet(s)
  <2>1. i + 1 \in DOMAIN s /\ Tail(s)[i] = s[i + 1]
    BY <1>1, <1>4
  <2> QED
    BY <2>1 DEF ToSet
<1> QED
  BY <1>1, <1>2, <1>3, <1>4 DEF ToSet

\* What is left is as distinct, and does not have the first element any more.
LEMMA DistinctTail ==
  ASSUME NEW S, NEW s \in Seq(S), s # <<>>, Distinct(s)
  PROVE  Distinct(Tail(s)) /\ Head(s) \notin ToSet(Tail(s)) /\ ToSet(s) = ToSet(Tail(s)) \cup {Head(s)}
<1>1. /\ Tail(s) \in Seq(S) /\ Len(Tail(s)) = Len(s) - 1 /\ \A i \in 1..Len(Tail(s)) : Tail(s)[i] = s[i + 1]
      /\ DOMAIN s = 1..Len(s) /\ DOMAIN Tail(s) = 1..Len(Tail(s)) /\ Len(s) \in Nat /\ 1 \in DOMAIN s /\ Head(s) = s[1]
  OBVIOUS
<1>2. ASSUME NEW i \in DOMAIN Tail(s)
      PROVE  i + 1 \in DOMAIN s /\ Tail(s)[i] = s[i + 1] /\ i + 1 # 1
  BY <1>1
<1>3. Distinct(Tail(s))
  <2> SUFFICES ASSUME NEW i \in DOMAIN Tail(s), NEW j \in DOMAIN Tail(s), Tail(s)[i] = Tail(s)[j]
               PROVE  i = j
    BY DEF Distinct
  <2>1. i + 1 = j + 1
    BY <1>2 DEF Distinct
  <2> QED
    BY <1>1, <2>1
<1>4. Head(s) \notin ToSet(Tail(s))
  <2> SUFFICES ASSUME NEW i \in DOMAIN Tail(s), Tail(s)[i] = Head(s) PROVE FALSE
    BY DEF ToSet
  <2> QED
    BY <1>1, <1>2 DEF Distinct
<1>5. Head(s) \in ToSet(s) /\ ToSet(Tail(s)) \subseteq ToSet(s) /\ \A x \in ToSet(s) : x = Head(s) \/ x \in ToSet(Tail(s))
  BY HeadAndTail
<1> QED
  BY <1>3, <1>4, <1>5

\* One more element, that is new.
LEMMA DistinctAppend ==
  ASSUME NEW S, NEW s \in Seq(S), NEW x \in S, Distinct(s), x \notin ToSet(s)
  PROVE  Distinct(Append(s, x)) /\ Append(s, x) \in Seq(S) /\ ToSet(Append(s, x)) = ToSet(s) \cup {x}
<1>1. Append(s, x) \in Seq(S) /\ ToSet(Append(s, x)) = ToSet(s) \cup {x}
  BY ToSetFacts
<1>2. /\ DOMAIN Append(s, x) = DOMAIN s \cup {Len(s) + 1} /\ Append(s, x)[Len(s) + 1] = x
      /\ Len(s) + 1 \notin DOMAIN s /\ \A i \in DOMAIN s : Append(s, x)[i] = s[i]
  OBVIOUS
<1>3. \A i \in DOMAIN s : s[i] # x
  BY DEF ToSet
<1> QED
  BY <1>1, <1>2, <1>3 DEF Distinct

\* How often an element is in a sequence in which nothing is twice.
LEMMA DistinctPlaces ==
  ASSUME NEW s, Distinct(s), NEW x
  PROVE  Cardinality({i \in DOMAIN s : s[i] = x}) = IF x \in ToSet(s) THEN 1 ELSE 0
<1> DEFINE P == {i \in DOMAIN s : s[i] = x}
<1>1. CASE x \in ToSet(s)
  <2>1. PICK i \in DOMAIN s : s[i] = x
    BY <1>1 DEF ToSet
  <2>2. P = {i}
    BY <2>1 DEF Distinct
  <2>3. Cardinality(P) = 1
    BY <2>2, FS_Singleton
  <2> QED
    BY <1>1, <2>3
<1>2. CASE x \notin ToSet(s)
  <2>1. P = {}
    BY <1>2 DEF ToSet
  <2>2. Cardinality(P) = 0
    BY <2>1, FS_EmptySet
  <2> QED
    BY <1>2, <2>2
<1> QED
  BY <1>1, <1>2
=============================================================================
