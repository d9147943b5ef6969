--------------------------- MODULE SeqFolds_proofs ---------------------------
(***************************************************************************)
(* Induction over the natural numbers with a set in place of a predicate,  *)
(* that a recursion over 1..n has a solution, and from them what the folds *)
(* of SeqFolds return, for sequences of any length.                        *)
(***************************************************************************)
EXTENDS SeqFolds, FiniteSetTheorems, SequenceTheorems, TLAPS

-----------------------------------------------------------------------------
(* Induction *)

\* From the well-founded inclusion of the intervals 0..k of a finite one.
LEMMA LeastNumber ==
    ASSUME NEW T \in SUBSET Nat, T # {}
    PROVE  \E x \in T : \A y \in T : x <= y
<1>1. PICK n \in T : TRUE
  OBVIOUS
<1> DEFINE U == {0..k : k \in {k \in T : k <= n}}
           R == StrictSubsetOrdering(0..n)
<1>2. IsWellFoundedOn(R, FiniteSubsetsOf(0..n))
  BY FS_StrictSubsetOrderingWellFounded
<1>3. \A k \in T : k <= n => 0..k \in FiniteSubsetsOf(0..n)
  BY FS_Interval DEF FiniteSubsetsOf
<1>4. U \subseteq FiniteSubsetsOf(0..n)
  BY <1>3
<1>5. U # {}
  BY <1>1
<1>6. PICK u \in U : \A v \in U : <<v, u>> \notin R
  <2> HIDE DEF R, U
  <2> QED
    BY <1>2, <1>4, <1>5, WFMin
<1>7. PICK x \in T : x <= n /\ u = 0..x
  BY <1>6
<1>8. ASSUME NEW y \in T, y < x PROVE FALSE
  <2>1. 0..y \in U
    BY <1>7, <1>8
  <2>2. 0..y \subseteq 0..x /\ x \in 0..x /\ x \notin 0..y
    BY <1>7, <1>8
  <2>3. 0..y \in SUBSET (0..n) /\ 0..x \in SUBSET (0..n)
    BY <1>7, <1>8
  <2>4. <<0..y, 0..x>> \in R
    BY <2>2, <2>3 DEF StrictSubsetOrdering
  <2> QED
    BY <2>1, <2>4, <1>6, <1>7
<1> QED
  BY <1>7, <1>8

LEMMA SetInduction ==
    ASSUME NEW S, 0 \in S, \A n \in Nat : n \in S => n + 1 \in S
    PROVE  \A n \in Nat : n \in S
<1> SUFFICES ASSUME Nat \ S # {} PROVE FALSE
  OBVIOUS
<1>1. PICK x \in Nat \ S : \A y \in Nat \ S : x <= y
  BY LeastNumber
<1>2. x # 0 /\ x - 1 \in Nat /\ x - 1 \in S
  BY <1>1
<1> QED
  BY <1>2

-----------------------------------------------------------------------------
(* Sequences are functions *)

LEMMA FunctionIsSeq ==
    ASSUME NEW X, NEW n \in Nat, NEW f \in [1..n -> X]
    PROVE  f \in Seq(X) /\ Len(f) = n
<1>1. f \in Seq(X)
  BY SeqDef
<1>2. 1..n = 1..Len(f) /\ Len(f) \in Nat
  BY <1>1, LenProperties
<1>3. Len(f) = n
  <2>1. n \in 1..n \/ n = 0
    OBVIOUS
  <2>2. Len(f) \in 1..Len(f) \/ Len(f) = 0
    BY <1>2
  <2> QED
    BY <1>2, <2>1, <2>2
<1> QED
  BY <1>1, <1>3

-----------------------------------------------------------------------------
(* Recursion *)

\* One step for each place, and a function that takes them one after another.
Steps(n, S) == [1..n -> [S -> S]]

Runs(f, S, base, n, op) ==
    /\ f \in [0..n -> S]
    /\ f[0] = base
    /\ \A i \in 1..n : f[i] = op[i][f[i - 1]]

LEMMA RecursionHolds ==
    ASSUME NEW S, NEW base \in S, NEW n \in Nat, NEW op \in Steps(n, S)
    PROVE  \E f : Runs(f, S, base, n, op)
<1> DEFINE Good == {k \in Nat : k <= n => \E f : Runs(f, S, base, k, op)}
<1>1. 0 \in Good
  <2>1. Runs([i \in 0..0 |-> base], S, base, 0, op)
    BY DEF Runs
  <2> QED
    BY <2>1
<1>2. ASSUME NEW k \in Nat, k \in Good PROVE k + 1 \in Good
  <2> SUFFICES ASSUME k + 1 <= n PROVE \E f : Runs(f, S, base, k + 1, op)
    OBVIOUS
  <2>1. PICK f : Runs(f, S, base, k, op)
    BY <1>2
  <2> DEFINE g == [i \in 0..(k + 1) |-> IF i = k + 1 THEN op[k + 1][f[k]] ELSE f[i]]
  <2>2. op[k + 1][f[k]] \in S
    BY <2>1 DEF Runs, Steps
  <2>3. Runs(g, S, base, k + 1, op)
    BY <2>1, <2>2 DEF Runs
  <2> QED
    BY <2>3
<1> HIDE DEF Good
<1>3. n \in Good
  BY <1>1, <1>2, SetInduction
<1> QED
  BY <1>3 DEF Good

\* Whatever takes these steps as long as it is in S, is in S.
LEMMA PrefixRecursion ==
    ASSUME NEW S, NEW base \in S, NEW n \in Nat, NEW op \in Steps(n, S),
           NEW f, f = [i \in 0..n |-> f[i]], f[0] = base,
           \A i \in 1..n : f[i - 1] \in S => f[i] = op[i][f[i - 1]]
    PROVE  Runs(f, S, base, n, op)
<1> DEFINE Good == {i \in Nat : i <= n => f[i] \in S}
<1>1. 0 \in Good
  OBVIOUS
<1>2. ASSUME NEW i \in Nat, i \in Good PROVE i + 1 \in Good
  <2> SUFFICES ASSUME i + 1 <= n PROVE f[i + 1] \in S
    OBVIOUS
  <2>1. f[i] \in S /\ i + 1 \in 1..n /\ (i + 1) - 1 = i
    BY <1>2
  <2>2. f[i + 1] = op[i + 1][f[i]]
    BY <2>1
  <2> QED
    BY <2>1, <2>2 DEF Steps
<1> HIDE DEF Good
<1>3. \A i \in Nat : i \in Good
  BY <1>1, <1>2, SetInduction
<1>4. \A i \in 0..n : f[i] \in S
  BY <1>3 DEF Good
<1>5. f \in [0..n -> S]
  BY <1>4
<1>6. \A i \in 1..n : i - 1 \in 0..n
  OBVIOUS
<1>7. \A i \in 1..n : f[i] = op[i][f[i - 1]]
  BY <1>4, <1>6
<1> QED
  BY <1>5, <1>7 DEF Runs

-----------------------------------------------------------------------------
(* Keep *)

\* The prefixes of the recursion, and where it ends.
KeepUpTo(upTo, s, T) ==
    /\ upTo[0] = <<>>
    /\ \A i \in 1..Len(s) :
          upTo[i] = IF s[i] \in T THEN Append(upTo[i - 1], s[i]) ELSE upTo[i - 1]
    /\ Keep(s, T) = upTo[Len(s)]

LEMMA KeepHolds ==
    ASSUME NEW X, NEW s \in Seq(X), NEW T
    PROVE  \E upTo \in [0..Len(s) -> Seq(X)] : KeepUpTo(upTo, s, T)
<1> DEFINE Q == Seq(X)
           e == <<>>
           m == Len(s)
           next(r, i) == IF s[i] \in T THEN Append(r, s[i]) ELSE r
           op == [i \in 1..m |-> [r \in Q |-> next(r, i)]]
           F(g) == g = [i \in 0..m |-> IF i = 0 THEN e ELSE next(g[i - 1], i)]
           upTo == CHOOSE g : F(g)
<1>1. e \in Q
  OBVIOUS
<1>2. m \in Nat
  OBVIOUS
<1>3. \A i \in 1..m : \A r \in Q : next(r, i) \in Q
  BY AppendProperties
<1>4. Keep(s, T) = upTo[m]
  BY DEF Keep
<1> HIDE DEF Q, e, m, next
<1>5. op \in Steps(m, Q)
  BY <1>3 DEF Steps
<1>6. PICK f : Runs(f, Q, e, m, op)
  <2> HIDE DEF op
  <2> QED
    BY <1>1, <1>2, <1>5, RecursionHolds
<1>7. F(f)
  <2>1. \A i \in 1..m : f[i] = next(f[i - 1], i)
    <3>1. \A i \in 1..m : i - 1 \in 0..m
      BY <1>2
    <3>2. \A i \in 1..m : f[i - 1] \in Q
      BY <1>6, <3>1 DEF Runs
    <3>3. \A i \in 1..m : f[i] = op[i][f[i - 1]]
      BY <1>6 DEF Runs
    <3> QED
      BY <3>2, <3>3
  <2>2. f = [i \in 0..m |-> f[i]] /\ f[0] = e
    BY <1>6 DEF Runs
  <2>3. \A i \in 0..m : f[i] = IF i = 0 THEN e ELSE next(f[i - 1], i)
    BY <1>2, <2>1, <2>2
  <2> HIDE DEF op
  <2> QED
    BY <2>2, <2>3
<1>8. F(upTo)
  <2> HIDE DEF F
  <2> QED
    BY <1>7
<1> HIDE DEF upTo
<1>9. upTo[0] = e /\ \A i \in 1..m : upTo[i] = next(upTo[i - 1], i)
  BY <1>2, <1>8
<1>10. upTo = [i \in 0..m |-> upTo[i]]
  BY <1>8
<1>11. \A i \in 1..m : upTo[i - 1] \in Q => upTo[i] = op[i][upTo[i - 1]]
  BY <1>9
<1>12. Runs(upTo, Q, e, m, op)
  <2> HIDE DEF op, F
  <2> QED
    BY <1>1, <1>2, <1>5, <1>9, <1>10, <1>11, PrefixRecursion
<1>13. upTo \in [0..m -> Q]
  BY <1>12 DEF Runs
<1> QED
  BY <1>4, <1>9, <1>13 DEF Q, e, m, next, KeepUpTo

LEMMA KeepIsSeq ==
    ASSUME NEW X, NEW s \in Seq(X), NEW T
    PROVE  Keep(s, T) \in Seq(X)
<1>1. PICK upTo \in [0..Len(s) -> Seq(X)] : KeepUpTo(upTo, s, T)
  BY KeepHolds
<1>2. Len(s) \in 0..Len(s)
  BY LenProperties
<1> QED
  BY <1>1, <1>2 DEF KeepUpTo

\* r has elements of s, in the order they have among the first n of s.
Picks(place, r, s, n) ==
    /\ place \in [1..Len(r) -> 1..n]
    /\ \A i \in 1..Len(r) : r[i] = s[place[i]]
    /\ \A i, j \in 1..Len(r) : i < j => place[i] < place[j]

LEMMA KeepPicks ==
    ASSUME NEW X, NEW s \in Seq(X), NEW T
    PROVE  \E place : Picks(place, Keep(s, T), s, Len(s))
<1> DEFINE m == Len(s)
<1>1. PICK upTo \in [0..m -> Seq(X)] : KeepUpTo(upTo, s, T)
  BY KeepHolds
<1>2. m \in Nat
  BY LenProperties
<1> DEFINE Good == {n \in Nat : n <= m => \E place : Picks(place, upTo[n], s, n)}
<1>3. 0 \in Good
  <2>1. upTo[0] = <<>> /\ Len(<<>>) = 0
    BY <1>1 DEF KeepUpTo
  <2>2. Picks(<<>>, <<>>, s, 0)
    BY DEF Picks
  <2> QED
    BY <2>1, <2>2
<1>4. ASSUME NEW n \in Nat, n \in Good PROVE n + 1 \in Good
  <2> SUFFICES ASSUME n + 1 <= m PROVE \E place : Picks(place, upTo[n + 1], s, n + 1)
    OBVIOUS
  <2> DEFINE r == upTo[n]
  <2>1. PICK place : Picks(place, r, s, n)
    BY <1>2, <1>4
  <2>2. r \in Seq(X) /\ s[n + 1] \in X /\ n + 1 \in 1..m
    BY <1>2, ElementOfSeq
  <2>3. upTo[n + 1] = IF s[n + 1] \in T THEN Append(r, s[n + 1]) ELSE r
    BY <1>1, <2>2 DEF KeepUpTo
  <2> HIDE DEF r
  <2>4. Len(r) \in Nat
    BY <2>2, LenProperties
  <2>5. CASE s[n + 1] \notin T
    <3>1. Picks(place, r, s, n + 1)
      BY <2>1 DEF Picks
    <3> QED
      BY <2>3, <2>5, <3>1
  <2>6. CASE s[n + 1] \in T
    <3> DEFINE more == [i \in 1..(Len(r) + 1) |-> IF i = Len(r) + 1 THEN n + 1 ELSE place[i]]
               q == Append(r, s[n + 1])
    <3>1. /\ Len(q) = Len(r) + 1 /\ q[Len(r) + 1] = s[n + 1]
          /\ \A i \in 1..Len(r) : q[i] = r[i]
      BY <2>2, AppendProperties
    <3>2. more \in [1..Len(q) -> 1..(n + 1)]
      BY <2>1, <2>4, <3>1 DEF Picks
    <3>3. \A i \in 1..Len(q) : q[i] = s[more[i]]
      BY <2>1, <2>4, <3>1 DEF Picks
    <3>4. ASSUME NEW i \in 1..Len(q), NEW j \in 1..Len(q), i < j PROVE more[i] < more[j]
      <4>1. i \in 1..Len(r) /\ more[i] = place[i] /\ place[i] \in 1..n
        BY <2>1, <2>4, <3>1, <3>4 DEF Picks
      <4>2. CASE j = Len(r) + 1
        BY <2>4, <4>1, <4>2
      <4>3. CASE j # Len(r) + 1
        <5>1. j \in 1..Len(r) /\ more[j] = place[j]
          BY <2>4, <3>1, <4>3
        <5> QED
          BY <2>1, <3>4, <4>1, <5>1 DEF Picks
      <4> QED
        BY <4>2, <4>3
    <3>5. Picks(more, q, s, n + 1)
      BY <3>2, <3>3, <3>4 DEF Picks
    <3> QED
      BY <2>3, <2>6, <3>5
  <2> QED
    BY <2>5, <2>6
<1> HIDE DEF Good
<1>5. m \in Good
  BY <1>2, <1>3, <1>4, SetInduction
<1>6. \E place : Picks(place, upTo[m], s, m)
  BY <1>2, <1>5 DEF Good
<1> QED
  BY <1>1, <1>6 DEF KeepUpTo

\* Keep(s, T) has the elements of s that are in T and no others.
Covers(r, s, T, n) ==
    /\ \A i \in 1..Len(r) : r[i] \in T
    /\ \A j \in 1..n : s[j] \in T => \E i \in 1..Len(r) : r[i] = s[j]

LEMMA KeepCovers ==
    ASSUME NEW X, NEW s \in Seq(X), NEW T
    PROVE  Covers(Keep(s, T), s, T, Len(s))
<1> DEFINE m == Len(s)
<1>1. PICK upTo \in [0..m -> Seq(X)] : KeepUpTo(upTo, s, T)
  BY KeepHolds
<1>2. m \in Nat
  BY LenProperties
<1> DEFINE Good == {n \in Nat : n <= m => Covers(upTo[n], s, T, n)}
<1>3. 0 \in Good
  <2>1. upTo[0] = <<>> /\ Len(<<>>) = 0
    BY <1>1 DEF KeepUpTo
  <2> QED
    BY <2>1 DEF Covers
<1>4. ASSUME NEW n \in Nat, n \in Good PROVE n + 1 \in Good
  <2> SUFFICES ASSUME n + 1 <= m PROVE Covers(upTo[n + 1], s, T, n + 1)
    OBVIOUS
  <2> DEFINE r == upTo[n]
  <2>1. Covers(r, s, T, n)
    BY <1>2, <1>4
  <2>2. r \in Seq(X) /\ s[n + 1] \in X /\ n + 1 \in 1..m
    BY <1>2, ElementOfSeq
  <2>3. upTo[n + 1] = IF s[n + 1] \in T THEN Append(r, s[n + 1]) ELSE r
    BY <1>1, <2>2 DEF KeepUpTo
  <2> HIDE DEF r
  <2>4. Len(r) \in Nat
    BY <2>2, LenProperties
  <2>5. CASE s[n + 1] \notin T
    <3>1. Covers(r, s, T, n + 1)
      BY <2>1, <2>5 DEF Covers
    <3> QED
      BY <2>3, <2>5, <3>1
  <2>6. CASE s[n + 1] \in T
    <3> DEFINE q == Append(r, s[n + 1])
    <3>1. /\ Len(q) = Len(r) + 1 /\ q[Len(r) + 1] = s[n + 1]
          /\ \A i \in 1..Len(r) : q[i] = r[i]
      BY <2>2, AppendProperties
    <3> HIDE DEF q
    <3>2. \A i \in 1..Len(q) : q[i] \in T
      BY <2>1, <2>4, <2>6, <3>1 DEF Covers
    <3>3. ASSUME NEW j \in 1..(n + 1), s[j] \in T PROVE \E i \in 1..Len(q) : q[i] = s[j]
      <4>1. CASE j = n + 1
        BY <2>4, <3>1, <4>1
      <4>2. CASE j # n + 1
        <5>1. PICK i \in 1..Len(r) : r[i] = s[j]
          BY <2>1, <3>3, <4>2 DEF Covers
        <5> QED
          BY <2>4, <3>1, <5>1
      <4> QED
        BY <4>1, <4>2
    <3> QED
      BY <2>3, <2>6, <3>2, <3>3 DEF q, Covers
  <2> QED
    BY <2>5, <2>6
<1> HIDE DEF Good
<1>5. m \in Good
  BY <1>2, <1>3, <1>4, SetInduction
<1> QED
  BY <1>1, <1>2, <1>5 DEF Good, KeepUpTo

-----------------------------------------------------------------------------
(* SumOf *)

SumUpTo(upTo, s) ==
    /\ upTo[0] = 0
    /\ \A i \in 1..Len(s) : upTo[i] = upTo[i - 1] + s[i]
    /\ SumOf(s) = upTo[Len(s)]

LEMMA SumHolds ==
    ASSUME NEW s \in Seq(Nat)
    PROVE  \E upTo \in [0..Len(s) -> Nat] : SumUpTo(upTo, s)
<1> DEFINE m == Len(s)
           next(r, i) == r + s[i]
           op == [i \in 1..m |-> [r \in Nat |-> next(r, i)]]
           F(g) == g = [i \in 0..m |-> IF i = 0 THEN 0 ELSE next(g[i - 1], i)]
           upTo == CHOOSE g : F(g)
<1>1. m \in Nat
  OBVIOUS
<1>2. \A i \in 1..m : \A r \in Nat : next(r, i) \in Nat
  BY ElementOfSeq
<1>3. SumOf(s) = upTo[m]
  BY DEF SumOf
<1> HIDE DEF m, next
<1>4. op \in Steps(m, Nat)
  BY <1>2 DEF Steps
<1>5. PICK f : Runs(f, Nat, 0, m, op)
  <2> HIDE DEF op
  <2> QED
    BY <1>1, <1>4, RecursionHolds
<1>6. F(f)
  <2>1. \A i \in 1..m : i - 1 \in 0..m
    BY <1>1
  <2>2. \A i \in 1..m : f[i - 1] \in Nat
    BY <1>5, <2>1 DEF Runs
  <2>3. \A i \in 1..m : f[i] = op[i][f[i - 1]]
    BY <1>5 DEF Runs
  <2>4. \A i \in 1..m : f[i] = next(f[i - 1], i)
    BY <2>2, <2>3
  <2>5. f = [i \in 0..m |-> f[i]] /\ f[0] = 0
    BY <1>5 DEF Runs
  <2>6. \A i \in 0..m : f[i] = IF i = 0 THEN 0 ELSE next(f[i - 1], i)
    BY <1>1, <2>4, <2>5
  <2> HIDE DEF op
  <2> QED
    BY <2>5, <2>6
<1>7. F(upTo)
  <2> HIDE DEF F
  <2> QED
    BY <1>6
<1> HIDE DEF upTo
<1>8. upTo[0] = 0 /\ \A i \in 1..m : upTo[i] = next(upTo[i - 1], i)
  BY <1>1, <1>7
<1>9. upTo = [i \in 0..m |-> upTo[i]]
  BY <1>7
<1>10. \A i \in 1..m : upTo[i - 1] \in Nat => upTo[i] = op[i][upTo[i - 1]]
  BY <1>8
<1>11. Runs(upTo, Nat, 0, m, op)
  <2> HIDE DEF op, F
  <2> QED
    BY <1>1, <1>4, <1>8, <1>9, <1>10, PrefixRecursion
<1>12. upTo \in [0..m -> Nat]
  BY <1>11 DEF Runs
<1> QED
  BY <1>3, <1>8, <1>12 DEF m, next, SumUpTo

LEMMA SumIsNat ==
    ASSUME NEW s \in Seq(Nat)
    PROVE  SumOf(s) \in Nat
<1>1. PICK upTo \in [0..Len(s) -> Nat] : SumUpTo(upTo, s)
  BY SumHolds
<1> QED
  BY <1>1, LenProperties DEF SumUpTo

LEMMA SumOfNone == SumOf(<<>>) = 0
<1>1. <<>> \in Seq(Nat) /\ Len(<<>>) = 0
  OBVIOUS
<1>2. PICK upTo \in [0..0 -> Nat] : SumUpTo(upTo, <<>>)
  BY <1>1, SumHolds
<1> QED
  BY <1>1, <1>2 DEF SumUpTo

LEMMA SumOfAppend ==
    ASSUME NEW s \in Seq(Nat), NEW n \in Nat
    PROVE  SumOf(Append(s, n)) = SumOf(s) + n
<1> DEFINE m == Len(s)
           q == Append(s, n)
<1>1. /\ q \in Seq(Nat) /\ Len(q) = m + 1 /\ q[m + 1] = n
      /\ \A i \in 1..m : q[i] = s[i]
      /\ m \in Nat
  BY AppendProperties, LenProperties
<1> HIDE DEF q
<1>2. PICK f \in [0..m -> Nat] : SumUpTo(f, s)
  BY SumHolds
<1>3. PICK g \in [0..(m + 1) -> Nat] : SumUpTo(g, q)
  BY <1>1, SumHolds
<1> HIDE DEF m
<1> DEFINE Good == {i \in Nat : i <= m => f[i] = g[i]}
<1>4. 0 \in Good
  BY <1>2, <1>3 DEF SumUpTo
<1>5. ASSUME NEW i \in Nat, i \in Good PROVE i + 1 \in Good
  <2> SUFFICES ASSUME i + 1 <= m PROVE f[i + 1] = g[i + 1]
    OBVIOUS
  <2>1. f[i] = g[i] /\ i + 1 \in 1..m /\ i + 1 \in 1..(m + 1) /\ (i + 1) - 1 = i
    BY <1>1, <1>5
  <2>2. f[i + 1] = f[i] + s[i + 1]
    BY <1>2, <2>1 DEF SumUpTo, m
  <2>3. g[i + 1] = g[i] + q[i + 1]
    BY <1>1, <1>3, <2>1 DEF SumUpTo
  <2> QED
    BY <1>1, <2>1, <2>2, <2>3
<1> HIDE DEF Good
<1>6. m \in Good
  BY <1>1, <1>4, <1>5, SetInduction
<1>7. f[m] = g[m]
  BY <1>1, <1>6 DEF Good
<1>8. SumOf(s) = f[m]
  BY <1>2 DEF SumUpTo, m
<1>9. SumOf(q) = g[m + 1] /\ g[m + 1] = g[m] + q[m + 1]
  BY <1>1, <1>3 DEF SumUpTo
<1> QED
  BY <1>1, <1>7, <1>8, <1>9 DEF q
=============================================================================
