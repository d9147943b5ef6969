-------------------------- MODULE MemoryStore_proofs --------------------------
(***************************************************************************)
(* Proofs about the memory, for any texts, caps, calls and crashes.        *)
(*                                                                         *)
(* First what each operation makes of the value: the facts it keeps, those *)
(* it may add, and that what it returns is within the cap.  Then types and *)
(* the cap, which hold whoever may write.  The other three promises need   *)
(* the writers to take turns (Serial): the pending save of the one whose   *)
(* turn it is is tied to the value in memory and to the files on disk.     *)
(***************************************************************************)
EXTENDS MemoryStore, SeqFolds_proofs

-----------------------------------------------------------------------------
(* The value *)

FactRows == [text : Texts, source : Sources, at : Nat]
Shape == [facts : Seq(FactRows), seeded : BOOLEAN, version : Nat]

\* The memories within the cap.
Memories == {m \in Shape : WordCount(m.facts) <= WordCap}

Words(facts) == [i \in DOMAIN facts |-> WordsOf[facts[i].text]]

LEMMA WordsIsSeq ==
    ASSUME NEW facts \in Seq(FactRows)
    PROVE  /\ Words(facts) \in Seq(Nat) /\ Len(Words(facts)) = Len(facts)
           /\ \A i \in 1..Len(facts) : Words(facts)[i] = WordsOf[facts[i].text]
<1>1. DOMAIN facts = 1..Len(facts) /\ Len(facts) \in Nat
  BY LenProperties
<1>2. ASSUME NEW i \in 1..Len(facts) PROVE facts[i].text \in Texts
  <2>1. facts[i] \in FactRows
    BY ElementOfSeq
  <2> QED
    BY <2>1 DEF FactRows
<1>3. \A i \in 1..Len(facts) : WordsOf[facts[i].text] \in Nat
  BY <1>2, MemoryAssumption
<1>4. Words(facts) \in [1..Len(facts) -> Nat]
  BY <1>1, <1>3 DEF Words
<1> QED
  BY <1>1, <1>4, FunctionIsSeq DEF Words

LEMMA WordCountIsNat ==
    ASSUME NEW facts \in Seq(FactRows)
    PROVE  WordCount(facts) \in Nat
BY WordsIsSeq, SumIsNat DEF WordCount, Words

LEMMA WordCountOfNone == WordCount(<<>>) = 0
<1>1. [i \in DOMAIN <<>> |-> WordsOf[(<<>>)[i].text]] = <<>>
  OBVIOUS
<1> QED
  BY <1>1, SumOfNone DEF WordCount

LEMMA WordCountOfAppend ==
    ASSUME NEW facts \in Seq(FactRows), NEW f \in FactRows
    PROVE  WordCount(Append(facts, f)) = WordCount(facts) + WordsOf[f.text]
<1> DEFINE n == Len(facts)
           w == WordsOf[f.text]
           q == Append(facts, f)
<1>1. /\ q \in Seq(FactRows) /\ Len(q) = n + 1 /\ q[n + 1] = f
      /\ \A i \in 1..n : q[i] = facts[i]
      /\ n \in Nat
  BY LenProperties, AppendProperties
<1>2. w \in Nat
  BY MemoryAssumption DEF FactRows
<1> HIDE DEF q, w
<1>3. /\ Words(facts) \in Seq(Nat) /\ Len(Words(facts)) = n
      /\ \A i \in 1..n : Words(facts)[i] = WordsOf[facts[i].text]
  BY WordsIsSeq
<1>4. /\ Words(q) \in Seq(Nat) /\ Len(Words(q)) = n + 1
      /\ \A i \in 1..(n + 1) : Words(q)[i] = WordsOf[q[i].text]
  BY <1>1, WordsIsSeq
<1> HIDE DEF n
<1> DEFINE p == Words(facts)
           r == Append(p, w)
<1>5. /\ r \in Seq(Nat) /\ Len(r) = n + 1 /\ r[n + 1] = w
      /\ \A i \in 1..n : r[i] = p[i]
  <2> HIDE DEF p
  <2> QED
    BY <1>2, <1>3, AppendProperties DEF p
<1> HIDE DEF r
<1>6. ASSUME NEW i \in 1..(n + 1) PROVE Words(q)[i] = r[i]
  <2>1. CASE i = n + 1
    BY <1>1, <1>4, <1>5, <2>1 DEF w
  <2>2. CASE i # n + 1
    <3>1. i \in 1..n
      BY <1>1, <2>2
    <3>2. q[i] = facts[i]
      BY <1>1, <3>1
    <3>3. Words(q)[i] = WordsOf[facts[i].text]
      BY <1>4, <3>2
    <3>4. r[i] = Words(facts)[i]
      BY <1>5, <3>1
    <3> QED
      BY <1>3, <3>1, <3>3, <3>4
  <2> QED
    BY <2>1, <2>2
<1>7. Words(q) = r
  BY <1>4, <1>5, <1>6, SeqEqual
<1>8. SumOf(r) = SumOf(p) + w
  BY <1>2, <1>3, SumOfAppend DEF r
<1> QED
  BY <1>7, <1>8 DEF q, w, WordCount, Words

\* Leaving facts out adds no words.
LEMMA KeepingAddsNoWords ==
    ASSUME NEW facts \in Seq(FactRows), NEW T
    PROVE  WordCount(Keep(facts, T)) <= WordCount(facts)
<1> DEFINE n == Len(facts)
           first(k) == SubSeq(facts, 1, k)
<1>1. PICK upTo \in [0..n -> Seq(FactRows)] : KeepUpTo(upTo, facts, T)
  BY KeepHolds
<1>2. n \in Nat
  BY LenProperties
<1> DEFINE Good == {k \in Nat : k <= n => WordCount(upTo[k]) <= WordCount(first(k))}
<1>3. 0 \in Good
  <2>1. upTo[0] = <<>> /\ first(0) = <<>>
    BY <1>1 DEF KeepUpTo
  <2> QED
    BY <2>1, WordCountOfNone
<1>4. ASSUME NEW k \in Nat, k \in Good PROVE k + 1 \in Good
  <2> SUFFICES ASSUME k + 1 <= n PROVE WordCount(upTo[k + 1]) <= WordCount(first(k + 1))
    OBVIOUS
  <2> DEFINE f == facts[k + 1]
             r == upTo[k]
             s == first(k)
  <2>1. f \in FactRows /\ k + 1 \in 1..n /\ k \in 0..n
    BY <1>2, ElementOfSeq
  <2>2. r \in Seq(FactRows) /\ s \in Seq(FactRows)
    BY <2>1, SubSeqProperties
  <2>3. upTo[k + 1] = IF f \in T THEN Append(r, f) ELSE r
    BY <1>1, <2>1 DEF KeepUpTo
  <2>4. first(k + 1) = Append(s, f)
    BY <1>2, <2>1
  <2>5. WordCount(r) <= WordCount(s)
    BY <1>2, <1>4, <2>1
  <2> HIDE DEF f, r, s
  <2>6. WordsOf[f.text] \in Nat
    BY <2>1, MemoryAssumption DEF FactRows
  <2>7. WordCount(r) \in Nat /\ WordCount(s) \in Nat
    BY <2>2, WordCountIsNat
  <2>8. WordCount(Append(s, f)) = WordCount(s) + WordsOf[f.text]
    BY <2>1, <2>2, WordCountOfAppend
  <2>9. WordCount(Append(r, f)) = WordCount(r) + WordsOf[f.text]
    BY <2>1, <2>2, WordCountOfAppend
  <2>10. CASE f \in T
    <3>1. WordCount(Append(r, f)) <= WordCount(Append(s, f))
      BY <2>5, <2>6, <2>7, <2>8, <2>9
    <3> QED
      BY <2>3, <2>4, <2>10, <3>1
  <2>11. CASE f \notin T
    <3>1. WordCount(r) <= WordCount(Append(s, f))
      BY <2>5, <2>6, <2>7, <2>8
    <3> QED
      BY <2>3, <2>4, <2>11, <3>1
  <2> QED
    BY <2>10, <2>11
<1> HIDE DEF Good
<1>5. n \in Good
  BY <1>2, <1>3, <1>4, SetInduction
<1>6. first(n) = facts
  OBVIOUS
<1>7. WordCount(upTo[n]) <= WordCount(first(n))
  BY <1>2, <1>5 DEF Good
<1>8. Keep(facts, T) = upTo[n]
  BY <1>1 DEF KeepUpTo
<1> QED
  BY <1>6, <1>7, <1>8

\* What an operation on the value leaves: a memory with the marker it had.
Follows(new, old) == new \in Shape /\ new.seeded = old.seeded

LEMMA RememberFollows ==
    ASSUME NEW m \in Shape, NEW text \in Texts, NEW source \in Sources, NEW at \in Nat
    PROVE  Follows(Remember(m, text, source, at), m)
<1>1. m.facts \in Seq(FactRows)
  BY DEF Shape
<1>2. Fact(text, source, at) \in FactRows
  BY DEF Fact, FactRows
<1>3. CASE \E i \in DOMAIN m.facts : m.facts[i].text = text
  <2> DEFINE n == Len(m.facts)
             row(i) == IF m.facts[i].text # text THEN m.facts[i]
                       ELSE Fact(text, IF Ranks[source] > Ranks[m.facts[i].source]
                                       THEN source ELSE m.facts[i].source, at)
             rows == [i \in DOMAIN m.facts |-> row(i)]
  <2>1. DOMAIN m.facts = 1..n /\ n \in Nat
    BY <1>1, LenProperties
  <2>2. \A i \in 1..n : m.facts[i] \in FactRows
    BY <1>1, ElementOfSeq
  <2>3. \A i \in 1..n : row(i) \in FactRows
    BY <2>2 DEF Fact, FactRows
  <2> HIDE DEF row
  <2>4. rows \in [1..n -> FactRows]
    BY <2>1, <2>3
  <2> HIDE DEF rows
  <2>5. rows \in Seq(FactRows)
    BY <2>1, <2>4, FunctionIsSeq
  <2>6. Remember(m, text, source, at) = [m EXCEPT !.facts = rows]
    BY <1>3 DEF Remember, rows, row
  <2> QED
    BY <2>5, <2>6 DEF Follows, Shape
<1>4. CASE ~\E i \in DOMAIN m.facts : m.facts[i].text = text
  <2> DEFINE rows == Append(m.facts, Fact(text, source, at))
  <2>1. rows \in Seq(FactRows)
    BY <1>1, <1>2, AppendProperties
  <2>2. Remember(m, text, source, at) = [m EXCEPT !.facts = rows]
    BY <1>4 DEF Remember
  <2> HIDE DEF rows
  <2> QED
    BY <2>1, <2>2 DEF Follows, Shape
<1> QED
  BY <1>3, <1>4

LEMMA ForgetFollows ==
    ASSUME NEW m \in Shape, NEW text
    PROVE  Follows(Forget(m, text), m) /\ WordCount(Forget(m, text).facts) <= WordCount(m.facts)
<1> DEFINE T == {f \in ToSet(m.facts) : f.text # text}
           rows == Keep(m.facts, T)
<1>1. m.facts \in Seq(FactRows)
  BY DEF Shape
<1>2. Forget(m, text) = [m EXCEPT !.facts = rows]
  BY DEF Forget
<1> HIDE DEF T
<1>3. rows \in Seq(FactRows) /\ WordCount(rows) <= WordCount(m.facts)
  BY <1>1, KeepIsSeq, KeepingAddsNoWords
<1> HIDE DEF rows
<1>4. [m EXCEPT !.facts = rows].facts = rows
  BY DEF Shape
<1> QED
  BY <1>2, <1>3, <1>4 DEF Follows, Shape

\* What clamp_to_cap's fallback leaves: with every fact evicted, nothing.
LEMMA NothingIsLeft ==
    ASSUME NEW m \in Shape
    PROVE  LessFirst(m, Len(m.facts)) = <<>>
<1> DEFINE n == Len(m.facts)
           before(i) == {j \in DOMAIN m.facts : EvictedBefore(m, j, i)}
           late == {i \in DOMAIN m.facts : Cardinality(before(i)) >= n}
           T == {m.facts[i] : i \in late}
<1>1. m.facts \in Seq(FactRows)
  BY DEF Shape
<1>2. DOMAIN m.facts = 1..n /\ n \in Nat
  BY <1>1, LenProperties
<1>3. ASSUME NEW i \in 1..n PROVE ~(Cardinality(before(i)) >= n)
  <2>1. m.facts[i] \in FactRows
    BY <1>1, ElementOfSeq
  <2>2. /\ Ranks[m.facts[i].source] \in Nat /\ m.facts[i].at \in Nat
    BY <2>1 DEF FactRows, Ranks, Sources
  <2>3. i \notin before(i)
    BY <2>2 DEF EvictedBefore
  <2>4. before(i) \subseteq (1..n) \ {i}
    BY <1>2, <2>3
  <2> HIDE DEF before
  <2>5. IsFiniteSet(1..n) /\ Cardinality(1..n) = n
    BY <1>2, FS_Interval
  <2>6. IsFiniteSet((1..n) \ {i}) /\ Cardinality((1..n) \ {i}) = n - 1
    BY <2>5, FS_RemoveElement
  <2>7. Cardinality(before(i)) <= n - 1 /\ Cardinality(before(i)) \in Nat
    BY <2>4, <2>6, FS_Subset, FS_CardinalityType
  <2> QED
    BY <1>2, <2>7
<1>4. T = {}
  <2>1. late = {}
    BY <1>2, <1>3
  <2> HIDE DEF late
  <2> QED
    BY <2>1
<1>5. LessFirst(m, n) = Keep(m.facts, T)
  BY DEF LessFirst
<1> HIDE DEF T
<1>6. Covers(Keep(m.facts, T), m.facts, T, n)
  BY <1>1, KeepCovers
<1>7. Keep(m.facts, T) \in Seq(FactRows)
  BY <1>1, KeepIsSeq
<1>8. Len(Keep(m.facts, T)) = 0
  <2> DEFINE r == Keep(m.facts, T)
  <2>1. Len(r) \in Nat /\ \A i \in 1..Len(r) : FALSE
    BY <1>4, <1>6, <1>7, LenProperties DEF Covers
  <2> QED
    BY <2>1
<1> QED
  BY <1>5, <1>7, <1>8, EmptySeq

\* Clamp leaves a memory within the cap, with the marker it had.
LEMMA ClampHolds ==
    ASSUME NEW m \in Shape
    PROVE  Clamp(m) \in Memories /\ Follows(Clamp(m), m)
<1> DEFINE n == Len(m.facts)
           fits == {k \in 0..n : WordCount(LessFirst(m, k)) <= WordCap}
           least == CHOOSE k \in fits : \A o \in fits : k <= o
           rows == LessFirst(m, least)
<1>1. m.facts \in Seq(FactRows) /\ n \in Nat
  BY LenProperties DEF Shape
<1>2. n \in fits
  <2>1. WordCount(LessFirst(m, n)) = 0
    BY NothingIsLeft, WordCountOfNone
  <2> QED
    BY <1>1, <2>1, MemoryAssumption
<1>3. fits \in SUBSET Nat
  OBVIOUS
<1>4. Clamp(m) = [m EXCEPT !.facts = rows]
  BY DEF Clamp
<1>5. least \in fits
  <2> HIDE DEF fits
  <2> QED
    BY <1>2, <1>3, LeastNumber
<1>6. WordCount(rows) <= WordCap
  <2> HIDE DEF least
  <2> QED
    BY <1>5
<1>7. rows \in Seq(FactRows)
  BY <1>1, KeepIsSeq DEF LessFirst
<1> HIDE DEF rows
<1>8. [m EXCEPT !.facts = rows].facts = rows
  BY DEF Shape
<1> QED
  BY <1>4, <1>6, <1>7, <1>8 DEF Memories, Follows, Shape

\* A fact that a filter finds is one of the memory's.
LEMMA HeadOfKept ==
    ASSUME NEW m \in Shape, NEW T, Keep(m.facts, T) # <<>>
    PROVE  /\ Head(Keep(m.facts, T)) \in FactRows
           /\ Keep(m.facts, T)[1] \in FactRows
<1>1. m.facts \in Seq(FactRows)
  BY DEF Shape
<1> DEFINE r == Keep(m.facts, T)
<1>2. r \in Seq(FactRows)
  BY <1>1, KeepIsSeq
<1> HIDE DEF r
<1>3. r # <<>>
  BY DEF r
<1>4. Head(r) \in FactRows /\ Head(r) = r[1]
  BY <1>2, <1>3, HeadTailProperties
<1> QED
  BY <1>4 DEF r

LEMMA AddTermFollows ==
    ASSUME NEW m \in Shape, NEW text \in Terms, NEW at \in Nat
    PROVE  Follows(AddTerm(m, text, at), m)
<1>1. text \in Texts /\ "stated" \in Sources
  BY MemoryAssumption DEF Sources, Ranks
<1>2. CASE TermAnswer(m, text) = "duplicate"
  <2> DEFINE first == Head(Spellings(m, text))
  <2>1. Spellings(m, text) # <<>>
    BY <1>2 DEF TermAnswer
  <2>2. first \in FactRows
    BY <2>1, HeadOfKept DEF Spellings
  <2> HIDE DEF first
  <2>3. first.text \in Texts
    BY <2>2 DEF FactRows
  <2>4. AddTerm(m, text, at) = Remember(m, first.text, "stated", at)
    BY <1>2 DEF AddTerm, first
  <2> QED
    BY <1>1, <2>3, <2>4, RememberFollows
<1>3. CASE TermAnswer(m, text) = "added"
  <2>1. AddTerm(m, text, at) = Remember(m, text, "stated", at)
    BY <1>3 DEF AddTerm
  <2> QED
    BY <1>1, <2>1, RememberFollows
<1>4. CASE TermAnswer(m, text) \notin {"duplicate", "added"}
  <2>1. AddTerm(m, text, at) = m
    BY <1>4 DEF AddTerm
  <2> QED
    BY <2>1 DEF Follows
<1> QED
  BY <1>2, <1>3, <1>4

LEMMA RemoveTermFollows ==
    ASSUME NEW m \in Shape, NEW text
    PROVE  /\ Follows(RemoveTerm(m, text), m)
           /\ WordCount(RemoveTerm(m, text).facts) <= WordCount(m.facts)
<1>1. CASE Spellings(m, text) = <<>>
  <2>1. WordCount(m.facts) \in Nat
    BY WordCountIsNat DEF Shape
  <2>2. RemoveTerm(m, text) = m
    BY <1>1 DEF RemoveTerm
  <2> QED
    BY <2>1, <2>2 DEF Follows
<1>2. CASE Spellings(m, text) # <<>>
  <2>1. RemoveTerm(m, text) = Forget(m, Head(Spellings(m, text)).text)
    BY <1>2 DEF RemoveTerm
  <2> QED
    BY <2>1, ForgetFollows
<1> QED
  BY <1>1, <1>2

\* A pass over the pack, whatever its length.
LEMMA OfferedFollows ==
    ASSUME NEW m \in Shape, NEW at \in Nat
    PROVE  Follows(Offered(m, at), m)
<1> DEFINE n == Len(Pack)
           S == {s \in [m : Shape, added : Nat] : Follows(s.m, m)}
           base == [m |-> m, added |-> 0]
           offer(s, text) == [m |-> AddTerm(s.m, text, at),
                              added |-> IF TermAnswer(s.m, text) = "added"
                                        THEN s.added + 1 ELSE s.added]
           next(s, i) == IF s.added = SeedMax THEN s ELSE offer(s, Pack[i])
           op == [i \in 1..n |-> [s \in S |-> next(s, i)]]
           F(g) == g = [i \in 0..n |-> IF i = 0 THEN base ELSE next(g[i - 1], i)]
           upTo == CHOOSE g : F(g)
<1>1. n \in Nat /\ \A i \in 1..n : Pack[i] \in Terms
  BY MemoryAssumption, LenProperties, ElementOfSeq
<1>2. base \in S
  BY DEF Follows
<1>3. ASSUME NEW s \in S, NEW text \in Terms PROVE offer(s, text) \in S
  <2>1. s.m \in Shape /\ s.added \in Nat /\ Follows(s.m, m)
    OBVIOUS
  <2>2. Follows(AddTerm(s.m, text, at), s.m)
    BY <2>1, AddTermFollows
  <2>3. Follows(AddTerm(s.m, text, at), m)
    BY <2>1, <2>2 DEF Follows
  <2>4. AddTerm(s.m, text, at) \in Shape
    BY <2>3 DEF Follows
  <2> QED
    BY <2>1, <2>3, <2>4
<1>4. Offered(m, at) = upTo[n].m
  BY DEF Offered
<1>5. \A s \in S : Follows(s.m, m)
  OBVIOUS
<1> HIDE DEF n, S, base, offer
<1>6. \A i \in 1..n : \A s \in S : next(s, i) \in S
  BY <1>1, <1>3
<1> HIDE DEF next
<1>7. op \in Steps(n, S)
  BY <1>6 DEF Steps
<1>8. \E g : F(g)
  <2>1. PICK f : Runs(f, S, base, n, op)
    <3> HIDE DEF op
    <3> QED
      BY <1>1, <1>2, <1>7, RecursionHolds
  <2>2. \A i \in 1..n : i - 1 \in 0..n
    BY <1>1
  <2>3. \A i \in 1..n : f[i - 1] \in S
    BY <2>1, <2>2 DEF Runs
  <2>4. \A i \in 1..n : f[i] = op[i][f[i - 1]]
    BY <2>1 DEF Runs
  <2>5. \A i \in 1..n : f[i] = next(f[i - 1], i)
    BY <2>3, <2>4
  <2>6. f = [i \in 0..n |-> f[i]] /\ f[0] = base
    BY <2>1 DEF Runs
  <2>7. ASSUME NEW i \in 0..n PROVE f[i] = IF i = 0 THEN base ELSE next(f[i - 1], i)
    <3>1. i = 0 \/ i \in 1..n
      BY <1>1
    <3> QED
      BY <2>5, <2>6, <3>1
  <2> HIDE DEF op
  <2> QED
    BY <2>6, <2>7
<1>9. F(upTo)
  <2> HIDE DEF F
  <2> QED
    BY <1>8
<1> HIDE DEF upTo
<1>10. upTo[0] = base /\ \A i \in 1..n : upTo[i] = next(upTo[i - 1], i)
  BY <1>1, <1>9
<1>11. upTo = [i \in 0..n |-> upTo[i]]
  BY <1>9
<1>12. \A i \in 1..n : upTo[i - 1] \in S => upTo[i] = op[i][upTo[i - 1]]
  BY <1>10
<1>13. Runs(upTo, S, base, n, op)
  <2> HIDE DEF op, F
  <2> QED
    BY <1>1, <1>2, <1>7, <1>10, <1>11, <1>12, PrefixRecursion
<1>14. upTo[n] \in S
  BY <1>1, <1>13 DEF Runs
<1> QED
  BY <1>4, <1>5, <1>14

\* The facts of an answer, whatever its length; the marker is not among them.
LEMMA RewrittenHolds ==
    ASSUME NEW old \in Shape, NEW answer \in Answers, NEW at \in Nat
    PROVE  Rewritten(old, answer, at) \in Shape
<1> DEFINE n == Len(answer)
           S == Shape
           base == Empty
           prior(text) == Keep(old.facts, {f \in ToSet(old.facts) : f.text = text})
           next(s, i) == LET known == prior(answer[i])
                         IN  IF known = <<>>
                             THEN Remember(s, answer[i], "inferred", at)
                             ELSE Remember(s, answer[i], known[1].source, known[1].at)
           op == [i \in 1..n |-> [s \in S |-> next(s, i)]]
           F(g) == g = [i \in 0..n |-> IF i = 0 THEN base ELSE next(g[i - 1], i)]
           upTo == CHOOSE g : F(g)
<1>1. n \in Nat /\ \A i \in 1..n : answer[i] \in Texts
  BY MemoryAssumption, LenProperties, ElementOfSeq
<1>2. base \in S
  BY DEF Empty, Shape
<1>3. ASSUME NEW s \in S, NEW i \in 1..n PROVE next(s, i) \in S
  <2> DEFINE known == prior(answer[i])
  <2>1. answer[i] \in Texts
    BY <1>1
  <2>2. CASE known = <<>>
    <3>1. next(s, i) = Remember(s, answer[i], "inferred", at)
      BY <2>2
    <3>2. "inferred" \in Sources
      BY DEF Sources, Ranks
    <3> QED
      BY <2>1, <3>1, <3>2, RememberFollows DEF Follows
  <2>3. CASE known # <<>>
    <3>1. next(s, i) = Remember(s, answer[i], known[1].source, known[1].at)
      BY <2>3
    <3>2. known[1] \in FactRows
      BY <2>3, HeadOfKept
    <3> HIDE DEF known, next
    <3>3. known[1].source \in Sources /\ known[1].at \in Nat
      BY <3>2 DEF FactRows
    <3> QED
      BY <2>1, <3>1, <3>3, RememberFollows DEF Follows
  <2> QED
    BY <2>2, <2>3
<1>4. Rewritten(old, answer, at) = upTo[n]
  BY DEF Rewritten
<1> HIDE DEF n, S, base, prior
<1>5. \A i \in 1..n : \A s \in S : next(s, i) \in S
  BY <1>3
<1> HIDE DEF next
<1>6. op \in Steps(n, S)
  BY <1>5 DEF Steps
<1>7. \E g : F(g)
  <2>1. PICK f : Runs(f, S, base, n, op)
    <3> HIDE DEF op
    <3> QED
      BY <1>1, <1>2, <1>6, RecursionHolds
  <2>2. \A i \in 1..n : i - 1 \in 0..n
    BY <1>1
  <2>3. \A i \in 1..n : f[i - 1] \in S
    BY <2>1, <2>2 DEF Runs
  <2>4. \A i \in 1..n : f[i] = op[i][f[i - 1]]
    BY <2>1 DEF Runs
  <2>5. \A i \in 1..n : f[i] = next(f[i - 1], i)
    BY <2>3, <2>4
  <2>6. f = [i \in 0..n |-> f[i]] /\ f[0] = base
    BY <2>1 DEF Runs
  <2>7. ASSUME NEW i \in 0..n PROVE f[i] = IF i = 0 THEN base ELSE next(f[i - 1], i)
    <3>1. i = 0 \/ i \in 1..n
      BY <1>1
    <3> QED
      BY <2>5, <2>6, <3>1
  <2> HIDE DEF op
  <2> QED
    BY <2>6, <2>7
<1>8. F(upTo)
  <2> HIDE DEF F
  <2> QED
    BY <1>7
<1> HIDE DEF upTo
<1>9. upTo[0] = base /\ \A i \in 1..n : upTo[i] = next(upTo[i - 1], i)
  BY <1>1, <1>8
<1>10. upTo = [i \in 0..n |-> upTo[i]]
  BY <1>8
<1>11. \A i \in 1..n : upTo[i - 1] \in S => upTo[i] = op[i][upTo[i - 1]]
  BY <1>9
<1>12. Runs(upTo, S, base, n, op)
  <2> HIDE DEF op, F
  <2> QED
    BY <1>1, <1>2, <1>6, <1>9, <1>10, <1>11, PrefixRecursion
<1> QED
  BY <1>1, <1>4, <1>12 DEF Runs, S

LEMMA SeedPackHolds ==
    ASSUME NEW m \in Shape, NEW at \in Nat
    PROVE  SeedPack(m, at) \in Memories /\ SeedPack(m, at).seeded
<1> DEFINE offered == Offered(m, at)
           marked == [offered EXCEPT !.seeded = TRUE]
<1>1. offered \in Shape
  BY OfferedFollows DEF Follows
<1> HIDE DEF offered
<1>2. marked \in Shape /\ marked.seeded = TRUE
  BY <1>1 DEF Shape
<1>3. SeedPack(m, at) = Clamp(marked)
  BY DEF SeedPack, offered
<1> HIDE DEF marked
<1> QED
  BY <1>2, <1>3, ClampHolds DEF Follows

LEMMA ReflectedHolds ==
    ASSUME NEW old \in Shape, NEW answer \in Answers, NEW at \in Nat
    PROVE  /\ Reflected(old, answer, at) \in Memories
           /\ Reflected(old, answer, at).seeded = old.seeded
<1> DEFINE rewritten == Rewritten(old, answer, at)
           marked == [rewritten EXCEPT !.seeded = old.seeded]
<1>1. rewritten \in Shape
  BY RewrittenHolds
<1> HIDE DEF rewritten
<1>2. marked \in Shape /\ marked.seeded = old.seeded
  BY <1>1 DEF Shape
<1>3. Reflected(old, answer, at) = Clamp(marked)
  BY DEF Reflected, rewritten
<1> HIDE DEF marked
<1> QED
  BY <1>2, <1>3, ClampHolds DEF Follows

-----------------------------------------------------------------------------
(* What is in memory and on disk, however the calls overlap *)

Files == Memories \cup {Torn, Missing}

Opening == {"open", "open_pre"}
Writing == {"write", "write_pre"}
Renaming == {"rename", "rename_pre"}
ShiftingThird == {"shift2", "shift2_pre"}
ShiftingSecond == {"shift1", "shift1_pre"}
Snapping == {"snap", "snap_pre"}
Doing == {"idle", "asking"} \cup ShiftingThird \cup ShiftingSecond \cup Snapping
            \cup Opening \cup Writing \cup Renaming

Snaps == [1..3 -> Files]
Disks == [main : Files, tmp : Files, snaps : Snaps]
Undos == [memory : Memories, rotations : 0..4, dropped : BOOLEAN]

MemoryTypeOK ==
    /\ memory \in Memories
    /\ files \in Disks
    /\ step \in [Callers -> Doing]
    /\ copy \in [Callers -> Memories]
    /\ handle \in [Callers -> {"none", "tmp", "main"}]
    /\ edits \in Nat /\ acked \in Nat
    /\ undo \in Undos

LEMMA EmptyIsHeld == Empty \in Memories
<1>1. Empty \in Shape /\ Empty.facts = <<>>
  BY DEF Empty, Shape
<1> QED
  BY <1>1, WordCountOfNone, MemoryAssumption DEF Memories

LEMMA MemoryTypeInit == MemoryInit => MemoryTypeOK
<1> SUFFICES ASSUME MemoryInit PROVE MemoryTypeOK
  OBVIOUS
<1>1. Missing \in Files
  BY DEF Files
<1>2. files \in Disks
  BY <1>1 DEF MemoryInit, Disks, Snaps
<1>3. undo \in Undos
  BY EmptyIsHeld DEF MemoryInit, Undos
<1> QED
  BY <1>2, <1>3, EmptyIsHeld DEF MemoryInit, MemoryTypeOK, Doing

LEMMA ChangeTypes ==
    ASSUME MemoryTypeOK, NEW c \in Callers, NEW m \in Memories, Change(c, m)
    PROVE  /\ memory' \in Memories /\ memory'.seeded = m.seeded
           /\ memory'.version = edits + 1 /\ edits' = edits + 1
           /\ copy' \in [Callers -> Memories] /\ copy'[c] = memory'
           /\ \A d \in Callers : d # c => copy'[d] = copy[d]
           /\ step' = [step EXCEPT ![c] = "shift2"]
           /\ step' \in [Callers -> Doing]
<1>1. edits \in Nat /\ copy \in [Callers -> Memories] /\ step \in [Callers -> Doing]
  BY DEF MemoryTypeOK
<1> DEFINE new == [m EXCEPT !.version = edits + 1]
<1>2. new \in Memories /\ new.seeded = m.seeded /\ new.version = edits + 1
  <2>1. m \in Shape
    BY DEF Memories
  <2>2. new \in Shape /\ new.facts = m.facts /\ new.seeded = m.seeded /\ new.version = edits + 1
    BY ONLY <1>1, <2>1 DEF Shape
  <2> HIDE DEF new
  <2> QED
    BY <2>1, <2>2 DEF Memories
<1>3. /\ edits' = edits + 1 /\ memory' = new /\ copy' = [copy EXCEPT ![c] = new]
      /\ step' = [step EXCEPT ![c] = "shift2"]
  BY DEF Change
<1> HIDE DEF new
<1> QED
  BY <1>1, <1>2, <1>3 DEF Doing, ShiftingThird

\* A call changes the memory to m and starts to save it.
Saves(c, m) ==
    /\ MayCall(c)
    /\ Change(c, m)
    /\ memory.seeded => m.seeded
    /\ UNCHANGED <<files, handle, signals, acked, packed, undo>>

\* What each caller saves is a memory within the cap that keeps the marker.
LEMMA CallsChange ==
    ASSUME MemoryTypeOK,
           \/ \E text \in Texts, source \in Stances : ToolRemember(text, source)
           \/ \E text \in Texts : ToolForget(text)
           \/ \E text \in Terms : AddVocabularyTerm(text) \/ RemoveVocabularyTerm(text)
           \/ SeedVocabulary
    PROVE  \E c \in {"agent", "editor"} : \E m \in Memories : Saves(c, m)
<1> DEFINE at == Second(edits)
<1>1. memory \in Shape /\ WordCount(memory.facts) <= WordCap /\ at \in Nat
  BY DEF MemoryTypeOK, Memories, Second
<1>2. WordCount(memory.facts) \in Nat /\ WordCap \in Nat
  BY <1>1, WordCountIsNat, MemoryAssumption DEF Shape
<1> HIDE DEF at
<1>3. ASSUME NEW m, Follows(m, memory), WordCount(m.facts) <= WordCount(memory.facts)
      PROVE  m \in Memories /\ m.seeded = memory.seeded
  <2>1. WordCount(m.facts) \in Nat
    BY <1>3, WordCountIsNat DEF Follows, Shape
  <2> QED
    BY <1>1, <1>2, <1>3, <2>1 DEF Follows, Memories
<1>4. ASSUME NEW m, Follows(m, memory)
      PROVE  Clamp(m) \in Memories /\ Clamp(m).seeded = memory.seeded
  BY <1>4, ClampHolds DEF Follows
<1>5. ASSUME NEW text \in Texts, NEW source \in Stances, ToolRemember(text, source)
      PROVE  \E m \in Memories : Saves("agent", m)
  <2> DEFINE m == Clamp(Remember(memory, text, source, at))
  <2>1. source \in Sources
    BY MemoryAssumption
  <2>2. m \in Memories /\ m.seeded = memory.seeded
    BY <1>1, <1>4, <2>1, RememberFollows
  <2>3. /\ MayCall("agent") /\ Change("agent", m)
        /\ UNCHANGED <<files, handle, signals, acked, packed, undo>>
    BY <1>5 DEF ToolRemember, at
  <2> HIDE DEF m
  <2> QED
    BY <2>2, <2>3 DEF Saves
<1>6. ASSUME NEW text \in Texts, ToolForget(text)
      PROVE  \E m \in Memories : Saves("agent", m)
  <2> DEFINE m == Forget(memory, text)
  <2>1. m \in Memories /\ m.seeded = memory.seeded
    BY <1>1, <1>3, ForgetFollows
  <2>2. /\ MayCall("agent") /\ Change("agent", m)
        /\ UNCHANGED <<files, handle, signals, acked, packed, undo>>
    BY <1>6 DEF ToolForget
  <2> HIDE DEF m
  <2> QED
    BY <2>1, <2>2 DEF Saves
<1>7. ASSUME NEW text \in Terms, AddVocabularyTerm(text)
      PROVE  \E m \in Memories : Saves("editor", m)
  <2> DEFINE m == Clamp(AddTerm(memory, text, at))
  <2>1. m \in Memories /\ m.seeded = memory.seeded
    BY <1>1, <1>4, AddTermFollows
  <2>2. /\ MayCall("editor") /\ Change("editor", m)
        /\ UNCHANGED <<files, handle, signals, acked, packed, undo>>
    BY <1>7 DEF AddVocabularyTerm, at
  <2> HIDE DEF m
  <2> QED
    BY <2>1, <2>2 DEF Saves
<1>8. ASSUME NEW text \in Terms, RemoveVocabularyTerm(text)
      PROVE  \E m \in Memories : Saves("editor", m)
  <2> DEFINE m == RemoveTerm(memory, text)
  <2>1. m \in Memories /\ m.seeded = memory.seeded
    BY <1>1, <1>3, RemoveTermFollows
  <2>2. /\ MayCall("editor") /\ Change("editor", m)
        /\ UNCHANGED <<files, handle, signals, acked, packed, undo>>
    BY <1>8 DEF RemoveVocabularyTerm
  <2> HIDE DEF m
  <2> QED
    BY <2>1, <2>2 DEF Saves
<1>9. ASSUME SeedVocabulary
      PROVE  \E m \in Memories : Saves("editor", m)
  <2> DEFINE m == SeedPack(memory, at)
  <2>1. m \in Memories /\ m.seeded
    BY <1>1, SeedPackHolds
  <2>2. /\ MayCall("editor") /\ Change("editor", m)
        /\ UNCHANGED <<files, handle, signals, acked, packed, undo>>
    BY <1>9 DEF SeedVocabulary, at
  <2> HIDE DEF m
  <2> QED
    BY <2>1, <2>2 DEF Saves
<1> QED
  BY <1>5, <1>6, <1>7, <1>8, <1>9

\* An answer of a reflection, too.
LEMMA ReflectionChanges ==
    ASSUME MemoryTypeOK, NEW answer \in Answers, ReflectionAnswers(answer)
    PROVE  \E m \in Memories :
              /\ step["reflection"] = "asking"
              /\ Change("reflection", m)
              /\ m.seeded = copy["reflection"].seeded
              /\ undo' = [memory |-> copy["reflection"], rotations |-> 0, dropped |-> FALSE]
              /\ UNCHANGED <<files, handle, signals, acked, packed>>
<1> DEFINE old == copy["reflection"]
           at == Second(old.version)
           m == Reflected(old, answer, at)
<1>1. old \in Shape
  BY DEF MemoryTypeOK, Memories, Callers
<1>2. at \in Nat
  <2> HIDE DEF old
  <2> QED
    BY <1>1 DEF Second, Shape
<1>3. /\ step["reflection"] = "asking" /\ Change("reflection", m)
      /\ undo' = [memory |-> old, rotations |-> 0, dropped |-> FALSE]
      /\ UNCHANGED <<files, handle, signals, acked, packed>>
  BY DEF ReflectionAnswers
<1> HIDE DEF at
<1>4. m \in Memories /\ m.seeded = old.seeded
  BY <1>1, <1>2, ReflectedHolds
<1> HIDE DEF m
<1> QED
  BY <1>3, <1>4

\* What one rename of a rotation does: the memory a reflection replaced goes
\* along, or is noted as dropped.
LEMMA ShiftMoves ==
    ASSUME files \in Disks, undo \in Undos, NEW k \in 1..2, Shift(k)
    PROVE  /\ files' \in Disks /\ undo' \in Undos
           /\ files'.main = files.main /\ files'.tmp = files.tmp
           /\ \A j \in 1..3 : j \notin {k, k + 1} => files'.snaps[j] = files.snaps[j]
           /\ undo'.memory = undo.memory
           /\ undo'.rotations = IF k = 2 /\ undo.rotations < 4
                                THEN undo.rotations + 1 ELSE undo.rotations
           /\ ~undo'.dropped => /\ ~undo.dropped
                                /\ files.snaps[k] = undo.memory
                                      => files'.snaps[k + 1] = undo.memory
<1> DEFINE count == IF k = 2 /\ undo.rotations < 4
                    THEN undo.rotations + 1 ELSE undo.rotations
<1>1. PICK stays \in BOOLEAN :
         /\ files' = IF stays THEN files
                     ELSE [files EXCEPT !.snaps[k + 1] = files.snaps[k],
                                        !.snaps[k] = Missing]
         /\ undo' = [undo EXCEPT
                !.rotations = IF k = 2 /\ @ < 4 THEN @ + 1 ELSE @,
                !.dropped = @ \/ (stays /\ files.snaps[k] = undo.memory)]
  BY DEF Shift
<1> DEFINE drops == undo.dropped \/ (stays /\ files.snaps[k] = undo.memory)
<1>2. Missing \in Files /\ k + 1 \in 1..3 /\ k \in 1..3 /\ k + 1 # k
  BY DEF Files
<1>3. /\ files' \in Disks
      /\ files'.main = files.main /\ files'.tmp = files.tmp
      /\ \A j \in 1..3 : j \notin {k, k + 1} => files'.snaps[j] = files.snaps[j]
      /\ ~stays => files'.snaps[k + 1] = files.snaps[k]
  BY <1>1, <1>2 DEF Disks, Snaps
<1>4. undo.rotations \in 0..4 /\ undo.memory \in Memories /\ undo.dropped \in BOOLEAN
  BY DEF Undos
<1>5. count \in 0..4
  BY <1>4
<1>6. drops \in BOOLEAN
  OBVIOUS
<1>7. undo' = [undo EXCEPT !.rotations = count, !.dropped = drops]
  BY ONLY <1>1 DEF count, drops
<1> HIDE DEF count, drops
<1>8. /\ undo' \in Undos /\ undo'.memory = undo.memory
      /\ undo'.rotations = count /\ undo'.dropped = drops
  BY <1>4, <1>5, <1>6, <1>7 DEF Undos
<1>9. ~undo'.dropped => ~undo.dropped /\ ~(stays /\ files.snaps[k] = undo.memory)
  BY <1>8 DEF drops
<1> QED
  BY <1>3, <1>8, <1>9 DEF count

LEMMA RotateTypes ==
    ASSUME MemoryTypeOK, NEW c \in Callers
    PROVE  /\ RotateThird(c) => MemoryTypeOK'
           /\ RotateSecond(c) => MemoryTypeOK'
           /\ Snap(c) => MemoryTypeOK'
<1>1. /\ files \in Disks /\ undo \in Undos /\ step \in [Callers -> Doing]
  BY DEF MemoryTypeOK
<1>2. ASSUME RotateThird(c) PROVE MemoryTypeOK'
  <2>1. files' \in Disks /\ undo' \in Undos
    BY <1>1, <1>2, ShiftMoves DEF RotateThird
  <2>2. step' \in [Callers -> Doing]
    BY <1>1, <1>2 DEF RotateThird, Doing, ShiftingSecond
  <2> QED
    BY <1>2, <2>1, <2>2 DEF RotateThird, MemoryTypeOK
<1>3. ASSUME RotateSecond(c) PROVE MemoryTypeOK'
  <2>1. files' \in Disks /\ undo' \in Undos
    BY <1>1, <1>3, ShiftMoves DEF RotateSecond
  <2>2. step' \in [Callers -> Doing]
    BY <1>1, <1>3 DEF RotateSecond, Doing, Snapping
  <2> QED
    BY <1>3, <2>1, <2>2 DEF RotateSecond, MemoryTypeOK
<1>4. ASSUME Snap(c) PROVE MemoryTypeOK'
  <2>1. PICK body \in {files.main, files.snaps[1], Torn} :
           /\ files' = [files EXCEPT !.snaps[1] = body]
           /\ undo' = [undo EXCEPT !.dropped =
                  @ \/ (files.main = undo.memory /\ body # files.main)]
    BY <1>4 DEF Snap
  <2>2. body \in Files
    BY <1>1, <2>1 DEF Disks, Snaps, Files
  <2>3. files' \in Disks
    BY <1>1, <2>1, <2>2 DEF Disks, Snaps
  <2>4. undo' \in Undos
    BY <1>1, <2>1 DEF Undos
  <2>5. step' \in [Callers -> Doing]
    BY <1>1, <1>4 DEF Snap, Doing, Opening
  <2> QED
    BY <1>4, <2>3, <2>4, <2>5 DEF Snap, MemoryTypeOK
<1> QED
  BY <1>2, <1>3, <1>4

LEMMA SaveTypes ==
    ASSUME MemoryTypeOK, NEW c \in Callers
    PROVE  /\ OpenTmp(c) => MemoryTypeOK'
           /\ WriteTmp(c) => MemoryTypeOK'
           /\ SaveFails(c) => MemoryTypeOK'
<1>1. /\ memory \in Memories
      /\ files \in Disks
      /\ step \in [Callers -> Doing]
      /\ copy \in [Callers -> Memories]
      /\ handle \in [Callers -> {"none", "tmp", "main"}]
      /\ edits \in Nat /\ acked \in Nat
      /\ undo \in Undos
  BY DEF MemoryTypeOK
<1>3. ASSUME OpenTmp(c) PROVE MemoryTypeOK'
  <2>1. files' \in Disks
    BY <1>1, <1>3 DEF OpenTmp, Files, Disks
  <2>2. step' \in [Callers -> Doing] /\ handle' \in [Callers -> {"none", "tmp", "main"}]
    BY <1>1, <1>3 DEF OpenTmp, Doing, Writing
  <2> QED
    BY <1>1, <1>3, <2>1, <2>2 DEF OpenTmp, MemoryTypeOK
<1>4. ASSUME WriteTmp(c) PROVE MemoryTypeOK'
  <2>1. PICK body \in {copy[c], Torn} :
           files' = CASE handle[c] = "tmp" -> [files EXCEPT !.tmp = body]
                      [] handle[c] = "main" -> [files EXCEPT !.main = body]
                      [] OTHER -> files
    BY <1>4 DEF WriteTmp
  <2>2. body \in Files
    BY <1>1 DEF Files
  <2>3. files' \in Disks
    BY <1>1, <2>1, <2>2 DEF Disks
  <2>4. step' \in [Callers -> Doing] /\ handle' \in [Callers -> {"none", "tmp", "main"}]
    BY <1>1, <1>4 DEF WriteTmp, Doing, Renaming
  <2> QED
    BY <1>1, <1>4, <2>3, <2>4 DEF WriteTmp, MemoryTypeOK
<1>5. ASSUME SaveFails(c) PROVE MemoryTypeOK'
  <2>1. step' \in [Callers -> Doing] /\ handle' \in [Callers -> {"none", "tmp", "main"}]
    BY <1>1, <1>5 DEF SaveFails, Doing
  <2>2. copy' \in [Callers -> Memories]
    BY <1>1, <1>5, EmptyIsHeld DEF SaveFails
  <2> QED
    BY <1>1, <1>5, <2>1, <2>2 DEF SaveFails, MemoryTypeOK
<1> QED
  BY <1>3, <1>4, <1>5

LEMMA RenameTypes ==
    ASSUME MemoryTypeOK
    PROVE  /\ \A c \in Callers : Acknowledge(c) => MemoryTypeOK'
           /\ RollbackSaved => MemoryTypeOK'
           /\ \A counted \in BOOLEAN : ReflectionSaved(counted) => MemoryTypeOK'
<1>1. /\ memory \in Memories
      /\ files \in Disks
      /\ step \in [Callers -> Doing]
      /\ copy \in [Callers -> Memories]
      /\ handle \in [Callers -> {"none", "tmp", "main"}]
      /\ edits \in Nat /\ acked \in Nat
      /\ undo \in Undos
  BY DEF MemoryTypeOK
<1>2. "reflection" \in Callers
  BY DEF Callers
<1>3. ASSUME Renamed
      PROVE  /\ files' \in Disks
             /\ handle' \in [Callers -> {"none", "tmp", "main"}]
  <2>1. files' \in Disks
    BY <1>1, <1>3 DEF Renamed, Files, Disks
  <2>2. handle' \in [Callers -> {"none", "tmp", "main"}]
    BY <1>1, <1>3 DEF Renamed
  <2> QED
    BY <2>1, <2>2
<1>4. \A c \in Callers : copy[c].version \in Nat
  BY <1>1 DEF Memories, Shape
<1>5. ASSUME NEW c \in Callers, Acknowledge(c) PROVE MemoryTypeOK'
  <2>1. step' \in [Callers -> Doing] /\ copy' \in [Callers -> Memories] /\ acked' \in Nat
    BY <1>1, <1>4, <1>5, EmptyIsHeld DEF Acknowledge, Doing
  <2> QED
    BY <1>1, <1>3, <1>5, <2>1 DEF Acknowledge, MemoryTypeOK
<1>6. ASSUME RollbackSaved PROVE MemoryTypeOK'
  <2>1. step' \in [Callers -> Doing]
    BY <1>1, <1>6 DEF RollbackSaved, Doing
  <2> QED
    BY <1>1, <1>3, <1>6, <2>1 DEF RollbackSaved, MemoryTypeOK
<1>7. ASSUME NEW counted \in BOOLEAN, ReflectionSaved(counted) PROVE MemoryTypeOK'
  <2>1. step' \in [Callers -> Doing] /\ copy' \in [Callers -> Memories] /\ acked' \in Nat
    BY <1>1, <1>2, <1>4, <1>7, EmptyIsHeld DEF ReflectionSaved, Doing
  <2> QED
    BY <1>1, <1>3, <1>7, <2>1 DEF ReflectionSaved, MemoryTypeOK
<1> QED
  BY <1>5, <1>6, <1>7

LEMMA MemoryTypeStep == MemoryTypeOK /\ [MemoryNext]_memoryVars => MemoryTypeOK'
<1> SUFFICES ASSUME MemoryTypeOK, [MemoryNext]_memoryVars PROVE MemoryTypeOK'
  OBVIOUS
<1>1. /\ memory \in Memories
      /\ files \in Disks
      /\ step \in [Callers -> Doing]
      /\ copy \in [Callers -> Memories]
      /\ handle \in [Callers -> {"none", "tmp", "main"}]
      /\ edits \in Nat /\ acked \in Nat
      /\ undo \in Undos
  BY DEF MemoryTypeOK
<1>2. "reflection" \in Callers /\ {"agent", "editor"} \subseteq Callers
  BY DEF Callers
<1>3. ASSUME NEW c \in Callers,
             \/ RotateThird(c) \/ RotateSecond(c) \/ Snap(c)
             \/ OpenTmp(c) \/ WriteTmp(c) \/ Acknowledge(c) \/ SaveFails(c)
      PROVE  MemoryTypeOK'
  BY <1>3, RotateTypes, SaveTypes, RenameTypes
<1>4. CASE KillAndLaunch
  <2>1. memory' \in Memories
    BY <1>1, <1>4, EmptyIsHeld DEF KillAndLaunch, Readable, Files, Disks
  <2>2. /\ step' \in [Callers -> Doing] /\ copy' \in [Callers -> Memories]
        /\ handle' \in [Callers -> {"none", "tmp", "main"}]
    BY <1>4, EmptyIsHeld DEF KillAndLaunch, Doing
  <2> QED
    BY <1>1, <1>4, <2>1, <2>2 DEF KillAndLaunch, MemoryTypeOK
<1>5. ASSUME \/ \E text \in Texts, source \in Stances : ToolRemember(text, source)
             \/ \E text \in Texts : ToolForget(text)
             \/ \E text \in Terms : AddVocabularyTerm(text) \/ RemoveVocabularyTerm(text)
             \/ SeedVocabulary
      PROVE  MemoryTypeOK'
  <2>1. PICK c \in {"agent", "editor"}, m \in Memories : Saves(c, m)
    BY <1>5, CallsChange
  <2>2. /\ memory' \in Memories /\ edits' \in Nat
        /\ copy' \in [Callers -> Memories] /\ step' \in [Callers -> Doing]
    BY <1>1, <1>2, <2>1, ChangeTypes DEF Saves
  <2> QED
    BY <1>1, <2>1, <2>2 DEF Saves, MemoryTypeOK
<1>6. ASSUME SessionEnds \/ ReflectionRefused \/ Reflect \/ UNCHANGED memoryVars
      PROVE  MemoryTypeOK'
  <2>1. \/ UNCHANGED <<step, copy>>
        \/ /\ step' = [step EXCEPT !["reflection"] = "idle"]
           /\ copy' = [copy EXCEPT !["reflection"] = Empty]
        \/ /\ step' = [step EXCEPT !["reflection"] = "shift2_pre"]
           /\ copy' = [copy EXCEPT !["reflection"] = memory]
    BY <1>6 DEF SessionEnds, ReflectionRefused, Reflect, memoryVars
  <2>2. step' \in [Callers -> Doing] /\ copy' \in [Callers -> Memories]
    BY <1>1, <2>1, EmptyIsHeld DEF Doing, ShiftingThird
  <2> QED
    BY <1>1, <1>6, <2>2
       DEF SessionEnds, ReflectionRefused, Reflect, memoryVars, MemoryTypeOK
<1>7. ASSUME NEW answer \in Answers, ReflectionAnswers(answer) PROVE MemoryTypeOK'
  <2>1. PICK m \in Memories :
           /\ Change("reflection", m)
           /\ undo' = [memory |-> copy["reflection"], rotations |-> 0, dropped |-> FALSE]
           /\ UNCHANGED <<files, handle, signals, acked, packed>>
    BY <1>7, ReflectionChanges
  <2>2. /\ memory' \in Memories /\ edits' \in Nat
        /\ copy' \in [Callers -> Memories] /\ step' \in [Callers -> Doing]
    BY <1>1, <1>2, <2>1, ChangeTypes
  <2>3. undo' \in Undos
    BY <1>1, <1>2, <2>1 DEF Undos
  <2> QED
    BY <1>1, <2>1, <2>2, <2>3 DEF MemoryTypeOK
<1>8. ASSUME RollbackSaved \/ \E counted \in BOOLEAN : ReflectionSaved(counted)
      PROVE  MemoryTypeOK'
  BY <1>8, RenameTypes
<1> QED
  BY <1>3, <1>4, <1>5, <1>6, <1>7, <1>8 DEF MemoryNext

\* Memory never outgrows its cap, however the calls overlap, whatever fails
\* and is killed in between.
THEOREM MemoryStaysInCap == MemorySpec => []WithinWordCap
<1>1. MemoryTypeOK => WithinWordCap
  BY DEF MemoryTypeOK, Memories, WithinWordCap
<1> QED
  BY <1>1, MemoryTypeInit, MemoryTypeStep, PTL DEF MemorySpec

-----------------------------------------------------------------------------
(* What is on disk when calls do not overlap *)

\* The stages of a save whose rotation has begun, and is over.
Rotating == ShiftingSecond \cup Snapping
Rotated == Opening \cup Writing \cup Renaming

\* One call at a time is under way ...
OneAtATime == \A c, d \in Callers : step[c] # "idle" /\ step[d] # "idle" => c = d

\* ... and it saves the memory as it is: what it writes is in the temporary
\* file from the last write to the rename.
SaveUnderWay ==
    \A c \in Callers :
        /\ step[c] # "idle" => copy[c] = memory
        /\ handle[c] = IF step[c] \in Writing THEN "tmp" ELSE "none"
        /\ step[c] \in Writing => files.tmp = Torn
        /\ step[c] \in Renaming => files.tmp = memory
        /\ step[c] = "asking" => c = "reflection" /\ files.main = memory
        /\ step[c] \in Rotating \cup Rotated => undo.rotations >= 1

\* The main file is never torn, nor older than what was acknowledged, and it
\* holds the marker once a caller was told so.
MainIsSound ==
    /\ files.main # Torn
    /\ acked <= memory.version /\ memory.version <= edits
    /\ Readable(files.main) => files.main.version <= edits
    /\ acked > 0 => Readable(files.main) /\ files.main.version >= acked
    /\ packed => memory.seeded /\ Readable(files.main) /\ files.main.seeded

\* Where the memory the last reflection replaced may be read: the main file, or
\* a snapshot.
Slot(j) == IF j = 0 THEN files.main ELSE files.snaps[j]

\* It has moved at most one slot with each rotation, and is not where a rotation
\* under way is about to write.
KeptAt(j) ==
    /\ Slot(j) = undo.memory /\ j <= undo.rotations
    /\ \A c \in Callers :
          /\ step[c] \in ShiftingSecond => j # 2 /\ (j = 1 => undo.rotations >= 2)
          /\ step[c] \in Snapping => j # 1
          /\ step[c] \in Rotated => j >= 1

UndoIsKept == undo.rotations <= 3 /\ ~undo.dropped => \E j \in 0..3 : KeptAt(j)

SerialInv == MemoryTypeOK /\ OneAtATime /\ SaveUnderWay /\ MainIsSound /\ UndoIsKept

LEMMA SerialInit == MemoryInit => SerialInv
<1> SUFFICES ASSUME MemoryInit PROVE SerialInv
  OBVIOUS
<1>1. MemoryTypeOK
  BY MemoryTypeInit
<1>2. OneAtATime /\ SaveUnderWay
  BY DEF MemoryInit, OneAtATime, SaveUnderWay, ShiftingThird, ShiftingSecond,
         Snapping, Opening, Writing, Renaming, Rotating, Rotated
<1>3. Missing # Torn /\ ~Readable(Missing)
  BY DEF Missing, Torn, Readable
<1>4. MainIsSound
  BY <1>3 DEF MemoryInit, MainIsSound, Empty
<1>5. UndoIsKept
  BY DEF MemoryInit, UndoIsKept
<1> QED
  BY <1>1, <1>2, <1>4, <1>5 DEF SerialInv

\* A memory is a file that can be read.
LEMMA MemoriesAreReadable ==
    ASSUME NEW m \in Memories
    PROVE  Readable(m) /\ m # Torn /\ m # Missing
<1>1. DOMAIN m = {"facts", "seeded", "version"}
  BY DEF Memories, Shape
<1>2. DOMAIN Torn = {"torn"} /\ DOMAIN Missing = {"missing"}
  BY DEF Torn, Missing
<1>3. "facts" \notin {"torn"} /\ "facts" \notin {"missing"}
  OBVIOUS
<1>4. m # Torn /\ m # Missing
  BY <1>1, <1>2, <1>3
<1> QED
  BY <1>4 DEF Readable

\* The state after a step that leaves one caller, at most, with something to
\* do.
LEMMA OthersIdle ==
    ASSUME OneAtATime, NEW c \in Callers, step[c] # "idle"
    PROVE  \A d \in Callers : d # c => step[d] = "idle"
BY DEF OneAtATime

\* Outside a rotation the replaced memory stays where it can be read.
LEMMA UndoStays ==
    ASSUME UndoIsKept, files'.main = files.main, files'.snaps = files.snaps,
           undo' = undo,
           \A c \in Callers : \/ step'[c] = step[c]
                              \/ step'[c] \in {"idle", "asking"} \cup ShiftingThird
                              \/ step[c] \in Rotated /\ step'[c] \in Rotated
    PROVE  UndoIsKept'
<1> SUFFICES ASSUME undo.rotations <= 3, ~undo.dropped PROVE \E j \in 0..3 : KeptAt(j)'
  BY DEF UndoIsKept
<1>1. PICK j \in 0..3 : KeptAt(j)
  BY DEF UndoIsKept
<1>2. Slot(j)' = Slot(j)
  BY DEF Slot
<1>3. ASSUME NEW c \in Callers
      PROVE  /\ step'[c] \in ShiftingSecond => step[c] \in ShiftingSecond
             /\ step'[c] \in Snapping => step[c] \in Snapping
             /\ step'[c] \in Rotated => step[c] \in Rotated
  BY DEF ShiftingThird, ShiftingSecond, Snapping, Opening, Writing, Renaming, Rotated
<1>4. KeptAt(j)'
  BY <1>1, <1>2, <1>3 DEF KeptAt
<1> QED
  BY <1>4

\* A call is taken: the memory changes, the disk does not yet.
LEMMA ChangeSerial ==
    ASSUME SerialInv, MemoryTypeOK', NEW c \in Callers, NEW m \in Memories,
           \A d \in Callers : d # c => step[d] = "idle",
           step[c] \in {"idle", "asking"},
           Change(c, m), memory.seeded => m.seeded,
           UNCHANGED <<files, handle, acked, packed>>,
           \/ undo' = undo
           \/ undo' = [memory |-> files.main, rotations |-> 0, dropped |-> FALSE] /\ files.main \in Memories
    PROVE  SerialInv'
<1>1. /\ memory' \in Memories /\ memory'.seeded = m.seeded
      /\ memory'.version = edits + 1 /\ edits' = edits + 1
      /\ copy' \in [Callers -> Memories] /\ copy'[c] = memory'
      /\ step' = [step EXCEPT ![c] = "shift2"]
  BY ChangeTypes DEF SerialInv
<1>2. /\ step \in [Callers -> Doing] /\ edits \in Nat /\ acked \in Nat
      /\ memory \in Memories /\ memory.version \in Nat
      /\ files \in Disks
  BY DEF SerialInv, MemoryTypeOK, Memories, Shape
<1>3. step'[c] = "shift2" /\ \A d \in Callers : d # c => step'[d] = "idle"
  BY <1>1, <1>2
<1>4. OneAtATime'
  BY <1>3 DEF OneAtATime
<1>5. handle[c] = "none" /\ \A d \in Callers : handle[d] = "none"
  BY DEF SerialInv, SaveUnderWay, Writing
<1>6. SaveUnderWay'
  BY <1>1, <1>3, <1>5 DEF SaveUnderWay, ShiftingThird, ShiftingSecond,
         Snapping, Opening, Writing, Renaming, Rotating, Rotated
<1>7. MainIsSound'
  <2>1. acked' <= memory'.version /\ memory'.version <= edits'
    BY <1>1, <1>2 DEF SerialInv, MainIsSound
  <2>2. Readable(files.main) => files.main.version \in Nat
    BY <1>2 DEF Readable, Files, Disks, Memories, Shape
  <2>3. Readable(files'.main) => files'.main.version <= edits'
    BY <1>1, <1>2, <2>2 DEF SerialInv, MainIsSound
  <2>4. packed' => memory'.seeded
    BY <1>1 DEF SerialInv, MainIsSound
  <2> QED
    BY <2>1, <2>3, <2>4 DEF SerialInv, MainIsSound
<1>8. UndoIsKept'
  <2>1. CASE undo' = undo
    BY <1>3, <2>1, UndoStays DEF SerialInv, ShiftingThird
  <2>2. CASE undo' = [memory |-> files.main, rotations |-> 0, dropped |-> FALSE] /\ files.main \in Memories
    <3>1. undo'.memory = files.main /\ undo'.rotations = 0
      BY <2>2
    <3>2. Slot(0)' = undo'.memory
      BY <3>1 DEF Slot
    <3>3. \A d \in Callers : step'[d] \notin ShiftingSecond \cup Snapping \cup Rotated
      BY <1>3 DEF ShiftingSecond, Snapping, Opening, Writing, Renaming, Rotated
    <3>4. KeptAt(0)'
      BY <3>1, <3>2, <3>3 DEF KeptAt
    <3> QED
      BY <3>4 DEF UndoIsKept
  <2> QED
    BY <2>1, <2>2
<1> QED
  BY <1>4, <1>6, <1>7, <1>8 DEF SerialInv

\* A step of a rotation leaves the main and the temporary file alone.
LEMMA RotationSerial ==
    ASSUME SerialInv, MemoryTypeOK', NEW c \in Callers,
           step[c] \in ShiftingThird \cup Rotating,
           NEW next \in Rotating \cup Opening, step' = [step EXCEPT ![c] = next],
           files'.main = files.main, files'.tmp = files.tmp,
           UNCHANGED <<memory, copy, handle, edits, acked, packed>>,
           undo'.rotations >= 1, UndoIsKept'
    PROVE  SerialInv'
<1>1. step \in [Callers -> Doing]
  BY DEF SerialInv, MemoryTypeOK
<1>2. step[c] \notin Writing \cup Renaming \cup {"idle", "asking"}
  BY DEF ShiftingThird, ShiftingSecond, Snapping,
         Opening, Writing, Renaming, Rotating, Rotated
<1>3. next \notin Writing \cup Renaming \cup {"idle", "asking"}
  BY DEF ShiftingThird, ShiftingSecond, Snapping,
         Opening, Writing, Renaming, Rotating, Rotated
<1>4. \A d \in Callers : d # c => step[d] = "idle"
  BY <1>2, OthersIdle DEF SerialInv
<1>5. step'[c] = next /\ \A d \in Callers : d # c => step'[d] = "idle"
  BY <1>1, <1>4
<1>6. OneAtATime'
  BY <1>5 DEF OneAtATime
<1>7. copy'[c] = memory'
  BY <1>2 DEF SerialInv, SaveUnderWay
<1>8. \A d \in Callers : handle'[d] = "none"
  <2>1. \A d \in Callers : step[d] \notin Writing
    BY <1>2, <1>4 DEF ShiftingThird, ShiftingSecond, Snapping,
         Opening, Writing, Renaming, Rotating, Rotated
  <2> QED
    BY <2>1 DEF SerialInv, SaveUnderWay
<1>9. SaveUnderWay'
  <2>1. ASSUME NEW d \in Callers, d # c PROVE step'[d] = "idle"
    BY <1>5, <2>1
  <2>2. "idle" \notin Rotating \cup Rotated \cup Writing \cup Renaming \cup {"asking"}
    BY DEF ShiftingThird, ShiftingSecond, Snapping,
         Opening, Writing, Renaming, Rotating, Rotated
  <2> QED
    BY <1>3, <1>5, <1>7, <1>8, <2>1, <2>2 DEF SaveUnderWay
<1>10. MainIsSound'
  BY DEF SerialInv, MainIsSound
<1> QED
  BY <1>6, <1>9, <1>10 DEF SerialInv

\* .2 becomes .3: the replaced memory is not in .3 before the third rotation
\* since, and afterwards not in .2.
LEMMA RotateThirdSerial ==
    ASSUME SerialInv, MemoryTypeOK', NEW c \in Callers, RotateThird(c)
    PROVE  SerialInv'
<1>1. step \in [Callers -> Doing] /\ files \in Disks /\ undo \in Undos
  BY DEF SerialInv, MemoryTypeOK
<1>2. step[c] \in ShiftingThird /\ UNCHANGED <<memory, copy, handle, edits, acked, packed>>
  BY DEF RotateThird, ShiftingThird
<1>3. PICK next \in ShiftingSecond : step' = [step EXCEPT ![c] = next]
  BY DEF RotateThird, ShiftingSecond
<1>4. Shift(2) /\ 2 \in 1..2 /\ 2 + 1 = 3
  BY DEF RotateThird
<1>5. /\ files'.main = files.main /\ files'.tmp = files.tmp
      /\ files'.snaps[1] = files.snaps[1]
  BY <1>1, <1>4, ShiftMoves
<1>6. /\ undo'.memory = undo.memory /\ undo.rotations \in 0..4
      /\ undo'.rotations = IF undo.rotations < 4 THEN undo.rotations + 1 ELSE undo.rotations
      /\ ~undo'.dropped => /\ ~undo.dropped
                           /\ files.snaps[2] = undo.memory => files'.snaps[3] = undo.memory
  BY <1>1, <1>4, ShiftMoves DEF Undos
<1>7. undo'.rotations >= 1
  BY <1>6
<1>8. UndoIsKept'
  <2> SUFFICES ASSUME undo'.rotations <= 3, ~undo'.dropped PROVE \E j \in 0..3 : KeptAt(j)'
    BY DEF UndoIsKept
  <2>1. undo.rotations \in 0..2 /\ undo'.rotations = undo.rotations + 1 /\ ~undo.dropped
    BY <1>6
  <2>2. PICK j \in 0..3 : KeptAt(j)
    BY <2>1 DEF SerialInv, UndoIsKept
  <2>3. j \in 0..2 /\ j <= undo.rotations /\ Slot(j) = undo.memory
    BY <2>1, <2>2 DEF KeptAt
  <2>4. \A d \in Callers : step'[d] \notin Snapping \cup Rotated
    <3>1. \A d \in Callers : d # c => step[d] = "idle"
      BY <1>2, OthersIdle DEF SerialInv, ShiftingThird, ShiftingSecond,
         Snapping, Opening, Writing, Renaming, Rotating, Rotated
    <3> QED
      BY <1>1, <1>3, <3>1 DEF ShiftingThird, ShiftingSecond, Snapping,
         Opening, Writing, Renaming, Rotating, Rotated
  <2>5. CASE j = 2
    <3>1. files.snaps[2] = undo.memory
      BY <2>3, <2>5 DEF Slot
    <3>2. Slot(3)' = undo'.memory
      BY <1>6, <3>1 DEF Slot
    <3>3. KeptAt(3)'
      BY <2>1, <2>3, <2>4, <2>5, <3>2 DEF KeptAt
    <3> QED
      BY <3>3
  <2>6. CASE j # 2
    <3>1. Slot(j)' = undo'.memory
      BY <1>5, <1>6, <2>3, <2>6 DEF Slot
    <3>2. KeptAt(j)'
      BY <2>1, <2>3, <2>4, <2>6, <3>1 DEF KeptAt
    <3> QED
      BY <3>2
  <2> QED
    BY <2>5, <2>6
<1> QED
  BY <1>2, <1>3, <1>5, <1>7, <1>8, RotationSerial DEF Rotating

\* .1 becomes .2: the replaced memory is not in .2, and afterwards not in .1.
LEMMA RotateSecondSerial ==
    ASSUME SerialInv, MemoryTypeOK', NEW c \in Callers, RotateSecond(c)
    PROVE  SerialInv'
<1>1. step \in [Callers -> Doing] /\ files \in Disks /\ undo \in Undos
  BY DEF SerialInv, MemoryTypeOK
<1>2. step[c] \in ShiftingSecond /\ UNCHANGED <<memory, copy, handle, edits, acked, packed>>
  BY DEF RotateSecond, ShiftingSecond
<1>3. PICK next \in Snapping : step' = [step EXCEPT ![c] = next]
  BY DEF RotateSecond, Snapping
<1>4. Shift(1) /\ 1 \in 1..2 /\ 1 + 1 = 2
  BY DEF RotateSecond
<1>5. /\ files'.main = files.main /\ files'.tmp = files.tmp
      /\ files'.snaps[3] = files.snaps[3]
  BY <1>1, <1>4, ShiftMoves
<1>6. /\ undo'.memory = undo.memory /\ undo.rotations \in 0..4
      /\ undo'.rotations = undo.rotations
      /\ ~undo'.dropped => /\ ~undo.dropped
                           /\ files.snaps[1] = undo.memory => files'.snaps[2] = undo.memory
  BY <1>1, <1>4, ShiftMoves DEF Undos
<1>7. undo'.rotations >= 1
  BY <1>2, <1>6 DEF SerialInv, SaveUnderWay, Rotating
<1>8. UndoIsKept'
  <2> SUFFICES ASSUME undo'.rotations <= 3, ~undo'.dropped PROVE \E j \in 0..3 : KeptAt(j)'
    BY DEF UndoIsKept
  <2>1. PICK j \in 0..3 : KeptAt(j)
    BY <1>6 DEF SerialInv, UndoIsKept
  <2>2. /\ j # 2 /\ (j = 1 => undo.rotations >= 2)
        /\ j <= undo.rotations /\ Slot(j) = undo.memory
    BY <1>2, <2>1 DEF KeptAt
  <2>3. \A d \in Callers : step'[d] \notin ShiftingSecond \cup Rotated
    <3>1. \A d \in Callers : d # c => step[d] = "idle"
      BY <1>2, OthersIdle DEF SerialInv, ShiftingThird, ShiftingSecond,
         Snapping, Opening, Writing, Renaming, Rotating, Rotated
    <3> QED
      BY <1>1, <1>3, <3>1 DEF ShiftingThird, ShiftingSecond, Snapping,
         Opening, Writing, Renaming, Rotating, Rotated
  <2>4. CASE j = 1
    <3>1. files.snaps[1] = undo.memory
      BY <2>2, <2>4 DEF Slot
    <3>2. Slot(2)' = undo'.memory
      BY <1>6, <3>1 DEF Slot
    <3>3. KeptAt(2)'
      BY <1>6, <2>2, <2>3, <2>4, <3>2 DEF KeptAt
    <3> QED
      BY <3>3
  <2>5. CASE j # 1
    <3>1. j = 0 \/ j = 3
      BY <2>2, <2>5
    <3>2. Slot(j)' = undo'.memory
      BY <1>5, <1>6, <2>2, <3>1 DEF Slot
    <3>3. KeptAt(j)'
      BY <1>6, <2>2, <2>3, <2>5, <3>2 DEF KeptAt
    <3> QED
      BY <3>3
  <2> QED
    BY <2>4, <2>5
<1> QED
  BY <1>2, <1>3, <1>5, <1>7, <1>8, RotationSerial DEF Rotating

\* main is copied to .1, where the replaced memory is not.
LEMMA SnapSerial ==
    ASSUME SerialInv, MemoryTypeOK', NEW c \in Callers, Snap(c)
    PROVE  SerialInv'
<1>1. step \in [Callers -> Doing] /\ files \in Disks /\ undo \in Undos
  BY DEF SerialInv, MemoryTypeOK
<1>2. step[c] \in Snapping /\ UNCHANGED <<memory, copy, handle, edits, acked, packed>>
  BY DEF Snap, Snapping
<1>3. PICK next \in Opening : step' = [step EXCEPT ![c] = next]
  BY DEF Snap, Opening
<1>4. PICK body :
         /\ files' = [files EXCEPT !.snaps[1] = body]
         /\ undo' = [undo EXCEPT !.dropped =
                @ \/ (files.main = undo.memory /\ body # files.main)]
  BY DEF Snap
<1>5. /\ files'.main = files.main /\ files'.tmp = files.tmp
      /\ files'.snaps[1] = body
      /\ files'.snaps[2] = files.snaps[2] /\ files'.snaps[3] = files.snaps[3]
  BY <1>1, <1>4 DEF Disks, Snaps
<1>6. /\ undo'.memory = undo.memory /\ undo.rotations \in 0..4
      /\ undo'.rotations = undo.rotations
      /\ ~undo'.dropped => ~undo.dropped /\ ~(files.main = undo.memory /\ body # files.main)
  BY <1>1, <1>4 DEF Undos
<1>7. undo'.rotations >= 1
  BY <1>2, <1>6 DEF SerialInv, SaveUnderWay, Rotating
<1>8. UndoIsKept'
  <2> SUFFICES ASSUME undo'.rotations <= 3, ~undo'.dropped PROVE \E j \in 0..3 : KeptAt(j)'
    BY DEF UndoIsKept
  <2>1. PICK j \in 0..3 : KeptAt(j)
    BY <1>6 DEF SerialInv, UndoIsKept
  <2>2. j # 1 /\ j <= undo.rotations /\ Slot(j) = undo.memory
    BY <1>2, <2>1 DEF KeptAt
  <2>3. \A d \in Callers : step'[d] \notin ShiftingSecond \cup Snapping
    <3>1. \A d \in Callers : d # c => step[d] = "idle"
      BY <1>2, OthersIdle DEF SerialInv, ShiftingThird, ShiftingSecond,
         Snapping, Opening, Writing, Renaming, Rotating, Rotated
    <3> QED
      BY <1>1, <1>3, <3>1 DEF ShiftingThird, ShiftingSecond, Snapping,
         Opening, Writing, Renaming, Rotating, Rotated
  <2>4. CASE j = 0
    <3>1. files.main = undo.memory
      BY <2>2, <2>4 DEF Slot
    <3>2. body = files.main
      BY <1>6, <3>1
    <3>3. Slot(1)' = undo'.memory
      BY <1>5, <1>6, <3>1, <3>2 DEF Slot
    <3>4. KeptAt(1)'
      BY <1>6, <1>7, <2>3, <3>3 DEF KeptAt
    <3> QED
      BY <3>4
  <2>5. CASE j # 0
    <3>1. j = 2 \/ j = 3
      BY <2>2, <2>5
    <3>2. Slot(j)' = undo'.memory
      BY <1>5, <1>6, <2>2, <3>1 DEF Slot
    <3>3. KeptAt(j)'
      BY <1>6, <2>2, <2>3, <3>1, <3>2 DEF KeptAt
    <3> QED
      BY <3>3
  <2> QED
    BY <2>4, <2>5
<1> QED
  BY <1>2, <1>3, <1>5, <1>7, <1>8, RotationSerial DEF Rotating

LEMMA OpenSerial ==
    ASSUME SerialInv, MemoryTypeOK', NEW c \in Callers, OpenTmp(c)
    PROVE  SerialInv'
<1>1. /\ step \in [Callers -> Doing]
      /\ handle \in [Callers -> {"none", "tmp", "main"}]
      /\ files \in Disks
  BY DEF SerialInv, MemoryTypeOK
<1>2. /\ step[c] \in Opening
      /\ step' = [step EXCEPT ![c] = IF @ = "open" THEN "write" ELSE "write_pre"]
      /\ handle' = [handle EXCEPT ![c] = "tmp"]
      /\ UNCHANGED <<memory, copy, edits, acked, packed, undo>>
  BY DEF OpenTmp, Opening
<1>3. \A d \in Callers : d # c => step[d] = "idle"
  BY <1>2, OthersIdle DEF SerialInv, Opening
<1>4. step'[c] \in Writing /\ \A d \in Callers : d # c => step'[d] = "idle"
  BY <1>1, <1>2, <1>3 DEF Writing
<1>5. files'.main = files.main /\ files'.tmp = Torn /\ files'.snaps = files.snaps
  BY <1>1 DEF OpenTmp
<1>6. \A d \in Callers : handle'[d] = IF d = c THEN "tmp" ELSE "none"
  BY <1>1, <1>2, <1>3 DEF SerialInv, SaveUnderWay, Writing
<1>7. copy'[c] = memory' /\ undo'.rotations >= 1
  BY <1>2 DEF SerialInv, SaveUnderWay, Opening, Rotated
<1>8. OneAtATime'
  BY <1>4 DEF OneAtATime
<1>9. SaveUnderWay'
  BY <1>4, <1>5, <1>6, <1>7 DEF SaveUnderWay, ShiftingThird, ShiftingSecond,
         Snapping, Opening, Writing, Renaming, Rotating, Rotated
<1>10. MainIsSound'
  BY <1>2, <1>5 DEF SerialInv, MainIsSound
<1>11. UndoIsKept'
  BY <1>2, <1>3, <1>4, <1>5, UndoStays DEF SerialInv, Rotated
<1> QED
  BY <1>8, <1>9, <1>10, <1>11 DEF SerialInv

\* Nobody else has touched the temporary file: what is written is the memory.
LEMMA WriteSerial ==
    ASSUME SerialInv, MemoryTypeOK', NEW c \in Callers, WriteTmp(c)
    PROVE  SerialInv'
<1>1. /\ step \in [Callers -> Doing]
      /\ handle \in [Callers -> {"none", "tmp", "main"}]
      /\ files \in Disks
  BY DEF SerialInv, MemoryTypeOK
<1>2. /\ step[c] \in Writing
      /\ step' = [step EXCEPT ![c] = IF @ = "write" THEN "rename" ELSE "rename_pre"]
      /\ handle' = [handle EXCEPT ![c] = "none"]
      /\ UNCHANGED <<memory, copy, edits, acked, packed, undo>>
  BY DEF WriteTmp, Writing
<1>3. \A d \in Callers : d # c => step[d] = "idle"
  BY <1>2, OthersIdle DEF SerialInv, Writing
<1>4. step'[c] \in Renaming /\ \A d \in Callers : d # c => step'[d] = "idle"
  BY <1>1, <1>2, <1>3 DEF Renaming
<1>5. handle[c] = "tmp" /\ files.tmp = Torn /\ copy[c] = memory /\ undo.rotations >= 1
  BY <1>2 DEF SerialInv, SaveUnderWay, Writing, Rotated
<1>6. files' = [files EXCEPT !.tmp = memory]
  <2>1. PICK body \in {copy[c], Torn} :
           /\ body = Torn => handle[c] # "none" /\ files[handle[c]] # Torn
           /\ files' = CASE handle[c] = "tmp" -> [files EXCEPT !.tmp = body]
                         [] handle[c] = "main" -> [files EXCEPT !.main = body]
                         [] OTHER -> files
    BY DEF WriteTmp
  <2>2. files["tmp"] = files.tmp
    OBVIOUS
  <2>3. body = memory
    BY <1>5, <2>1, <2>2
  <2>4. files' = [files EXCEPT !.tmp = body]
    BY <1>5, <2>1
  <2> QED
    BY <2>3, <2>4
<1>7. files'.main = files.main /\ files'.tmp = memory /\ files'.snaps = files.snaps
  BY <1>1, <1>6
<1>8. \A d \in Callers : handle'[d] = "none"
  BY <1>1, <1>2, <1>3 DEF SerialInv, SaveUnderWay, Writing
<1>9. OneAtATime'
  BY <1>4 DEF OneAtATime
<1>10. SaveUnderWay'
  BY <1>2, <1>4, <1>5, <1>7, <1>8 DEF SaveUnderWay, ShiftingThird, ShiftingSecond,
         Snapping, Opening, Writing, Renaming, Rotating, Rotated
<1>11. MainIsSound'
  BY <1>2, <1>7 DEF SerialInv, MainIsSound
<1>12. UndoIsKept'
  BY <1>2, <1>3, <1>4, <1>7, UndoStays DEF SerialInv, Rotated
<1> QED
  BY <1>9, <1>10, <1>11, <1>12 DEF SerialInv

\* The memory becomes the main file; a caller may be told so.
LEMMA RenameSerial ==
    ASSUME SerialInv, MemoryTypeOK', NEW c \in Callers,
           step[c] \in Renaming, Renamed,
           \/ step' = [step EXCEPT ![c] = "idle"]
           \/ c = "reflection" /\ step' = [step EXCEPT ![c] = "asking"] /\ copy' = copy,
           \/ UNCHANGED <<acked, packed>>
           \/ /\ acked' = IF copy[c].version > acked THEN copy[c].version ELSE acked
              /\ packed' = (packed \/ copy[c].seeded),
           UNCHANGED <<memory, edits, undo>>
    PROVE  SerialInv'
<1>1. /\ step \in [Callers -> Doing] /\ edits \in Nat /\ acked \in Nat
      /\ handle \in [Callers -> {"none", "tmp", "main"}]
      /\ files \in Disks
      /\ memory \in Memories /\ memory.version \in Nat /\ undo.rotations \in 0..4
  BY DEF SerialInv, MemoryTypeOK, Undos, Memories, Shape
<1>2. \A d \in Callers : d # c => step[d] = "idle"
  BY OthersIdle DEF SerialInv, Renaming
<1>3. copy[c] = memory /\ files.tmp = memory /\ undo.rotations >= 1
  BY DEF SerialInv, SaveUnderWay, Renaming, Rotated
<1>4. files'.main = memory /\ files'.snaps = files.snaps
  BY <1>1, <1>3 DEF Renamed
<1>5. \A d \in Callers : handle'[d] = "none"
  <2>1. \A d \in Callers : handle[d] = "none"
    BY <1>2 DEF SerialInv, SaveUnderWay, Writing, Renaming
  <2> QED
    BY <2>1 DEF Renamed
<1>6. /\ \A d \in Callers : d # c => step'[d] = "idle"
      /\ step'[c] = "idle" \/ (c = "reflection" /\ step'[c] = "asking" /\ copy' = copy)
  BY <1>1, <1>2
<1>7. OneAtATime'
  BY <1>6 DEF OneAtATime
<1>8. SaveUnderWay'
  BY <1>3, <1>4, <1>5, <1>6 DEF SaveUnderWay, ShiftingThird, ShiftingSecond,
         Snapping, Opening, Writing, Renaming, Rotating, Rotated
<1>9. Readable(memory) /\ memory # Torn /\ memory # Missing
  BY <1>1, MemoriesAreReadable
<1>10. acked <= memory.version /\ memory.version <= edits
  BY DEF SerialInv, MainIsSound
<1>11. acked' <= memory.version
  BY <1>1, <1>3, <1>10
<1>12. packed' => memory.seeded
  BY <1>3 DEF SerialInv, MainIsSound
<1>13. MainIsSound'
  BY <1>4, <1>9, <1>10, <1>11, <1>12 DEF MainIsSound
<1>14. UndoIsKept'
  <2> SUFFICES ASSUME undo.rotations <= 3, ~undo.dropped PROVE \E j \in 0..3 : KeptAt(j)'
    BY DEF UndoIsKept
  <2>1. PICK j \in 0..3 : KeptAt(j)
    BY DEF SerialInv, UndoIsKept
  <2>2. j >= 1 /\ j <= undo.rotations /\ files.snaps[j] = undo.memory
    BY <2>1 DEF KeptAt, Slot, Rotated
  <2>3. Slot(j)' = undo'.memory
    BY <1>4, <2>2 DEF Slot
  <2>4. \A d \in Callers : step'[d] \notin ShiftingSecond \cup Snapping \cup Rotated
    BY <1>6 DEF ShiftingSecond, Snapping, Opening, Writing, Renaming, Rotated
  <2>5. KeptAt(j)'
    BY <2>2, <2>3, <2>4 DEF KeptAt
  <2> QED
    BY <2>5
<1> QED
  BY <1>7, <1>8, <1>13, <1>14 DEF SerialInv

\* A caller gives up, or a reflection starts on the memory as it is.
LEMMA CallerSerial ==
    ASSUME SerialInv, MemoryTypeOK', NEW c \in Callers,
           \A d \in Callers : d # c => step[d] = "idle",
           UNCHANGED <<memory, files, edits, acked, packed, undo>>,
           \/ /\ step' = [step EXCEPT ![c] = "idle"]
              /\ handle' = handle \/ handle' = [handle EXCEPT ![c] = "none"]
              /\ step[c] \in Writing => handle'[c] = "none"
           \/ /\ step' = [step EXCEPT ![c] = "shift2_pre"]
              /\ copy' = [copy EXCEPT ![c] = memory]
              /\ handle' = handle
              /\ step[c] = "idle"
    PROVE  SerialInv'
<1>1. /\ step \in [Callers -> Doing] /\ copy \in [Callers -> Memories]
      /\ handle \in [Callers -> {"none", "tmp", "main"}]
  BY DEF SerialInv, MemoryTypeOK
<1>2. /\ \A d \in Callers : d # c => step'[d] = "idle"
      /\ step'[c] = "idle" \/ (step'[c] = "shift2_pre" /\ copy'[c] = memory)
  BY <1>1
<1>3. \A d \in Callers : handle'[d] = "none"
  BY <1>1 DEF SerialInv, SaveUnderWay, Writing
<1>4. OneAtATime'
  BY <1>2 DEF OneAtATime
<1>5. SaveUnderWay'
  BY <1>2, <1>3 DEF SaveUnderWay, ShiftingThird, ShiftingSecond,
         Snapping, Opening, Writing, Renaming, Rotating, Rotated
<1>6. MainIsSound'
  BY DEF SerialInv, MainIsSound
<1>7. UndoIsKept'
  BY <1>2, UndoStays DEF SerialInv, ShiftingThird
<1> QED
  BY <1>4, <1>5, <1>6, <1>7 DEF SerialInv

\* The process is launched again with what is on disk.
LEMMA LaunchSerial ==
    ASSUME SerialInv, MemoryTypeOK', KillAndLaunch
    PROVE  SerialInv'
<1>1. /\ acked \in Nat /\ edits \in Nat
      /\ files \in Disks
  BY DEF SerialInv, MemoryTypeOK
<1>2. \A c \in Callers : step'[c] = "idle" /\ handle'[c] = "none"
  BY DEF KillAndLaunch
<1>3. OneAtATime' /\ SaveUnderWay'
  BY <1>2 DEF OneAtATime, SaveUnderWay, ShiftingThird, ShiftingSecond,
         Snapping, Opening, Writing, Renaming, Rotating, Rotated
<1>4. /\ memory' = IF Readable(files.main) THEN files.main ELSE Empty
      /\ UNCHANGED <<files, edits, acked, packed, undo>>
  BY DEF KillAndLaunch
<1>5. acked' <= memory'.version /\ memory'.version <= edits'
  <2>1. CASE Readable(files.main)
    <3>1. files.main.version \in Nat
      BY <1>1, <2>1 DEF Readable, Files, Disks, Memories, Shape
    <3>2. /\ files.main.version <= edits
          /\ acked > 0 => files.main.version >= acked
      BY <2>1 DEF SerialInv, MainIsSound
    <3> QED
      BY <1>1, <1>4, <2>1, <3>1, <3>2
  <2>2. CASE ~Readable(files.main)
    <3>1. memory'.version = 0
      BY <1>4, <2>2 DEF Empty
    <3>2. acked = 0
      BY <1>1, <2>2 DEF SerialInv, MainIsSound
    <3> QED
      BY <1>1, <1>4, <3>1, <3>2
  <2> QED
    BY <2>1, <2>2
<1>6. packed' => memory'.seeded
  BY <1>4 DEF SerialInv, MainIsSound
<1>7. MainIsSound'
  BY <1>4, <1>5, <1>6 DEF SerialInv, MainIsSound
<1>8. UndoIsKept'
  BY <1>2, <1>4, UndoStays DEF SerialInv
<1> QED
  BY <1>3, <1>7, <1>8 DEF SerialInv

LEMMA SerialStep ==
    ASSUME Serial
    PROVE  SerialInv /\ [MemoryNext]_memoryVars => SerialInv'
<1> SUFFICES ASSUME SerialInv, [MemoryNext]_memoryVars PROVE SerialInv'
  OBVIOUS
<1>1. MemoryTypeOK /\ MemoryTypeOK'
  BY MemoryTypeStep DEF SerialInv
<1>2. "reflection" \in Callers /\ {"agent", "editor"} \subseteq Callers
  BY DEF Callers
<1>3. ASSUME NEW c \in Callers, MayCall(c)
      PROVE  step[c] = "idle" /\ \A d \in Callers : d # c => step[d] = "idle"
  BY <1>3 DEF MayCall, HasTurn, Serial
<1>4. ASSUME NEW c \in Callers, step[c] # "idle"
      PROVE  \A d \in Callers : d # c => step[d] = "idle"
  BY <1>4, OthersIdle DEF SerialInv
<1>5. ASSUME NEW c \in Callers,
             \/ RotateThird(c) \/ RotateSecond(c) \/ Snap(c)
             \/ OpenTmp(c) \/ WriteTmp(c)
      PROVE  SerialInv'
  BY <1>1, <1>5, RotateThirdSerial, RotateSecondSerial, SnapSerial, OpenSerial, WriteSerial
<1>6. ASSUME NEW c \in Callers, Acknowledge(c) PROVE SerialInv'
  <2>1. step[c] \in Renaming
    BY <1>6 DEF Acknowledge, Renaming
  <2> QED
    BY <1>1, <1>6, <2>1, RenameSerial DEF Acknowledge
<1>7. ASSUME RollbackSaved PROVE SerialInv'
  <2>1. step["reflection"] \in Renaming
    BY <1>7 DEF RollbackSaved, Renaming
  <2> QED
    BY <1>1, <1>2, <1>7, <2>1, RenameSerial DEF RollbackSaved
<1>8. ASSUME NEW counted \in BOOLEAN, ReflectionSaved(counted) PROVE SerialInv'
  <2>1. step["reflection"] \in Renaming
    BY <1>8 DEF ReflectionSaved, Renaming
  <2> QED
    BY <1>1, <1>2, <1>8, <2>1, RenameSerial DEF ReflectionSaved
<1>9. ASSUME NEW c \in Callers, SaveFails(c) PROVE SerialInv'
  <2>1. /\ step[c] # "idle"
        /\ step' = [step EXCEPT ![c] = "idle"] /\ handle' = [handle EXCEPT ![c] = "none"]
        /\ UNCHANGED <<memory, files, edits, acked, packed, undo>>
    BY <1>9 DEF SaveFails
  <2>2. handle'[c] = "none"
    BY <1>1, <2>1 DEF MemoryTypeOK
  <2> QED
    BY <1>1, <1>4, <2>1, <2>2, CallerSerial
<1>10. ASSUME ReflectionRefused PROVE SerialInv'
  <2>1. /\ step["reflection"] \notin Writing /\ step["reflection"] # "idle"
        /\ step' = [step EXCEPT !["reflection"] = "idle"] /\ handle' = handle
        /\ UNCHANGED <<memory, files, edits, acked, packed, undo>>
    BY <1>10 DEF ReflectionRefused, Writing
  <2> QED
    BY <1>1, <1>2, <1>4, <2>1, CallerSerial
<1>11. ASSUME Reflect PROVE SerialInv'
  <2>1. /\ MayCall("reflection") /\ handle' = handle
        /\ step' = [step EXCEPT !["reflection"] = "shift2_pre"]
        /\ copy' = [copy EXCEPT !["reflection"] = memory]
        /\ UNCHANGED <<memory, files, edits, acked, packed, undo>>
    BY <1>11 DEF Reflect
  <2> QED
    BY <1>1, <1>2, <1>3, <2>1, CallerSerial
<1>12. CASE KillAndLaunch
  BY <1>1, <1>12, LaunchSerial
<1>13. CASE SessionEnds \/ UNCHANGED memoryVars
  <2>1. UNCHANGED <<memory, files, step, copy, handle, edits, acked, packed, undo>>
    BY <1>13 DEF SessionEnds, memoryVars
  <2> QED
    BY <1>1, <2>1
       DEF SerialInv, OneAtATime, SaveUnderWay, MainIsSound, UndoIsKept, KeptAt, Slot
<1>14. ASSUME \/ \E text \in Texts, source \in Stances : ToolRemember(text, source)
              \/ \E text \in Texts : ToolForget(text)
              \/ \E text \in Terms : AddVocabularyTerm(text) \/ RemoveVocabularyTerm(text)
              \/ SeedVocabulary
       PROVE  SerialInv'
  <2>1. PICK c \in {"agent", "editor"}, m \in Memories : Saves(c, m)
    BY <1>1, <1>14, CallsChange
  <2>2. /\ MayCall(c) /\ Change(c, m)
        /\ memory.seeded => m.seeded
        /\ UNCHANGED <<files, handle, acked, packed, undo>>
    BY <2>1 DEF Saves
  <2> QED
    BY <1>1, <1>2, <1>3, <2>2, ChangeSerial
<1>15. ASSUME NEW answer \in Answers, ReflectionAnswers(answer) PROVE SerialInv'
  <2>1. PICK m \in Memories :
           /\ step["reflection"] = "asking"
           /\ Change("reflection", m)
           /\ m.seeded = copy["reflection"].seeded
           /\ undo' = [memory |-> copy["reflection"], rotations |-> 0, dropped |-> FALSE]
           /\ UNCHANGED <<files, handle, signals, acked, packed>>
    BY <1>1, <1>15, ReflectionChanges
  <2>2. copy["reflection"] = memory /\ files.main = memory
    BY <1>2, <2>1 DEF SerialInv, SaveUnderWay
  <2>3. memory \in Memories
    BY <1>1 DEF MemoryTypeOK
  <2>4. \A d \in Callers : d # "reflection" => step[d] = "idle"
    BY <1>2, <1>4, <2>1
  <2> QED
    BY <1>1, <1>2, <2>1, <2>2, <2>3, <2>4, ChangeSerial
<1> QED
  BY <1>5, <1>6, <1>7, <1>8, <1>9, <1>10, <1>11, <1>12, <1>13, <1>14, <1>15
     DEF MemoryNext

\* Every mutation a caller was told of is on disk, in a file that can be read,
\* whatever fails or is killed in between, when calls do not overlap.
THEOREM AckedStaysOnDisk == ASSUME Serial PROVE MemorySpec => []AckedOnDisk
<1>1. SerialInv => AckedOnDisk
  BY DEF SerialInv, MainIsSound, AckedOnDisk
<1>2. SerialInv /\ [MemoryNext]_memoryVars => SerialInv'
  BY SerialStep
<1> QED
  BY <1>1, <1>2, SerialInit, PTL DEF MemorySpec

\* A seed pass that was answered is remembered for good, by a reflection and
\* across a restart, when calls do not overlap.
THEOREM SeedingIsForGood == ASSUME Serial PROVE MemorySpec => []SeededForGood
<1>1. SerialInv => SeededForGood
  BY DEF SerialInv, MainIsSound, SeededForGood
<1>2. SerialInv /\ [MemoryNext]_memoryVars => SerialInv'
  BY SerialStep
<1> QED
  BY <1>1, <1>2, SerialInit, PTL DEF MemorySpec

\* What a reflection replaced can be taken back until a fourth save has begun,
\* through failed saves, kills and rotations that fail, unless one failed to take
\* that very memory along, when calls do not overlap.
THEOREM ReflectionsCanBeUndone ==
    ASSUME Serial PROVE MemorySpec => []RollbackPointUnlessDropped
<1>1. SerialInv => RollbackPointUnlessDropped
  <2> SUFFICES ASSUME SerialInv, ~undo.dropped, undo.rotations <= 3
               PROVE  undo.memory \in {files.main} \cup Range(files.snaps)
    BY DEF RollbackPointUnlessDropped, RollbackPoint
  <2>1. DOMAIN files.snaps = 1..3
    BY DEF SerialInv, MemoryTypeOK, Disks, Snaps
  <2>2. PICK j \in 0..3 : Slot(j) = undo.memory
    BY DEF SerialInv, UndoIsKept, KeptAt
  <2>3. CASE j = 0
    BY <2>2, <2>3 DEF Slot
  <2>4. CASE j # 0
    <3>1. j \in DOMAIN files.snaps /\ files.snaps[j] = undo.memory
      BY <2>1, <2>2, <2>4 DEF Slot
    <3> QED
      BY <3>1 DEF Range
  <2> QED
    BY <2>3, <2>4
<1>2. SerialInv /\ [MemoryNext]_memoryVars => SerialInv'
  BY SerialStep
<1> QED
  BY <1>1, <1>2, SerialInit, PTL DEF MemorySpec
=============================================================================
