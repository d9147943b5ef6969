--------------------------- MODULE Capture_proofs ---------------------------
(***************************************************************************)
(* Proofs about the capture pipeline, for every walk, every window size    *)
(* and every decoder: no wake-up of the pump is lost, the live cursor      *)
(* never passes words no successful pass was sent, and the overlapping     *)
(* windows commit every word at most once, in order, and but for the       *)
(* documented under-commit at least once.                                  *)
(***************************************************************************)
EXTENDS Capture, SeqFolds_proofs

-----------------------------------------------------------------------------
(* The parked pump *)

LEMMA ParkedInit == CaptureInit => ParkedForAReason
BY DEF CaptureInit, ParkedForAReason

\* A notify never leaves the pump parked.
LEMMA NotifiedIsAwake == Notified # "waiting"
BY DEF Notified

LEMMA ParkedStep ==
    ParkedForAReason /\ [CaptureNext]_captureVars => ParkedForAReason'
<1> SUFFICES ASSUME ParkedForAReason, [CaptureNext]_captureVars
             PROVE  ParkedForAReason'
  OBVIOUS
<1>1. CASE \E n \in 1..Step : PushPcm(n)
  BY <1>1, NotifiedIsAwake DEF PushPcm, ParkedForAReason
<1>2. CASE PausePump
  BY <1>2 DEF PausePump, ParkedForAReason
<1>3. CASE ResumePump
  BY <1>3, NotifiedIsAwake DEF ResumePump, ParkedForAReason
<1>4. CASE StopPump
  BY <1>4, NotifiedIsAwake DEF StopPump, ParkedForAReason
<1>5. CASE PumpChecks
  <2>1. CASE stop
    BY <1>5, <2>1 DEF PumpChecks, ParkedForAReason
  <2>2. CASE ~stop /\ (~wake \/ paused)
    BY <1>5, <2>2 DEF PumpChecks, ParkedForAReason
  <2>3. CASE ~stop /\ wake /\ ~paused
    BY <1>5, <2>3 DEF PumpChecks, ParkedForAReason
  <2> QED
    BY <2>1, <2>2, <2>3
<1>6. CASE Decodes \/ Gated
  BY <1>6, Zenon DEF Decodes, Gated, gateVars, ParkedForAReason
<1>7. CASE DecodeFails
  BY <1>7 DEF DecodeFails, gateVars, ParkedForAReason
<1>8. CASE PollFeeds
  BY <1>8 DEF PollFeeds, ParkedForAReason
<1>9. CASE FlushStarts
  BY <1>9 DEF FlushStarts, ParkedForAReason
<1>10. CASE FlushEnds
  <2>1. pump' = "feeding"
    BY <1>10, Zenon DEF FlushEnds
  <2> QED
    BY <2>1 DEF ParkedForAReason
<1>11. CASE FlushFeeds
  BY <1>11 DEF FlushFeeds, ParkedForAReason
<1>12. CASE PassStarts \/ PassSucceeds \/ PassFails
  BY <1>12 DEF PassStarts, PassSucceeds, PassFails, gateVars, ParkedForAReason
<1>13. CASE UNCHANGED captureVars
  BY <1>13 DEF captureVars, gateVars, ParkedForAReason
<1> QED
  BY <1>1, <1>2, <1>3, <1>4, <1>5, <1>6, <1>7, <1>8, <1>9, <1>10, <1>11,
     <1>12, <1>13 DEF CaptureNext

\* The pump parks only with nothing to take up or with the gate down, and
\* never once finish() has told it to stop: the condition variable's protocol
\* of push, pause, resume, stop and check loses no wake-up.
THEOREM PumpNeverSleepsThroughWork == CaptureSpec => []ParkedForAReason
BY ParkedInit, ParkedStep, PTL DEF CaptureSpec

-----------------------------------------------------------------------------
(* The live cursor *)

\* A pass that is under way began at the cursor, and the cursor only moves
\* when it ends.
PassAtCursor ==
    /\ cursor \in Nat
    /\ pass \in [from : Nat, upto : Nat]
    /\ ~NoPass => pass.from = cursor
    /\ LiveSkipsNothing

LEMMA OtherStepsLeaveThePass ==
    ASSUME [CaptureNext]_captureVars, ~PassStarts, ~PassSucceeds, ~PassFails
    PROVE  UNCHANGED liveVars
BY Zenon DEF CaptureNext, PushPcm, PausePump, ResumePump, StopPump, PumpChecks,
       Decodes, Gated, DecodeFails, PollFeeds, FlushStarts, FlushEnds,
       FlushFeeds, captureVars

LEMMA PassInit == CaptureInit => PassAtCursor
BY DEF CaptureInit, PassAtCursor, NoPass, LiveSkipsNothing

LEMMA PassStep ==
    PassAtCursor /\ [CaptureNext]_captureVars => PassAtCursor'
<1> SUFFICES ASSUME PassAtCursor, [CaptureNext]_captureVars
             PROVE  PassAtCursor'
  OBVIOUS
<1>1. CASE PassStarts
  <2>1. PICK read \in 1..Budget :
            pass' = [from |-> cursor, upto |-> cursor + read]
    BY <1>1, Zenon DEF PassStarts
  <2> QED
    BY <1>1, <2>1, CaptureAssumption
       DEF PassStarts, PassAtCursor, NoPass, LiveSkipsNothing
<1>2. CASE PassSucceeds
  <2>1. 1..pass.upto \subseteq 1..cursor \cup (pass.from + 1)..pass.upto
    BY <1>2 DEF PassSucceeds, PassAtCursor
  <2> QED
    BY <1>2, <2>1 DEF PassSucceeds, PassAtCursor, NoPass, LiveSkipsNothing
<1>3. CASE PassFails
  BY <1>3 DEF PassFails, PassAtCursor, NoPass, LiveSkipsNothing
<1>4. CASE UNCHANGED liveVars
  BY <1>4 DEF liveVars, PassAtCursor, NoPass, LiveSkipsNothing
<1> QED
  BY <1>1, <1>2, <1>3, <1>4, OtherStepsLeaveThePass

\* Live extraction skips nothing: whatever passes fail, and however much of
\* the new transcript a window can hold, every word before the cursor was in a
\* window whose pass succeeded.
THEOREM CursorCoversOnlyReadWords == CaptureSpec => []LiveSkipsNothing
<1>1. PassAtCursor => LiveSkipsNothing
  BY DEF PassAtCursor
<1> QED
  BY <1>1, PassInit, PassStep, PTL DEF CaptureSpec

-----------------------------------------------------------------------------
(* Sequences of words *)

Word == [word : 1..Len(Spoken), garbled : BOOLEAN, precise : BOOLEAN,
         from : Nat, to : Nat]
Words == Seq(Word)

Increasing(s) == \A i, j \in 1..Len(s) : i < j => s[i].word < s[j].word

LEMMA WordFields ==
    ASSUME NEW s \in Words, NEW k \in 1..Len(s)
    PROVE  /\ s[k] \in Word /\ s[k].word \in 1..Len(Spoken)
           /\ s[k].garbled \in BOOLEAN /\ s[k].precise \in BOOLEAN
           /\ s[k].from \in Nat /\ s[k].to \in Nat
<1>1. s[k] \in Word
  BY ElementOfSeq DEF Words
<1> QED
  BY <1>1 DEF Word

LEMMA SpokenFields ==
    /\ Len(Spoken) \in Nat
    /\ \A i \in 1..Len(Spoken) : Spoken[i].from \in Nat /\ Spoken[i].to \in Nat
<1>1. ASSUME NEW i \in 1..Len(Spoken)
      PROVE  Spoken[i].from \in Nat /\ Spoken[i].to \in Nat
  <2>1. Spoken[i] \in [from : Nat, to : Nat]
    BY SpeechAssumption, ElementOfSeq
  <2> QED
    BY <2>1
<1> QED
  BY <1>1, SpeechAssumption, LenProperties

\* What SpeechAssumption says, over the places of the sequence.
LEMMA SpokenInOrder ==
    /\ \A i \in 1..Len(Spoken) :
          /\ Spoken[i].from < Spoken[i].to
          /\ Spoken[i].to <= Spoken[i].from + Overlap
          /\ Spoken[i].to + Overlap <= Spoken[i].from + Step + 1
    /\ \A i, j \in 1..Len(Spoken) : i < j => Spoken[i].to <= Spoken[j].from
<1>1. DOMAIN Spoken = 1..Len(Spoken)
  BY SpeechAssumption, LenProperties
<1> QED
  BY <1>1, SpeechAssumption

LEMMA Geometry ==
    /\ ChunkLen \in Nat /\ Overlap \in Nat /\ MaxAudio \in Nat
    /\ Step \in Nat /\ Step > 0 /\ ChunkLen = Step + Overlap
BY CaptureAssumption DEF Step

LEMMA InConcat ==
    ASSUME NEW s \in Words, NEW t \in Words, NEW i
    PROVE  In(i, s \o t) <=> In(i, s) \/ In(i, t)
<1> DEFINE c == s \o t
<1>1. /\ Len(s) \in Nat /\ Len(t) \in Nat
      /\ Len(c) = Len(s) + Len(t)
      /\ \A k \in 1..(Len(s) + Len(t)) :
            c[k] = IF k <= Len(s) THEN s[k] ELSE t[k - Len(s)]
  BY ConcatProperties, LenProperties DEF Words
<1> HIDE DEF c
<1>2. ASSUME In(i, c) PROVE In(i, s) \/ In(i, t)
  <2>1. PICK k \in 1..Len(c) : c[k].word = i
    BY <1>2 DEF In
  <2>2. CASE k <= Len(s)
    BY <1>1, <2>1, <2>2 DEF In
  <2>3. CASE ~(k <= Len(s))
    <3>1. k - Len(s) \in 1..Len(t) /\ t[k - Len(s)].word = i
      BY <1>1, <2>1, <2>3
    <3> QED
      BY <3>1 DEF In
  <2> QED
    BY <2>2, <2>3
<1>3. ASSUME In(i, s) PROVE In(i, c)
  <2>1. PICK k \in 1..Len(s) : s[k].word = i
    BY <1>3 DEF In
  <2>2. k \in 1..Len(c) /\ c[k].word = i
    BY <1>1, <2>1
  <2> QED
    BY <2>2 DEF In
<1>4. ASSUME In(i, t) PROVE In(i, c)
  <2>1. PICK k \in 1..Len(t) : t[k].word = i
    BY <1>4 DEF In
  <2>2. /\ Len(s) + k \in 1..(Len(s) + Len(t)) /\ ~(Len(s) + k <= Len(s))
        /\ (Len(s) + k) - Len(s) = k
    BY <1>1
  <2>3. c[Len(s) + k] = t[k]
    BY <1>1, <2>2
  <2> QED
    BY <1>1, <2>1, <2>2, <2>3 DEF In
<1> QED
  BY <1>2, <1>3, <1>4 DEF c

\* Every word of s comes before every word of t.
Before(s, t) ==
    \A i \in 1..Len(s), j \in 1..Len(t) : s[i].word < t[j].word

LEMMA IncreasingConcat ==
    ASSUME NEW s \in Words, NEW t \in Words
    PROVE  Increasing(s \o t) <=> Increasing(s) /\ Increasing(t) /\ Before(s, t)
<1> DEFINE c == s \o t
<1>1. /\ Len(s) \in Nat /\ Len(t) \in Nat
      /\ Len(c) = Len(s) + Len(t)
      /\ \A k \in 1..(Len(s) + Len(t)) :
            c[k] = IF k <= Len(s) THEN s[k] ELSE t[k - Len(s)]
  BY ConcatProperties, LenProperties DEF Words
<1> HIDE DEF c
<1>2. \A k \in 1..Len(s) : k \in 1..Len(c) /\ c[k] = s[k]
  BY <1>1
<1>3. ASSUME NEW k \in 1..Len(t)
      PROVE  Len(s) + k \in 1..Len(c) /\ c[Len(s) + k] = t[k]
  <2>1. /\ Len(s) + k \in 1..(Len(s) + Len(t)) /\ ~(Len(s) + k <= Len(s))
        /\ (Len(s) + k) - Len(s) = k
    BY <1>1
  <2> QED
    BY <1>1, <2>1
<1>4. ASSUME Increasing(c) PROVE Increasing(s) /\ Increasing(t) /\ Before(s, t)
  <2>1. Increasing(s)
    BY <1>2, <1>4 DEF Increasing
  <2>2. ASSUME NEW i \in 1..Len(t), NEW j \in 1..Len(t), i < j
        PROVE  t[i].word < t[j].word
    <3>1. Len(s) + i < Len(s) + j
      BY <1>1, <2>2
    <3> QED
      BY <1>3, <1>4, <3>1 DEF Increasing
  <2>3. ASSUME NEW i \in 1..Len(s), NEW j \in 1..Len(t)
        PROVE  s[i].word < t[j].word
    <3>1. i < Len(s) + j
      BY <1>1
    <3> QED
      BY <1>2, <1>3, <1>4, <3>1 DEF Increasing
  <2> QED
    BY <2>1, <2>2, <2>3 DEF Increasing, Before
<1>5. ASSUME Increasing(s), Increasing(t), Before(s, t),
             NEW i \in 1..Len(c), NEW j \in 1..Len(c), i < j
      PROVE  c[i].word < c[j].word
  <2>1. CASE j <= Len(s)
    <3>1. i \in 1..Len(s) /\ j \in 1..Len(s)
      BY <1>1, <1>5, <2>1
    <3> QED
      BY <1>2, <1>5, <3>1 DEF Increasing
  <2>2. CASE i <= Len(s) /\ ~(j <= Len(s))
    <3>1. i \in 1..Len(s) /\ j - Len(s) \in 1..Len(t) /\ c[j] = t[j - Len(s)]
      BY <1>1, <2>2
    <3> QED
      BY <1>2, <1>5, <3>1 DEF Before
  <2>3. CASE ~(i <= Len(s))
    <3>1. /\ i - Len(s) \in 1..Len(t) /\ j - Len(s) \in 1..Len(t)
          /\ c[i] = t[i - Len(s)] /\ c[j] = t[j - Len(s)]
          /\ i - Len(s) < j - Len(s)
      BY <1>1, <1>5, <2>3
    <3> QED
      BY <1>5, <3>1 DEF Increasing
  <2> QED
    BY <1>1, <1>5, <2>1, <2>2, <2>3
<1> QED
  BY <1>4, <1>5 DEF c, Increasing

\* The tail of s from its n-th word.
From(s, n) == SubSeq(s, n, Len(s))

LEMMA FromIs ==
    ASSUME NEW s \in Words, NEW n \in 1..(Len(s) + 1)
    PROVE  /\ From(s, n) \in Words /\ Len(From(s, n)) = Len(s) + 1 - n
           /\ \A k \in 1..(Len(s) + 1 - n) :
                 From(s, n)[k] = s[n + k - 1] /\ n + k - 1 \in 1..Len(s)
           /\ \A k \in 1..Len(s) : k >= n =>
                 k - n + 1 \in 1..Len(From(s, n)) /\ From(s, n)[k - n + 1] = s[k]
<1>1. Len(s) \in Nat
  BY LenProperties DEF Words
<1>2. \A i \in n..Len(s) : s[i] \in Word
  BY ElementOfSeq DEF Words
<1>3. /\ From(s, n) \in Words
      /\ Len(From(s, n)) = IF n <= Len(s) THEN Len(s) - n + 1 ELSE 0
      /\ \A k \in 1..(Len(s) - n + 1) : From(s, n)[k] = s[n + k - 1]
  BY <1>1, <1>2, SubSeqProperties DEF From, Words
<1>4. Len(From(s, n)) = Len(s) + 1 - n
  BY <1>1, <1>3
<1>5. ASSUME NEW k \in 1..Len(s), k >= n
      PROVE  k - n + 1 \in 1..Len(From(s, n)) /\ From(s, n)[k - n + 1] = s[k]
  <2>1. k - n + 1 \in 1..(Len(s) - n + 1) /\ n + (k - n + 1) - 1 = k
    BY <1>1, <1>5
  <2> QED
    BY <1>1, <1>3, <1>4, <2>1
<1>6. \A k \in 1..(Len(s) + 1 - n) : n + k - 1 \in 1..Len(s) /\ k \in 1..(Len(s) - n + 1)
  BY <1>1
<1> QED
  BY <1>3, <1>4, <1>5, <1>6

LEMMA FromIncreasing ==
    ASSUME NEW s \in Words, NEW n \in 1..(Len(s) + 1), Increasing(s)
    PROVE  Increasing(From(s, n))
<1>1. Len(s) \in Nat
  BY LenProperties DEF Words
<1> DEFINE r == From(s, n)
<1>2. /\ Len(r) = Len(s) + 1 - n
      /\ \A k \in 1..Len(r) : r[k] = s[n + k - 1] /\ n + k - 1 \in 1..Len(s)
  BY FromIs
<1> HIDE DEF r
<1>3. ASSUME NEW i \in 1..Len(r), NEW j \in 1..Len(r), i < j
      PROVE  r[i].word < r[j].word
  <2>1. n + i - 1 < n + j - 1
    BY <1>1, <1>2, <1>3
  <2> QED
    BY <1>2, <2>1 DEF Increasing
<1> QED
  BY <1>3 DEF r, Increasing

\* Where no number is left out, words and places go together.
LEMMA NoGaps ==
    ASSUME NEW s \in Words, Increasing(s), NEW x \in 1..Len(s), NEW y \in x..Len(s),
           \A v \in s[x].word..s[y].word : In(v, s)
    PROVE  \A d \in 0..(y - x) : s[x + d].word = s[x].word + d
<1>1. Len(s) \in Nat /\ s[x].word \in Nat /\ s[y].word \in Nat
  BY WordFields, SpokenFields, LenProperties DEF Words
<1> DEFINE Good == {d \in Nat : d <= y - x => s[x + d].word = s[x].word + d}
<1>2. 0 \in Good
  BY <1>1
<1>3. ASSUME NEW d \in Nat, d \in Good PROVE d + 1 \in Good
  <2> SUFFICES ASSUME d + 1 <= y - x
               PROVE  s[x + (d + 1)].word = s[x].word + (d + 1)
    OBVIOUS
  <2>1. /\ x + d \in 1..Len(s) /\ x + (d + 1) \in 1..Len(s)
        /\ x + d < x + (d + 1) /\ x + (d + 1) <= y
    BY <1>1
  <2>2. s[x + d].word = s[x].word + d
    BY <1>3
  <2>3. s[x + (d + 1)].word \in Nat
    BY <2>1, WordFields, SpokenFields
  <2>4. s[x + d].word < s[x + (d + 1)].word
    BY <2>1 DEF Increasing
  <2>5. s[x + (d + 1)].word <= s[y].word
    BY <1>1, <2>1, <2>3 DEF Increasing
  <2>6. s[x].word + (d + 1) \in s[x].word..s[y].word
    <3> DEFINE first == s[x].word
               next == s[x + (d + 1)].word
               last == s[y].word
    <3>1. /\ first \in Nat /\ next \in Nat /\ last \in Nat
          /\ first + d < next /\ next <= last
      BY <1>1, <2>2, <2>3, <2>4, <2>5
    <3> HIDE DEF first, next, last, Good
    <3>2. first + (d + 1) \in first..last
      BY <3>1
    <3> QED
      BY <3>2 DEF first, last
  <2>7. PICK z \in 1..Len(s) : s[z].word = s[x].word + (d + 1)
    BY <2>6 DEF In
  <2>8. CASE z <= x + d
    <3>1. s[z].word <= s[x + d].word
      BY <1>1, <2>1, <2>2, <2>7, <2>8 DEF Increasing
    <3> QED
      BY <1>1, <2>2, <2>7, <3>1
  <2>9. CASE z > x + (d + 1)
    <3>1. s[x + (d + 1)].word < s[z].word
      BY <2>1, <2>9 DEF Increasing
    <3>2. s[x].word + d < s[x].word + (d + 1)
      BY <1>1
    <3>3. s[z].word = s[x].word + (d + 1)
      BY <2>7
    <3> HIDE DEF Good
    <3> QED
      BY <1>1, <2>2, <2>3, <2>4, <3>1, <3>2, <3>3
  <2> QED
    BY <1>1, <2>1, <2>7, <2>8, <2>9
<1> HIDE DEF Good
<1>4. \A d \in Nat : d \in Good
  BY <1>2, <1>3, SetInduction
<1> QED
  BY <1>4 DEF Good

-----------------------------------------------------------------------------
(* One window *)

Hearing(a, b) == [Within(a, b) -> {"exact", "garbled", "missed"}]
HeardOf(h) == {i \in DOMAIN h : h[i] # "missed"}

Ending(b, h, drag, i) ==
    Lesser(b, Spoken[i].to + IF h[i] = "garbled" THEN drag ELSE 0)

\* Where the last of the first n words ends that a decode brings.
EndsAt(u, a, b, h, drag) ==
    /\ u \in [0..Len(Spoken) -> Nat]
    /\ u[0] = a
    /\ \A n \in 1..Len(Spoken) :
          u[n] = IF n \notin HeardOf(h) THEN u[n - 1]
                 ELSE Greater(Ending(b, h, drag, n),
                              Greater(Spoken[n].from, u[n - 1]))

WordOf(u, a, b, h, precise, i) ==
    [word |-> i, garbled |-> h[i] = "garbled", precise |-> precise,
     from |-> IF precise THEN Greater(Spoken[i].from, u[i - 1]) ELSE a,
     to |-> IF precise THEN u[i] ELSE b]

Places == [i \in 1..Len(Spoken) |-> i]

LEMMA DecodedHolds ==
    ASSUME NEW a \in Nat, NEW b \in Nat, NEW h \in Hearing(a, b),
           NEW precise \in BOOLEAN, NEW drag \in Nat
    PROVE  \E u : /\ EndsAt(u, a, b, h, drag)
                  /\ Decoded(a, b, h, precise, drag) =
                        [k \in 1..Len(Keep(Places, HeardOf(h))) |->
                            WordOf(u, a, b, h, precise,
                                   Keep(Places, HeardOf(h))[k])]
<1> DEFINE m == Len(Spoken)
           H == HeardOf(h)
           next(r, i) == IF i \notin H THEN r
                         ELSE Greater(Ending(b, h, drag, i),
                                      Greater(Spoken[i].from, r))
           op == [i \in 1..m |-> [r \in Nat |-> next(r, i)]]
           F(g) == g = [n \in 0..m |-> IF n = 0 THEN a ELSE next(g[n - 1], n)]
           u == CHOOSE g : F(g)
<1>1. m \in Nat
  BY SpokenFields
<1>2. \A i \in 1..m : \A r \in Nat : next(r, i) \in Nat
  BY SpokenFields DEF Ending, Lesser, Greater
<1>3. Decoded(a, b, h, precise, drag) =
          [k \in 1..Len(Keep(Places, H)) |->
              WordOf(u, a, b, h, precise, Keep(Places, H)[k])]
  BY Zenon DEF Decoded, WordOf, Places, HeardOf, Ending
<1> HIDE DEF m, next, H
<1>4. op \in Steps(m, Nat)
  BY <1>2 DEF Steps
<1>5. PICK f : Runs(f, Nat, a, m, op)
  <2> HIDE DEF op
  <2> QED
    BY <1>1, <1>4, RecursionHolds
<1>6. F(f)
  <2>1. \A i \in 1..m : i - 1 \in 0..m
    BY <1>1
  <2>2. \A i \in 1..m : f[i - 1] \in Nat
    BY <1>5, <2>1 DEF Runs
  <2>3. \A i \in 1..m : f[i] = op[i][f[i - 1]]
    BY <1>5 DEF Runs
  <2>4. \A i \in 1..m : f[i] = next(f[i - 1], i)
    BY <2>2, <2>3
  <2>5. f = [i \in 0..m |-> f[i]] /\ f[0] = a
    BY <1>5 DEF Runs
  <2> HIDE DEF op
  <2>6. ASSUME NEW i \in 0..m
        PROVE  f[i] = IF i = 0 THEN a ELSE next(f[i - 1], i)
    <3>1. i = 0 \/ i \in 1..m
      BY <1>1
    <3>2. 0 \notin 1..m
      BY <1>1
    <3> QED
      BY <2>4, <2>5, <3>1, <3>2
  <2> QED
    BY <2>5, <2>6
<1>7. F(u)
  <2> HIDE DEF F
  <2> QED
    BY <1>6
<1> HIDE DEF u
<1>8. u[0] = a /\ \A i \in 1..m : u[i] = next(u[i - 1], i)
  BY <1>1, <1>7
<1>9. u = [i \in 0..m |-> u[i]]
  BY <1>7
<1>10. \A i \in 1..m : u[i - 1] \in Nat => u[i] = op[i][u[i - 1]]
  BY <1>8
<1>11. Runs(u, Nat, a, m, op)
  <2> HIDE DEF op, F
  <2> QED
    BY <1>1, <1>4, <1>8, <1>9, <1>10, PrefixRecursion
<1>12. u \in [0..m -> Nat]
  BY <1>11 DEF Runs
<1>13. EndsAt(u, a, b, h, drag)
  BY <1>8, <1>12 DEF m, next, H, EndsAt
<1> QED
  BY <1>3, <1>13 DEF H

\* A word begins where it was said, or in a window that cuts it at the
\* window's start, but for the drag of the one before it.
LEMMA EndsInWindow ==
    ASSUME NEW a \in Nat, NEW b \in Nat, a <= b, NEW h \in Hearing(a, b),
           NEW drag \in Nat, NEW u, EndsAt(u, a, b, h, drag)
    PROVE  \A n \in 0..Len(Spoken) :
              /\ a <= u[n] /\ u[n] <= b
              /\ \A i \in (n + 1)..Len(Spoken) :
                    u[n] <= Greater(a, Spoken[i].from + drag)
<1> DEFINE m == Len(Spoken)
           Good == {n \in Nat : n <= m =>
                      /\ a <= u[n] /\ u[n] <= b
                      /\ \A i \in (n + 1)..m :
                            u[n] <= Greater(a, Spoken[i].from + drag)}
<1>1. m \in Nat
  BY SpokenFields
<1>2. 0 \in Good
  BY SpokenFields DEF EndsAt, Greater
<1>3. ASSUME NEW n \in Nat, n \in Good PROVE n + 1 \in Good
  <2> SUFFICES ASSUME n + 1 <= m
               PROVE  /\ a <= u[n + 1] /\ u[n + 1] <= b
                      /\ \A i \in (n + 2)..m :
                            u[n + 1] <= Greater(a, Spoken[i].from + drag)
    OBVIOUS
  <2>1. n + 1 \in 1..m /\ (n + 1) - 1 = n /\ n \in 0..m
    BY <1>1
  <2>2. /\ u[n] \in Nat /\ a <= u[n] /\ u[n] <= b
        /\ u[n] <= Greater(a, Spoken[n + 1].from + drag)
        /\ \A i \in (n + 2)..m : u[n] <= Greater(a, Spoken[i].from + drag)
    BY <1>1, <1>3, <2>1 DEF EndsAt
  <2>3. u[n + 1] = IF n + 1 \notin HeardOf(h) THEN u[n]
                   ELSE Greater(Ending(b, h, drag, n + 1),
                                Greater(Spoken[n + 1].from, u[n]))
    BY <2>1 DEF EndsAt
  <2>4. CASE n + 1 \notin HeardOf(h)
    BY <2>2, <2>3, <2>4
  <2>5. CASE n + 1 \in HeardOf(h)
    <3>1. /\ Spoken[n + 1].from \in Nat /\ Spoken[n + 1].to \in Nat
          /\ Spoken[n + 1].from < Spoken[n + 1].to
      BY <2>1, SpokenFields, SpokenInOrder
    <3>2. Spoken[n + 1].from < b
      BY <2>5 DEF HeardOf, Hearing, Within
    <3>3. /\ Ending(b, h, drag, n + 1) \in Nat /\ Ending(b, h, drag, n + 1) <= b
          /\ Ending(b, h, drag, n + 1) <= Spoken[n + 1].to + drag
      BY <3>1 DEF Ending, Lesser
    <3>4. a <= u[n + 1] /\ u[n + 1] <= b
      BY <2>2, <2>3, <2>5, <3>1, <3>2, <3>3 DEF Greater
    <3>5. ASSUME NEW i \in (n + 2)..m
          PROVE  u[n + 1] <= Greater(a, Spoken[i].from + drag)
      <4>1. Spoken[n + 1].to <= Spoken[i].from /\ Spoken[i].from \in Nat
        BY <1>1, <2>1, SpokenFields, SpokenInOrder
      <4>2. u[n] <= Greater(a, Spoken[i].from + drag)
        BY <2>2
      <4>3. Spoken[i].from + drag <= Greater(a, Spoken[i].from + drag)
            /\ Greater(a, Spoken[i].from + drag) \in Nat
        BY <4>1 DEF Greater
      <4>4. /\ Ending(b, h, drag, n + 1) <= Spoken[i].from + drag
            /\ Spoken[n + 1].from <= Spoken[i].from + drag
        BY <3>1, <3>3, <4>1
      <4>5. \/ u[n + 1] = Ending(b, h, drag, n + 1)
            \/ u[n + 1] = Spoken[n + 1].from
            \/ u[n + 1] = u[n]
        BY <2>3, <2>5 DEF Greater
      <4> QED
        BY <3>1, <3>3, <4>1, <4>2, <4>3, <4>4, <4>5
    <3> QED
      BY <3>4, <3>5
  <2> QED
    BY <2>4, <2>5
<1> HIDE DEF Good
<1>4. \A n \in Nat : n \in Good
  BY <1>2, <1>3, SetInduction
<1> QED
  BY <1>1, <1>4 DEF Good

\* What a decode of the window brings.
Tells(r, a, b, h, precise, drag) ==
    /\ r \in Words /\ Increasing(r)
    /\ \A i \in HeardOf(h) : In(i, r)
    /\ \A k \in 1..Len(r) :
          LET i == r[k].word IN
          /\ i \in HeardOf(h)
          /\ r[k].garbled = (h[i] = "garbled")
          /\ r[k].precise = precise
          /\ precise =>
                /\ a <= r[k].from /\ Spoken[i].from <= r[k].from
                /\ r[k].from <= Greater(a, Spoken[i].from + drag)
                /\ Lesser(b, Spoken[i].to) <= r[k].to
                /\ r[k].to <= Lesser(b, Spoken[i].to + drag)
                /\ drag <= 1 /\ h[i] # "garbled" =>
                      r[k].to = Lesser(b, Spoken[i].to)
          /\ ~precise => r[k].from = a /\ r[k].to = b

LEMMA DecodedTells ==
    ASSUME NEW a \in Nat, NEW b \in Nat, a <= b, NEW h \in Hearing(a, b),
           NEW precise \in BOOLEAN, NEW drag \in Nat
    PROVE  Tells(Decoded(a, b, h, precise, drag), a, b, h, precise, drag)
<1> DEFINE m == Len(Spoken)
           H == HeardOf(h)
           said == Keep(Places, H)
           r == Decoded(a, b, h, precise, drag)
<1>1. PICK u : /\ EndsAt(u, a, b, h, drag)
               /\ r = [k \in 1..Len(said) |-> WordOf(u, a, b, h, precise, said[k])]
  BY DecodedHolds
<1>2. m \in Nat /\ Places \in Seq(1..m) /\ Len(Places) = m
  BY SpokenFields, FunctionIsSeq DEF Places
<1>3. said \in Seq(1..m) /\ Len(said) \in Nat
  BY <1>2, KeepIsSeq, LenProperties
<1>4. PICK place : Picks(place, said, Places, m)
  BY <1>2, KeepPicks
<1>5. Covers(said, Places, H, m)
  BY <1>2, KeepCovers
<1> HIDE DEF said, r
<1>6. \A k \in 1..Len(said) : said[k] = place[k] /\ place[k] \in 1..m /\ said[k] \in H
  BY <1>4, <1>5 DEF Picks, Covers, Places
<1>7. H \subseteq 1..m /\ \A i \in H : i \in Within(a, b)
  <2>1. DOMAIN Spoken = 1..m
    BY SpeechAssumption, LenProperties
  <2> QED
    BY <2>1 DEF HeardOf, Hearing, Within
<1>8. ASSUME NEW i \in H
      PROVE  /\ WordOf(u, a, b, h, precise, i) \in Word
             /\ precise =>
                  LET w == WordOf(u, a, b, h, precise, i) IN
                  /\ a <= w.from /\ Spoken[i].from <= w.from
                  /\ w.from <= Greater(a, Spoken[i].from + drag)
                  /\ Lesser(b, Spoken[i].to) <= w.to
                  /\ w.to <= Lesser(b, Spoken[i].to + drag)
                  /\ drag <= 1 /\ h[i] # "garbled" =>
                        w.to = Lesser(b, Spoken[i].to)
  <2>1. i \in 1..m /\ i - 1 \in 0..m /\ i \in 0..m /\ i \in ((i - 1) + 1)..m
    BY <1>2, <1>7
  <2>2. /\ u[i - 1] \in Nat /\ u[i] \in Nat
        /\ a <= u[i - 1] /\ u[i - 1] <= b /\ a <= u[i] /\ u[i] <= b
        /\ u[i - 1] <= Greater(a, Spoken[i].from + drag)
    <3>1. u[i - 1] \in Nat /\ u[i] \in Nat
      BY <1>1, <2>1 DEF EndsAt
    <3>2. \A n \in 0..m :
             /\ a <= u[n] /\ u[n] <= b
             /\ \A j \in (n + 1)..m : u[n] <= Greater(a, Spoken[j].from + drag)
      BY <1>1, EndsInWindow
    <3> QED
      BY <2>1, <3>1, <3>2
  <2>3. u[i] = Greater(Ending(b, h, drag, i), Greater(Spoken[i].from, u[i - 1]))
    BY <1>1, <2>1 DEF EndsAt
  <2>4. /\ Spoken[i].from \in Nat /\ Spoken[i].to \in Nat
        /\ Spoken[i].from < Spoken[i].to /\ Spoken[i].to > a
    BY <1>7, <2>1, SpokenFields, SpokenInOrder DEF Within
  <2>5. /\ Ending(b, h, drag, i) \in Nat
        /\ Ending(b, h, drag, i) <= Lesser(b, Spoken[i].to + drag)
        /\ Lesser(b, Spoken[i].to) <= Ending(b, h, drag, i)
    BY <2>4 DEF Ending, Lesser
  <2>6. /\ a <= Greater(Spoken[i].from, u[i - 1])
        /\ Spoken[i].from <= Greater(Spoken[i].from, u[i - 1])
        /\ Greater(Spoken[i].from, u[i - 1]) <= Greater(a, Spoken[i].from + drag)
        /\ Greater(Spoken[i].from, u[i - 1]) \in Nat
    BY <2>2, <2>4 DEF Greater
  <2>7. Lesser(b, Spoken[i].to) <= u[i]
    BY <2>2, <2>3, <2>4, <2>5, <2>6 DEF Greater, Lesser
  <2>8. u[i] <= Lesser(b, Spoken[i].to + drag)
    <3>1. Greater(a, Spoken[i].from + drag) <= Spoken[i].to + drag
      BY <2>4 DEF Greater
    <3>2. u[i] <= Spoken[i].to + drag
      <4>1. Ending(b, h, drag, i) <= Spoken[i].to + drag
        BY <2>4 DEF Ending, Lesser
      <4>2. Greater(a, Spoken[i].from + drag) \in Nat
        BY <2>4 DEF Greater
      <4>3. Greater(Spoken[i].from, u[i - 1]) <= Spoken[i].to + drag
        BY <2>4, <2>6, <3>1, <4>2
      <4>4. u[i] = Ending(b, h, drag, i) \/ u[i] = Greater(Spoken[i].from, u[i - 1])
        BY <2>3 DEF Greater
      <4> QED
        BY <4>1, <4>3, <4>4
    <3> QED
      BY <2>2, <2>4, <3>2 DEF Lesser
  <2>9. drag <= 1 /\ h[i] # "garbled" => u[i] = Lesser(b, Spoken[i].to)
    <3> SUFFICES ASSUME drag <= 1, h[i] # "garbled"
                 PROVE  u[i] = Lesser(b, Spoken[i].to)
      OBVIOUS
    <3>1. Ending(b, h, drag, i) = Lesser(b, Spoken[i].to)
      BY <2>4 DEF Ending
    <3>2. Greater(Spoken[i].from, u[i - 1]) <= Spoken[i].to
      BY <2>2, <2>4 DEF Greater
    <3>3. Greater(Spoken[i].from, u[i - 1]) <= b
      <4>1. Spoken[i].from < b
        BY <1>7, <2>1 DEF Within
      <4> QED
        BY <2>2, <2>4, <4>1 DEF Greater
    <3> QED
      BY <2>3, <2>4, <2>6, <3>1, <3>2, <3>3 DEF Greater, Lesser
  <2> QED
    BY <2>1, <2>2, <2>6, <2>7, <2>8, <2>9 DEF WordOf, Word
<1>9. \A k \in 1..Len(said) : WordOf(u, a, b, h, precise, said[k]) \in Word
  BY <1>6, <1>8
<1>10. r \in [1..Len(said) -> Word]
  BY <1>1, <1>9
<1>11. r \in Words /\ Len(r) = Len(said)
  BY <1>3, <1>10, FunctionIsSeq DEF Words
<1>12. \A k \in 1..Len(r) : r[k] = WordOf(u, a, b, h, precise, said[k])
  BY <1>1, <1>11
<1>13. \A k \in 1..Len(r) : r[k].word = said[k]
  <2>1. ASSUME NEW i PROVE WordOf(u, a, b, h, precise, i).word = i
    BY DEF WordOf
  <2> QED
    BY <1>12, <2>1
<1>14. Increasing(r)
  BY <1>4, <1>6, <1>11, <1>13 DEF Picks, Increasing
<1>15. ASSUME NEW i \in H PROVE In(i, r)
  <2>1. PICK k \in 1..Len(said) : said[k] = i
    <3>1. i \in 1..m /\ Places[i] = i
      BY <1>7 DEF Places
    <3> QED
      BY <1>5, <3>1 DEF Covers
  <2> QED
    BY <1>11, <1>13, <2>1 DEF In
<1>16. ASSUME NEW k \in 1..Len(r)
       PROVE  LET i == r[k].word IN
              /\ i \in HeardOf(h)
              /\ r[k].garbled = (h[i] = "garbled")
              /\ r[k].precise = precise
              /\ precise =>
                    /\ a <= r[k].from /\ Spoken[i].from <= r[k].from
                    /\ r[k].from <= Greater(a, Spoken[i].from + drag)
                    /\ Lesser(b, Spoken[i].to) <= r[k].to
                    /\ r[k].to <= Lesser(b, Spoken[i].to + drag)
                    /\ drag <= 1 /\ h[i] # "garbled" =>
                          r[k].to = Lesser(b, Spoken[i].to)
              /\ ~precise => r[k].from = a /\ r[k].to = b
  <2>1. r[k].word = said[k] /\ said[k] \in H
    BY <1>6, <1>11, <1>13
  <2>2. r[k] = WordOf(u, a, b, h, precise, said[k])
    BY <1>12
  <2>3. /\ r[k].garbled = (h[said[k]] = "garbled") /\ r[k].precise = precise
        /\ ~precise => r[k].from = a /\ r[k].to = b
    BY <2>2 DEF WordOf
  <2> HIDE DEF H
  <2> QED
    BY <1>8, <2>1, <2>2, <2>3 DEF H
<1> QED
  BY <1>11, <1>14, <1>15, <1>16 DEF Tells, r

-----------------------------------------------------------------------------
(* The seam *)

\* The new words join the pending ones from the j-th on.
JoinsAt(p, new, j) ==
    \/ p = <<>> /\ j = 1
    \/ p # <<>> /\ j - 1 \in Seams(p, new)
    \/ /\ p # <<>> /\ Seams(p, new) = {}
       /\ \A k \in 1..(j - 1) : k \notin Fresh(p, new)
       /\ j = Len(new) + 1 \/ j \in Fresh(p, new)

LEMMA MergeIs ==
    ASSUME NEW p \in Words, NEW new \in Words
    PROVE  \E j \in 1..(Len(new) + 1) :
              JoinsAt(p, new, j) /\ Merge(p, new) = p \o From(new, j)
<1> DEFINE seams == Seams(p, new)
           fresh == Fresh(p, new)
<1>1. Len(new) \in Nat /\ Len(p) \in Nat
  BY LenProperties DEF Words
<1>2. seams \subseteq 1..Len(new) /\ seams \subseteq 1..Len(p)
  BY <1>1 DEF Seams, Lesser
<1>3. fresh \subseteq 1..Len(new)
  BY DEF Fresh
<1>4. Merge(p, new) =
         IF p = <<>> THEN new
         ELSE IF seams # {} THEN
              p \o From(new, 1 + CHOOSE k \in seams : \A l \in seams : l <= k)
         ELSE IF fresh = {} THEN p
         ELSE p \o From(new, CHOOSE i \in fresh : \A j \in fresh : i <= j)
  BY Zenon DEF Merge, From
<1> HIDE DEF seams, fresh
<1>5. CASE p = <<>>
  <2>1. Merge(p, new) = new
    BY <1>4, <1>5
  <2>2. From(new, 1) = new /\ <<>> \o new = new
    BY SubSeqFull, ConcatEmptySeq DEF From, Words
  <2>3. 1 \in 1..(Len(new) + 1)
    BY <1>1
  <2> QED
    BY <1>5, <2>1, <2>2, <2>3 DEF JoinsAt
<1>6. CASE p # <<>> /\ seams # {}
  <2> DEFINE last == CHOOSE k \in seams : \A l \in seams : l <= k
             gaps == {Len(new) - k : k \in seams}
  <2>1. gaps \in SUBSET Nat /\ gaps # {}
    <3>1. \A k \in seams : Len(new) - k \in Nat
      BY <1>1, <1>2
    <3> HIDE DEF last
    <3> QED
      BY <1>6, <3>1
  <2> HIDE DEF gaps
  <2>2. PICK x \in gaps : \A y \in gaps : x <= y
    BY <2>1, LeastNumber
  <2>3. PICK k \in seams : x = Len(new) - k
    BY <2>2 DEF gaps
  <2>4. ASSUME NEW l \in seams PROVE l <= k
    <3>1. Len(new) - k <= Len(new) - l
      BY <2>2, <2>3 DEF gaps
    <3> QED
      BY <1>1, <1>2, <3>1
  <2>5. last \in seams
    BY <2>4
  <2> HIDE DEF last
  <2>6. 1 + last \in 1..(Len(new) + 1) /\ (1 + last) - 1 = last
    BY <1>1, <1>2, <2>5
  <2>7. Merge(p, new) = p \o From(new, 1 + last)
    BY <1>4, <1>6 DEF last
  <2> QED
    BY <1>6, <2>5, <2>6, <2>7 DEF JoinsAt, seams
<1>7. CASE p # <<>> /\ seams = {} /\ fresh = {}
  <2>1. From(new, Len(new) + 1) = <<>>
    BY <1>1, SubSeqEmpty DEF From
  <2>2. p \o <<>> = p
    BY ConcatEmptySeq DEF Words
  <2>3. Len(new) + 1 \in 1..(Len(new) + 1)
    BY <1>1
  <2> QED
    BY <1>4, <1>7, <2>1, <2>2, <2>3 DEF JoinsAt, seams, fresh
<1>8. CASE p # <<>> /\ seams = {} /\ fresh # {}
  <2> DEFINE first == CHOOSE i \in fresh : \A j \in fresh : i <= j
  <2>1. fresh \in SUBSET Nat
    BY <1>3
  <2>2. first \in fresh /\ \A j \in fresh : first <= j
    BY <1>8, <2>1, LeastNumber
  <2> HIDE DEF first
  <2>3. first \in 1..(Len(new) + 1)
    BY <1>1, <1>3, <2>2
  <2>4. \A k \in 1..(first - 1) : k \notin fresh
    BY <2>2, <2>3
  <2>5. Merge(p, new) = p \o From(new, first)
    BY <1>4, <1>8 DEF first
  <2> QED
    BY <1>8, <2>2, <2>3, <2>4, <2>5 DEF JoinsAt, seams, fresh
<1> QED
  BY <1>5, <1>6, <1>7, <1>8

LEMMA SettledIs ==
    ASSUME NEW s \in Words, NEW horizon \in Nat
    PROVE  /\ Settled(s, horizon) \in 0..Len(s)
           /\ \A k \in 1..Settled(s, horizon) : s[k].to <= horizon
           /\ Settled(s, horizon) < Len(s) => s[Settled(s, horizon) + 1].to > horizon
<1> DEFINE open == {i \in 1..Len(s) : s[i].to > horizon}
           first == CHOOSE i \in open : \A j \in open : i <= j
           n == Settled(s, horizon)
<1>1. Len(s) \in Nat
  BY LenProperties DEF Words
<1>2. \A k \in 1..Len(s) : s[k].to \in Nat
  BY WordFields
<1>3. n = IF open = {} THEN Len(s) ELSE first - 1
  BY Zenon DEF Settled
<1> HIDE DEF n
<1>4. CASE open = {}
  BY <1>1, <1>2, <1>3, <1>4 DEF n
<1>5. CASE open # {}
  <2>1. open \in SUBSET Nat
    OBVIOUS
  <2>2. first \in open /\ \A j \in open : first <= j
    <3> HIDE DEF open
    <3> QED
      BY <1>5, <2>1, LeastNumber
  <2> HIDE DEF first
  <2>3. /\ first \in 1..Len(s) /\ s[first].to > horizon
        /\ \A j \in 1..Len(s) : s[j].to > horizon => first <= j
    BY <2>2
  <2>4. n = first - 1 /\ n \in 0..Len(s) /\ n + 1 = first
    BY <1>1, <1>3, <1>5, <2>3
  <2>5. ASSUME NEW k \in 1..n PROVE s[k].to <= horizon
    <3>1. k \in 1..Len(s) /\ ~(first <= k)
      BY <1>1, <2>3, <2>4
    <3> QED
      BY <1>2, <2>3, <3>1
  <2> QED
    BY <2>3, <2>4, <2>5 DEF n
<1> QED
  BY <1>4, <1>5

-----------------------------------------------------------------------------
(* What is committed only grows *)

Done == transcript \o out
Committed == Done \o held

\* The cut at the horizon: n words are finalized, the others held.
CutAt(s, horizon, n) ==
    /\ n \in 0..Len(s)
    /\ \A k \in 1..n : s[k].to <= horizon
    /\ n < Len(s) => s[n + 1].to > horizon
    /\ Done' = Done \o SubSeq(s, 1, n)
    /\ held' = From(s, n + 1)

LEMMA Regroup ==
    \A s, t, u \in Words : (s \o t) \o u = s \o (t \o u)
BY ConcatAssociative DEF Words

LEMMA IngestGrows ==
    ASSUME transcript \in Words, out \in Words, held \in Words,
           NEW new \in Words, NEW horizon \in Nat,
           Ingest(new, horizon), UNCHANGED transcript
    PROVE  /\ out' \in Words /\ held' \in Words
           /\ \E j \in 1..(Len(new) + 1) :
                /\ JoinsAt(held, new, j)
                /\ Committed' = Committed \o From(new, j)
                /\ \E n : CutAt(held \o From(new, j), horizon, n)
<1>1. PICK j \in 1..(Len(new) + 1) :
          JoinsAt(held, new, j) /\ Merge(held, new) = held \o From(new, j)
  BY MergeIs
<1> DEFINE t == From(new, j)
           m == held \o t
           n == Settled(m, horizon)
           a == SubSeq(m, 1, n)
           b == From(m, n + 1)
<1>2. t \in Words /\ m \in Words
  BY FromIs, ConcatProperties DEF Words
<1>3. /\ n \in 0..Len(m)
      /\ \A k \in 1..n : m[k].to <= horizon
      /\ n < Len(m) => m[n + 1].to > horizon
  BY <1>2, SettledIs
<1>4. out' = out \o a /\ held' = b
  BY <1>1 DEF Ingest, From
<1> HIDE DEF t, n
<1>5. Len(m) \in Nat
  BY <1>2, LenProperties DEF Words
<1>6. \A i \in 1..Len(m) : m[i] \in Word
  BY <1>2, ElementOfSeq DEF Words
<1>7. a \in Words
  <2>1. \A i \in 1..n : m[i] \in Word
    BY <1>3, <1>5, <1>6
  <2> HIDE DEF m
  <2> QED
    BY <1>3, <2>1, SubSeqProperties DEF Words
<1>8. b \in Words
  <2>1. n + 1 \in 1..(Len(m) + 1)
    BY <1>3, <1>5
  <2> HIDE DEF m
  <2> QED
    BY <1>2, <2>1, FromIs
<1>9. a \o b = m
  <2>1. /\ 1 \in 1..(Len(m) + 1) /\ n \in (1 - 1)..Len(m) /\ Len(m) \in n..Len(m)
    BY <1>3, <1>5
  <2> HIDE DEF m
  <2>2. SubSeq(m, 1, n) \o SubSeq(m, n + 1, Len(m)) = SubSeq(m, 1, Len(m))
    BY <1>2, <2>1, ConcatAdjacentSubSeq DEF Words
  <2>3. SubSeq(m, 1, Len(m)) = m
    BY <1>2, SubSeqFull DEF Words
  <2> QED
    BY <2>2, <2>3 DEF From
<1> HIDE DEF a, b
<1>10. out' \in Words /\ Done \in Words /\ Done \o a \in Words
  BY <1>4, <1>7, ConcatProperties DEF Words, Done
<1>11. Done' = Done \o a
  <2>1. Done' = transcript \o (out \o a)
    BY <1>4 DEF Done
  <2> QED
    BY <1>7, <2>1, Regroup DEF Done
<1>12. Committed' = Committed \o t
  <2>1. Committed' = (Done \o a) \o b
    BY <1>4, <1>11 DEF Committed
  <2>2. (Done \o a) \o b = Done \o (a \o b)
    <3>0. a \in Words /\ b \in Words
      BY <1>7, <1>8
    <3>1. \A s \in Words : (s \o a) \o b = s \o (a \o b)
      BY ONLY <3>0, Regroup
    <3> QED
      BY <1>10, <3>1
  <2>3. Done \o (held \o t) = (Done \o held) \o t
    <3>0. held \in Words /\ t \in Words
      BY <1>2
    <3>1. \A s \in Words : s \o (held \o t) = (s \o held) \o t
      BY ONLY <3>0, Regroup
    <3> QED
      BY <1>10, <3>1
  <2> QED
    BY <1>9, <2>1, <2>2, <2>3 DEF Committed
<1>13. CutAt(m, horizon, n)
  BY <1>3, <1>4, <1>11 DEF CutAt, a, b
<1> QED
  BY <1>1, <1>4, <1>8, <1>10, <1>12, <1>13 DEF t

-----------------------------------------------------------------------------
(* The invariant *)

\* The last window has been decoded.
Closed == pump \in {"feeding", "over"}

\* What a held word tells of the one that was said, when the windows before s
\* are decoded: it was heard by one of them, and it ends too early only if it
\* is cut by the end of the last, or else it is over.
Reads(w, s) ==
    /\ Spoken[w.word].from < s + Overlap
    /\ Spoken[w.word].from < w.to
    /\ \/ Spoken[w.word].to <= w.to
       \/ Spoken[w.word].to <= s
       \/ s + Overlap <= w.to

ClockOK ==
    /\ {mic, input, buffered, nextStart} \subseteq Nat
    /\ mic = buffered + input /\ mic <= MaxAudio
    /\ nextStart = 0 \/ nextStart + Overlap <= buffered
    /\ \E n \in Nat : nextStart = n * Step /\ n <= nextStart

WordsOK ==
    /\ transcript \in Words /\ out \in Words /\ held \in Words
    /\ decoder \in Decoders

Ordered == decoder # "coarse" => Increasing(Committed)

Placed ==
    ~Closed =>
        /\ \A k \in 1..Len(Done) : Spoken[Done[k].word].to <= nextStart
        /\ \A k \in 1..Len(held) : Reads(held[k], nextStart)

\* How far the decoded windows reach.
HeardTo ==
    IF Closed THEN buffered
    ELSE IF nextStart = 0 THEN 0 ELSE nextStart + Overlap

Reached(i) ==
    \/ Spoken[i].to <= HeardTo
    \/ \E k \in 1..Len(Committed) : i <= Committed[k].word

Complete ==
    ~Rough => \A i \in 1..Len(Spoken) :
                 Reached(i) => In(i, Committed) \/ UnderCommits(i)

HeldSpan ==
    ~Rough /\ ~Closed =>
        \A k \in 1..Len(held) :
            /\ nextStart > 0 /\ held[k].to > nextStart
            /\ held[k].precise = (decoder = "aligned")
            /\ decoder = "aligned" /\ held[k].garbled =>
                  Spoken[held[k].word].to > nextStart + Overlap
            /\ held[k].to =
                  IF held[k].precise
                  THEN Lesser(nextStart + Overlap, Spoken[held[k].word].to)
                  ELSE nextStart + Overlap

Flushed ==
    ~Rough => /\ Closed => held = <<>>
              /\ pump = "over" => out = <<>>

CommitInv ==
    ClockOK /\ WordsOK /\ Ordered /\ Placed /\ Complete /\ HeldSpan /\ Flushed

LEMMA ReadsLater ==
    ASSUME NEW w \in Word, NEW s \in Nat, Reads(w, s)
    PROVE  Reads(w, s + Step)
<1>1. w.word \in 1..Len(Spoken) /\ w.to \in Nat
  BY DEF Word
<1> DEFINE sfrom == Spoken[w.word].from
           sto == Spoken[w.word].to
           wto == w.to
<1>2. sfrom \in Nat /\ sto \in Nat /\ sto + Overlap <= sfrom + Step + 1
  BY <1>1, SpokenFields, SpokenInOrder
<1>3. \A z : Reads(w, z) <=> /\ sfrom < z + Overlap /\ sfrom < wto
                             /\ sto <= wto \/ sto <= z \/ z + Overlap <= wto
  BY DEF Reads
<1>4. /\ sfrom < s + Overlap /\ sfrom < wto
      /\ sto <= wto \/ sto <= s \/ s + Overlap <= wto
  BY <1>3
<1>5. wto \in Nat
  BY <1>1
<1> HIDE DEF sfrom, sto, wto
<1>6. /\ sfrom < s + Step + Overlap /\ sfrom < wto
      /\ \/ sto <= wto \/ sto <= s + Step
         \/ s + Step + Overlap <= wto
  BY <1>2, <1>4, <1>5, Geometry
<1> QED
  BY <1>3, <1>6

LEMMA MultiplesApart ==
    ASSUME NEW n \in Nat, NEW m \in Nat, n < m
    PROVE  n * Step + Step <= m * Step
<1>1. Step \in Nat
  BY Geometry
<1>2. PICK d \in Nat : m = (n + 1) + d
  <2>1. m - (n + 1) \in Nat /\ m = (n + 1) + (m - (n + 1))
    OBVIOUS
  <2> QED
    BY <2>1
<1>3. m * Step = (n * Step + Step) + d * Step
  BY <1>1, <1>2
<1>4. n * Step \in Nat /\ d * Step \in Nat
  BY <1>1
<1> QED
  BY <1>1, <1>3, <1>4

\* Of two words that start in the same overlap the earlier is not one whose
\* start is taken for held audio: it would reach out of an overlap before this
\* one, and words long enough to be cut are too short for that.
LEMMA EarlierIsNotUnderCommitted ==
    ASSUME ClockOK, NEW v \in 1..Len(Spoken), NEW q \in 1..Len(Spoken), v < q,
           Spoken[v].from >= nextStart, Spoken[q].from < nextStart + Overlap
    PROVE  ~UnderCommits(v)
<1> SUFFICES ASSUME UnderCommits(v) PROVE FALSE
  OBVIOUS
<1>1. PICK n \in 1..MaxAudio :
          /\ \E j \in 1..(v - 1) :
                Spoken[j].from < n * Step /\ n * Step < Spoken[j].to
          /\ Spoken[v].from <= n * Step + Overlap
          /\ n * Step + Overlap < Spoken[v].to
  BY DEF UnderCommits
<1>2. PICK j \in 1..(v - 1) :
          Spoken[j].from < n * Step /\ n * Step < Spoken[j].to
  BY <1>1
<1>3. PICK m \in Nat : nextStart = m * Step
  BY DEF ClockOK
<1>4. /\ Step \in Nat /\ Overlap \in Nat /\ MaxAudio \in Nat /\ n \in Nat
  BY Geometry
<1>5. j \in 1..Len(Spoken)
  BY SpokenFields
<1>6. /\ Spoken[j].from \in Nat /\ Spoken[j].to \in Nat
      /\ Spoken[j].to + Overlap <= Spoken[j].from + Step + 1
  BY <1>5, SpokenFields, SpokenInOrder
<1>7. /\ Spoken[v].from \in Nat /\ Spoken[v].to \in Nat /\ Spoken[q].from \in Nat
      /\ Spoken[v].to <= Spoken[q].from
  BY SpokenFields, SpokenInOrder
<1> DEFINE start == n * Step
<1>8. start \in Nat /\ nextStart \in Nat
  BY <1>4 DEF ClockOK
<1>9. n < m => start + Step <= nextStart
  BY <1>3, <1>4, MultiplesApart
<1>10. m <= n => nextStart <= start
  <2>1. m < n => nextStart + Step <= start
    BY <1>3, <1>4, MultiplesApart
  <2>2. m = n => nextStart = start
    BY <1>3
  <2> HIDE DEF start
  <2> QED
    BY <1>4, <1>8, <2>1, <2>2
<1>11. Spoken[j].from < start /\ start < Spoken[j].to
  BY <1>2
<1>12. Spoken[v].from <= start + Overlap /\ start + Overlap < Spoken[v].to
  BY <1>1
<1> HIDE DEF start
<1>13. Overlap < Step
  <2> DEFINE jfrom == Spoken[j].from
             jto == Spoken[j].to
  <2>1. /\ jfrom \in Nat /\ jto \in Nat /\ jto + Overlap <= jfrom + Step + 1
        /\ jfrom < start /\ start < jto
    BY <1>6, <1>11
  <2> HIDE DEF jfrom, jto
  <2> QED
    BY <1>4, <1>8, <2>1
<1>14. CASE n < m
  BY <1>4, <1>7, <1>8, <1>9, <1>12, <1>13, <1>14
<1>15. CASE m <= n
  BY <1>4, <1>7, <1>8, <1>10, <1>12, <1>15
<1> QED
  BY <1>4, <1>14, <1>15

-----------------------------------------------------------------------------
(* A window of an open stream *)

Window(b, h, drag) ==
    /\ b \in Nat /\ nextStart < b
    /\ nextStart = 0 \/ nextStart + Overlap <= b
    /\ h \in Hearings(nextStart, b)
    /\ drag \in {0, 1}

Heard(b, h, drag) == Decoded(nextStart, b, h, decoder # "coarse", drag)

LEMMA WindowTells ==
    ASSUME ClockOK, NEW b, NEW h, NEW drag, Window(b, h, drag)
    PROVE  /\ h \in Hearing(nextStart, b) /\ drag \in 0..1
           /\ Tells(Heard(b, h, drag), nextStart, b, h, decoder # "coarse", drag)
           /\ nextStart \in Nat /\ b \in Nat
<1>1. h \in Hearing(nextStart, b) /\ drag \in 0..1 /\ drag \in Nat
  BY DEF Window, Hearings, Hearing
<1>2. nextStart \in Nat /\ b \in Nat /\ nextStart <= b
  BY DEF ClockOK, Window
<1> QED
  BY <1>1, <1>2, DecodedTells DEF Heard

\* A window only hears words that reach into it.
LEMMA HeardInside ==
    ASSUME ClockOK, NEW b, NEW h, NEW drag, Window(b, h, drag),
           NEW k \in 1..Len(Heard(b, h, drag))
    PROVE  LET i == Heard(b, h, drag)[k].word IN
           /\ i \in 1..Len(Spoken)
           /\ Spoken[i].from < b /\ Spoken[i].to > nextStart
<1>1. Tells(Heard(b, h, drag), nextStart, b, h, decoder # "coarse", drag)
      /\ h \in Hearing(nextStart, b)
  BY WindowTells
<1> DEFINE i == Heard(b, h, drag)[k].word
<1>2. i \in HeardOf(h)
  BY <1>1 DEF Tells
<1>3. i \in Within(nextStart, b)
  BY <1>1, <1>2 DEF HeardOf, Hearing
<1>4. DOMAIN Spoken = 1..Len(Spoken)
  BY SpeechAssumption, LenProperties
<1> QED
  BY <1>3, <1>4 DEF Within

\* So what is finalized comes before all of it.
LEMMA DoneIsBefore ==
    ASSUME ClockOK, WordsOK, Placed, ~Closed,
           NEW b, NEW h, NEW drag, Window(b, h, drag)
    PROVE  Before(Done, Heard(b, h, drag))
<1> DEFINE r == Heard(b, h, drag)
<1> SUFFICES ASSUME NEW x \in 1..Len(Done), NEW k \in 1..Len(r)
             PROVE  Done[x].word < r[k].word
  BY DEF Before
<1>1. Done \in Words
  BY ConcatProperties DEF WordsOK, Words, Done
<1>2. Done[x].word \in 1..Len(Spoken) /\ Spoken[Done[x].word].to <= nextStart
  BY <1>1, WordFields DEF Placed
<1>3. r[k].word \in 1..Len(Spoken) /\ Spoken[r[k].word].to > nextStart
  BY HeardInside
<1> HIDE DEF r
<1> DEFINE v == Done[x].word
           w == r[k].word
<1>4. ~(w <= v)
  <2> SUFFICES ASSUME w <= v PROVE FALSE
    OBVIOUS
  <2> HIDE DEF v, w
  <2>1. /\ v \in 1..Len(Spoken) /\ w \in 1..Len(Spoken) /\ nextStart \in Nat
        /\ Spoken[v].to <= nextStart /\ Spoken[w].to > nextStart
    BY <1>2, <1>3 DEF v, w, ClockOK
  <2>2. /\ Spoken[w].to \in Nat /\ Spoken[v].to \in Nat /\ Spoken[v].from \in Nat
        /\ Spoken[v].from < Spoken[v].to
        /\ w < v => Spoken[w].to <= Spoken[v].from
    BY <2>1, SpokenFields, SpokenInOrder
  <2> QED
    BY <2>1, <2>2, SpokenFields
<1> QED
  BY <1>2, <1>3, <1>4, SpokenFields

LEMMA ListsAreWords ==
    ASSUME WordsOK
    PROVE  Done \in Words /\ Committed \in Words
<1>1. Done \in Words
  BY ConcatProperties DEF WordsOK, Words, Done
<1> QED
  BY <1>1, ConcatProperties DEF WordsOK, Words, Committed

\* A good decoder hears what lies inside the window.
LEMMA GoodHearing ==
    ASSUME ClockOK, WordsOK, ~Rough,
           NEW b, NEW h, NEW drag, Window(b, h, drag),
           NEW i \in 1..Len(Spoken), Spoken[i].from >= nextStart, Spoken[i].to <= b
    PROVE  In(i, Heard(b, h, drag))
<1> DEFINE r == Heard(b, h, drag)
<1>1. Tells(r, nextStart, b, h, decoder # "coarse", drag)
      /\ h \in Hearing(nextStart, b) /\ nextStart \in Nat /\ b \in Nat
  BY WindowTells
<1>2. /\ Spoken[i].from \in Nat /\ Spoken[i].to \in Nat
      /\ Spoken[i].from < Spoken[i].to
  BY SpokenFields, SpokenInOrder
<1>3. DOMAIN Spoken = 1..Len(Spoken)
  BY SpeechAssumption, LenProperties
<1>4. i \in DOMAIN h
  BY <1>1, <1>2, <1>3 DEF Within, Hearing
<1>5. h[i] = "exact"
  <2>1. h[i] = "exact" \/ Spoken[i].from < nextStart \/ Spoken[i].to > b
    BY <1>4 DEF Window, Hearings
  <2> QED
    BY <1>1, <1>2, <2>1
<1>6. \A x \in HeardOf(h) : In(x, r)
  BY <1>1 DEF Tells
<1> QED
  BY <1>4, <1>5, <1>6 DEF HeardOf

\* Where a good decoder puts a word.  One that it mishears may end late.
LEMMA GoodSpans ==
    ASSUME ClockOK, WordsOK, ~Rough,
           NEW b, NEW h, NEW drag, Window(b, h, drag),
           NEW k \in 1..Len(Heard(b, h, drag))
    PROVE  LET w == Heard(b, h, drag)[k] IN
           /\ w.precise = (decoder = "aligned")
           /\ w.garbled => Spoken[w.word].from < nextStart \/ Spoken[w.word].to > b
           /\ w.precise =>
                 /\ Greater(nextStart, Spoken[w.word].from) <= w.from
                 /\ Lesser(b, Spoken[w.word].to) <= w.to
                 /\ w.to <= Lesser(b, Spoken[w.word].to + 1)
                 /\ ~w.garbled => w.to = Lesser(b, Spoken[w.word].to)
           /\ ~w.precise => w.from = nextStart /\ w.to = b
<1> DEFINE r == Heard(b, h, drag)
           w == r[k]
           i == w.word
<1>1. Tells(r, nextStart, b, h, decoder # "coarse", drag)
      /\ h \in Hearing(nextStart, b) /\ nextStart \in Nat /\ b \in Nat
  BY WindowTells
<1>2. i \in 1..Len(Spoken) /\ Spoken[i].from < b /\ Spoken[i].to > nextStart
  BY HeardInside
<1>3. /\ Spoken[i].from \in Nat /\ Spoken[i].to \in Nat
  BY <1>2, SpokenFields
<1>4. drag = 0 \/ drag = 1
  BY DEF Window
<1>5. r \in Words
  BY <1>1 DEF Tells
<1>6. w.from \in Nat /\ w.to \in Nat
  BY <1>5, WordFields
<1>7. /\ i \in HeardOf(h)
      /\ w.garbled = (h[i] = "garbled")
      /\ w.precise = (decoder # "coarse")
      /\ decoder # "coarse" =>
            /\ nextStart <= w.from /\ Spoken[i].from <= w.from
            /\ Lesser(b, Spoken[i].to) <= w.to
            /\ w.to <= Lesser(b, Spoken[i].to + drag)
            /\ drag <= 1 /\ h[i] # "garbled" => w.to = Lesser(b, Spoken[i].to)
      /\ ~(decoder # "coarse") => w.from = nextStart /\ w.to = b
  BY <1>1 DEF Tells
<1>8. (decoder # "coarse") = (decoder = "aligned")
  BY DEF WordsOK, Decoders, Rough
<1>9. w.garbled => Spoken[i].from < nextStart \/ Spoken[i].to > b
  <2>1. i \in DOMAIN h
    BY <1>7 DEF HeardOf
  <2>2. h[i] = "exact" \/ Spoken[i].from < nextStart \/ Spoken[i].to > b
    BY <2>1 DEF Window, Hearings
  <2> QED
    BY <1>7, <2>2
<1>10. decoder # "coarse" => Greater(nextStart, Spoken[i].from) <= w.from
  BY <1>7 DEF Greater
<1> HIDE DEF i, w, r
<1>11. decoder # "coarse" => w.to <= Lesser(b, Spoken[i].to + 1)
  BY <1>1, <1>3, <1>4, <1>6, <1>7 DEF Lesser
<1>12. w.precise = (decoder = "aligned")
  BY <1>7, <1>8
<1>13. decoder # "coarse" /\ ~w.garbled => w.to = Lesser(b, Spoken[i].to)
  <2>1. ~w.garbled => h[i] # "garbled"
    BY <1>7, Zenon
  <2>2. drag <= 1
    BY <1>4
  <2> QED
    BY <1>7, <2>1, <2>2
<1> QED
  BY <1>7, <1>8, <1>9, <1>10, <1>11, <1>12, <1>13 DEF i, w, r

-----------------------------------------------------------------------------
(* Good decoders agree about the overlap *)

\* The start of the window falls inside the word.
Cut(i) == Spoken[i].from < nextStart /\ nextStart < Spoken[i].to

\* The last held word, heard whole by both windows, is in a seam when the start
\* of the window cuts no word: the words of the overlap up to it are in both
\* lists, without gaps.
LEMMA SeamExists ==
    ASSUME ClockOK, WordsOK, Ordered, Placed, Complete, HeldSpan,
           decoder = "aligned", ~Closed,
           NEW b, NEW h, NEW drag, Window(b, h, drag),
           held # <<>>, ~held[Len(held)].garbled,
           \A c \in 1..held[Len(held)].word : ~Cut(c),
           NEW y \in 1..Len(Heard(b, h, drag)),
           Heard(b, h, drag)[y].word = held[Len(held)].word,
           ~Heard(b, h, drag)[y].garbled
    PROVE  y \in Seams(held, Heard(b, h, drag))
<1> DEFINE r == Heard(b, h, drag)
           n == Len(held)
           q == held[n].word
           f == r[1].word
<1>0. ~Rough
  BY DEF Rough
<1>1. /\ r \in Words /\ Increasing(r) /\ Len(r) \in Nat
      /\ nextStart \in Nat /\ b \in Nat /\ Overlap \in Nat
  BY WindowTells, Geometry, LenProperties DEF Tells, Words
<1>2. held \in Words /\ n \in Nat /\ n > 0 /\ n \in 1..n
  BY EmptySeq, LenProperties DEF WordsOK, Words
<1>3. \A k \in 1..Len(r) : r[k].word \in 1..Len(Spoken)
  BY <1>1, WordFields
<1>4. \A k \in 1..n : held[k].word \in 1..Len(Spoken)
  BY <1>2, WordFields
<1>5. \A k \in 1..Len(r) : /\ Spoken[r[k].word].from < b
                           /\ Spoken[r[k].word].to > nextStart
  BY HeardInside
<1>6. \A k \in 1..Len(r) : r[k].garbled =>
         Spoken[r[k].word].from < nextStart \/ Spoken[r[k].word].to > b
  BY <1>0, GoodSpans
<1>7. y \in 1..Len(r) /\ r[y].word = q /\ ~r[y].garbled /\ ~held[n].garbled
  OBVIOUS
<1>8. /\ Spoken[q].from < nextStart + Overlap
      /\ \A k \in 1..n : held[k].garbled =>
            Spoken[held[k].word].to > nextStart + Overlap
  BY <1>0, <1>2 DEF Placed, Reads, HeldSpan
<1>9. Increasing(held)
  BY <1>2, ListsAreWords, IncreasingConcat DEF Ordered, Committed
<1>10. ASSUME NEW v \in 1..Len(Spoken),
              Spoken[v].from >= nextStart, Spoken[v].to <= b
       PROVE  In(v, r)
  BY <1>0, <1>10, GoodHearing
<1>25. \A c \in 1..q : ~Cut(c)
  OBVIOUS
<1> HIDE DEF r
<1>11. /\ 1 \in 1..Len(r) /\ f \in 1..Len(Spoken) /\ q \in 1..Len(Spoken)
       /\ f \in Nat /\ q \in Nat
  BY <1>1, <1>2, <1>3, <1>4, <1>7, SpokenFields
<1>12. f <= q
  <2>1. y = 1 \/ 1 < y
    BY <1>1
  <2>2. 1 < y => r[1].word < r[y].word
    BY <1>1, <1>7, <1>11 DEF Increasing
  <2>3. y = 1 => f = q
    BY <1>7
  <2>4. 1 < y => f < q
    BY <1>7, <2>2
  <2> HIDE DEF f, q
  <2> QED
    BY <1>11, <2>1, <2>3, <2>4
<1>13. \A v \in f..q : v \in 1..Len(Spoken) /\ v \in Nat
  BY <1>11, SpokenFields
<1>14. ASSUME NEW v \in f..q, v < q
       PROVE  /\ Spoken[v].to <= Spoken[q].from
              /\ Spoken[v].to <= b /\ Spoken[v].to <= nextStart + Overlap
  <2>1. Spoken[v].to <= Spoken[q].from
    BY <1>11, <1>13, <1>14, SpokenInOrder
  <2>2. Spoken[q].from < b
    BY <1>5, <1>7
  <2>3. Spoken[v].to \in Nat /\ Spoken[q].from \in Nat
    BY <1>11, <1>13, SpokenFields
  <2> QED
    BY <1>1, <1>8, <2>1, <2>2, <2>3
<1>15. ASSUME NEW v \in f..q PROVE Spoken[v].to > nextStart
  <2>1. Spoken[f].to > nextStart /\ Spoken[f].to \in Nat
    BY <1>5, <1>11, SpokenFields
  <2>2. CASE v = f
    BY <2>1, <2>2
  <2>3. CASE f < v
    <3>1. /\ Spoken[f].to <= Spoken[v].from /\ Spoken[v].from < Spoken[v].to
          /\ Spoken[v].from \in Nat /\ Spoken[v].to \in Nat
      BY <1>11, <1>13, <2>3, SpokenInOrder, SpokenFields
    <3> HIDE DEF f, q, n
    <3> QED
      BY <1>1, <2>1, <3>1
  <2> QED
    BY <1>11, <1>13, <2>2, <2>3, SpokenFields
<1>26. ASSUME NEW v \in f..q PROVE Spoken[v].from >= nextStart
  <2>1. v \in 1..q
    <3>1. v \in 1..Len(Spoken) /\ v \in Nat
      BY <1>13
    <3> HIDE DEF f, q
    <3> QED
      BY <1>11, <3>1
  <2>2. ~(Spoken[v].from < nextStart /\ nextStart < Spoken[v].to)
    BY <1>25, <2>1 DEF Cut
  <2>3. Spoken[v].to > nextStart
    BY <1>15
  <2>4. v \in 1..Len(Spoken)
    BY <1>13
  <2>5. Spoken[v].from \in Nat /\ Spoken[v].to \in Nat
    BY <2>4, SpokenFields
  <2> DEFINE vfrom == Spoken[v].from
             vto == Spoken[v].to
  <2>6. /\ ~(vfrom < nextStart /\ nextStart < vto) /\ vto > nextStart
        /\ vfrom \in Nat /\ vto \in Nat
    BY <2>2, <2>3, <2>5
  <2> HIDE DEF vfrom, vto
  <2>7. vfrom >= nextStart
    BY <1>1, <2>6
  <2> QED
    BY <2>7 DEF vfrom
<1>16. \A v \in f..q : In(v, r)
  <2> SUFFICES ASSUME NEW v \in f..q PROVE In(v, r)
    OBVIOUS
  <2>1. CASE v = f
    BY <1>11, <2>1 DEF In
  <2>2. CASE v = q
    BY <1>7, <2>2 DEF In
  <2>3. CASE f < v /\ v < q
    <3>1. Spoken[v].from >= nextStart
      BY <1>26
    <3> QED
      BY <1>10, <1>13, <1>14, <2>3, <3>1
  <2> QED
    BY <1>11, <1>13, <2>1, <2>2, <2>3, SpokenFields
<1>17. \A v \in f..q : In(v, held)
  <2>0. In(q, held)
    BY <1>2 DEF In
  <2> SUFFICES ASSUME NEW v \in f..q, v < q PROVE In(v, held)
    <3> HIDE DEF q, f, n
    <3>1. \A v \in f..q : v < q \/ v = q
      BY <1>11
    <3> QED
      BY <2>0, <3>1
  <2>1. ~UnderCommits(v)
    <3>1. Spoken[v].from >= nextStart
      BY <1>26
    <3> QED
      BY <1>8, <1>11, <1>13, <3>1, EarlierIsNotUnderCommitted
  <2>2. In(q, Committed)
    <3>1. In(q, held)
      BY <1>2 DEF In
    <3> QED
      BY <1>2, <3>1, ListsAreWords, InConcat DEF Committed
  <2>3. Reached(v)
    BY <1>13, <2>2 DEF Reached, In
  <2>4. In(v, Committed)
    BY <1>0, <1>13, <2>1, <2>3 DEF Complete
  <2>5. ~In(v, Done)
    <3>1. Spoken[v].to \in Nat /\ Spoken[v].to > nextStart
      BY <1>13, <1>15, SpokenFields
    <3> QED
      BY <1>1, <3>1 DEF In, Placed
  <2> QED
    BY <1>2, <2>4, <2>5, ListsAreWords, InConcat DEF Committed
<1>18. PICK x \in 1..n : held[x].word = f
  <2>1. f \in f..q
    <3> HIDE DEF f, q
    <3> QED
      BY <1>11, <1>12
  <2>2. In(f, held)
    BY <1>17, <2>1
  <2> QED
    BY <2>2 DEF In
<1>19. \A d \in 0..(n - x) : held[x + d].word = f + d
  <2>1. n \in x..Len(held) /\ held[n].word = q
    BY <1>2
  <2> HIDE DEF n, q, f
  <2>2. \A v \in held[x].word..held[n].word : In(v, held)
    BY <1>17, <1>18, <2>1
  <2> QED
    BY <1>2, <1>9, <1>18, <2>1, <2>2, NoGaps DEF n
<1>20. \A d \in 0..(y - 1) : r[1 + d].word = f + d
  <2>1. y \in 1..Len(r) /\ \A v \in r[1].word..r[y].word : In(v, r)
    BY <1>7, <1>16
  <2> HIDE DEF n, q
  <2> QED
    BY <1>1, <1>11, <2>1, NoGaps
<1>21. y = n - x + 1
  <2>1. n - x \in 0..(n - x) /\ x + (n - x) = n
    BY <1>2
  <2>2. q = f + (n - x)
    BY <1>19, <2>1
  <2>3. y - 1 \in 0..(y - 1) /\ 1 + (y - 1) = y
    BY <1>1
  <2>4. q = f + (y - 1)
    BY <1>7, <1>20, <2>3
  <2> HIDE DEF n, q, f
  <2> QED
    BY <1>1, <1>2, <1>11, <2>2, <2>4, SpokenFields
<1>22. y \in 1..Lesser(Len(held), Len(r))
  BY <1>1, <1>2, <1>7, <1>21 DEF Lesser
<1>24. y \in 1..Len(r) /\ y \in Nat
  BY <1>1, <1>7
<1> HIDE DEF n, q, f
<1>23. ASSUME NEW i \in 1..y PROVE SameText(held[n - y + i], r[i])
  <2>1. /\ i - 1 \in 0..(n - x) /\ i - 1 \in 0..(y - 1)
        /\ n - y + i = x + (i - 1) /\ i = 1 + (i - 1)
        /\ x + (i - 1) \in 1..n /\ i \in 1..Len(r)
    BY <1>1, <1>2, <1>21, <1>24
  <2> DEFINE v == f + (i - 1)
  <2>2. held[n - y + i].word = v
    BY <1>19, <2>1
  <2>3. r[i].word = v
    BY <1>20, <2>1
  <2> HIDE DEF v
  <2>4. CASE i = y
    <3>1. n - y + i = n
      BY <1>2, <1>24, <2>4
    <3>2. r[i].word = q /\ held[n].word = q
      BY <1>7, <2>4 DEF q
    <3> QED
      BY <1>7, <2>4, <3>1, <3>2 DEF SameText
  <2>5. CASE i # y
    <3>1. i < y
      BY <1>24, <2>5
    <3>2. v < q
      BY <1>1, <1>7, <1>24, <2>1, <2>3, <3>1 DEF Increasing
    <3>3. v \in f..q
      <4>1. v \in Nat /\ f <= v
        BY <1>1, <1>11, <1>24, <2>1 DEF v
      <4> QED
        BY <1>11, <3>2, <4>1
    <3>4. Spoken[v].to <= b /\ Spoken[v].to <= nextStart + Overlap /\ Spoken[v].to \in Nat
      BY <1>13, <1>14, <3>2, <3>3, SpokenFields
    <3>5. ~r[i].garbled
      <4>1. Spoken[v].from >= nextStart
        BY <1>26, <3>3
      <4>2. Spoken[v].from \in Nat
        BY <1>13, <3>3, SpokenFields
      <4>3. r[i].garbled => Spoken[v].from < nextStart \/ Spoken[v].to > b
        BY <1>6, <2>1, <2>3
      <4> DEFINE vfrom == Spoken[v].from
                 vto == Spoken[v].to
      <4>4. /\ vfrom >= nextStart /\ vto <= b /\ vfrom \in Nat /\ vto \in Nat
            /\ r[i].garbled => vfrom < nextStart \/ vto > b
        BY <3>4, <4>1, <4>2, <4>3
      <4> HIDE DEF vfrom, vto
      <4>5. ~(vfrom < nextStart \/ vto > b)
        BY <1>1, <4>4
      <4> QED
        BY <4>4, <4>5
    <3>6. ~held[n - y + i].garbled
      BY <1>1, <1>8, <2>1, <2>2, <3>4
    <3> QED
      BY <2>2, <2>3, <3>5, <3>6 DEF SameText
  <2> QED
    BY <2>4, <2>5
<1> QED
  BY <1>22, <1>23 DEF Seams, r, n

LEMMA ConcatElements ==
    ASSUME NEW s \in Words, NEW t \in Words, NEW k \in 1..Len(s \o t)
    PROVE  \/ \E i \in 1..Len(s) : (s \o t)[k] = s[i]
           \/ \E i \in 1..Len(t) : (s \o t)[k] = t[i]
<1> DEFINE c == s \o t
<1>1. /\ Len(s) \in Nat /\ Len(t) \in Nat
      /\ Len(c) = Len(s) + Len(t)
      /\ \A x \in 1..(Len(s) + Len(t)) :
            c[x] = IF x <= Len(s) THEN s[x] ELSE t[x - Len(s)]
  BY ConcatProperties, LenProperties DEF Words
<1>2. k \in 1..Len(c)
  OBVIOUS
<1> HIDE DEF c
<1>3. CASE k <= Len(s)
  <2>1. k \in 1..Len(s) /\ c[k] = s[k]
    BY <1>1, <1>2, <1>3
  <2> QED
    BY <2>1 DEF c
<1>4. CASE ~(k <= Len(s))
  <2>1. k - Len(s) \in 1..Len(t) /\ c[k] = t[k - Len(s)]
    BY <1>1, <1>2, <1>4
  <2> QED
    BY <2>1 DEF c
<1> QED
  BY <1>3, <1>4

\* A word that starts after everything held, in a decode with a span for each
\* word, was said after everything held: a held word that ends before this
\* window is over before it.
LEMMA FreshIsLater ==
    ASSUME ClockOK, WordsOK, Placed, ~Closed, decoder # "coarse",
           NEW b, NEW h, NEW drag, Window(b, h, drag),
           NEW x \in 1..Len(held), NEW k \in Fresh(held, Heard(b, h, drag))
    PROVE  held[x].word < Heard(b, h, drag)[k].word
<1> DEFINE r == Heard(b, h, drag)
           v == held[x].word
           w == r[k].word
<1>1. /\ k \in 1..Len(r)
      /\ r[k].precise => held[x].to < r[k].from
  BY DEF Fresh
<1>2. /\ Tells(r, nextStart, b, h, decoder # "coarse", drag)
      /\ nextStart \in Nat /\ drag \in 0..1
  BY WindowTells
<1>3. r \in Words
  BY <1>2 DEF Tells
<1>4. /\ r[k].precise
      /\ r[k].from <= Greater(nextStart, Spoken[w].from + drag)
  BY <1>1, <1>2 DEF Tells
<1>5. w \in 1..Len(Spoken) /\ Spoken[w].to > nextStart
  BY <1>1, HeardInside
<1>6. r[k].from \in Nat
  BY <1>1, <1>3, WordFields
<1>7. held[x].to \in Nat /\ v \in 1..Len(Spoken)
  BY WordFields DEF WordsOK
<1>8. Reads(held[x], nextStart)
  BY DEF Placed
<1>9. held[x].to < r[k].from
  BY <1>1, <1>4
<1>10. /\ Spoken[v].from < held[x].to
       /\ \/ Spoken[v].to <= held[x].to
          \/ Spoken[v].to <= nextStart
          \/ nextStart + Overlap <= held[x].to
  BY <1>8 DEF Reads
<1> DEFINE hto == held[x].to
           rfrom == r[k].from
<1>11. ~(w <= v)
  <2> SUFFICES ASSUME w <= v PROVE FALSE
    OBVIOUS
  <2>0. rfrom \in Nat /\ hto \in Nat /\ hto < rfrom
    BY <1>6, <1>7, <1>9
  <2>1. /\ Spoken[v].from < hto
        /\ \/ Spoken[v].to <= hto
           \/ Spoken[v].to <= nextStart
           \/ nextStart + Overlap <= hto
    BY <1>10
  <2>2. rfrom <= Greater(nextStart, Spoken[w].from + drag)
    BY <1>4
  <2> HIDE DEF v, w, hto, rfrom
  <2>3. /\ Spoken[w].from \in Nat /\ Spoken[w].to \in Nat
        /\ Spoken[v].from \in Nat /\ Spoken[v].to \in Nat
        /\ Spoken[w].from < Spoken[w].to /\ Spoken[v].from < Spoken[v].to
        /\ w < v => Spoken[w].to <= Spoken[v].from
    BY <1>5, <1>7, SpokenFields, SpokenInOrder DEF v, w
  <2>4. Spoken[w].to <= Spoken[v].to /\ Spoken[w].from <= Spoken[v].from
    <3>1. v \in 1..Len(Spoken) /\ w \in 1..Len(Spoken)
      BY <1>5, <1>7 DEF v, w
    <3>2. w = v \/ w < v
      BY <3>1, SpokenFields
    <3> QED
      BY <2>3, <3>2
  <2>5. Spoken[w].to > nextStart
    BY <1>5 DEF w
  <2>6. rfrom <= nextStart
    BY <1>2, <2>0, <2>1, <2>2, <2>3, <2>4 DEF Greater
  <2> QED
    BY <1>2, <2>0, <2>1, <2>3, <2>4, <2>5, <2>6, Geometry
<1> QED
  BY <1>5, <1>7, <1>11, SpokenFields

\* What joins the held words was said after them.
LEMMA JoinsAfterHeld ==
    ASSUME ClockOK, WordsOK, Ordered, Placed, ~Closed, decoder # "coarse",
           NEW b, NEW h, NEW drag, Window(b, h, drag),
           NEW j \in 1..(Len(Heard(b, h, drag)) + 1),
           JoinsAt(held, Heard(b, h, drag), j),
           NEW x \in 1..Len(held), NEW k \in j..Len(Heard(b, h, drag))
    PROVE  held[x].word < Heard(b, h, drag)[k].word
<1> DEFINE r == Heard(b, h, drag)
           n == Len(held)
           q == held[n].word
<1>1. /\ r \in Words /\ Increasing(r) /\ Len(r) \in Nat
      /\ nextStart \in Nat /\ b \in Nat /\ Overlap \in Nat
  BY WindowTells, Geometry, LenProperties DEF Tells, Words
<1>2. held \in Words /\ n \in Nat /\ n \in 1..n /\ held # <<>>
  <2>1. held \in Words /\ n \in Nat
    BY LenProperties DEF WordsOK, Words
  <2> QED
    BY <2>1, EmptySeq
<1>3. Increasing(held)
  BY <1>2, ListsAreWords, IncreasingConcat DEF Ordered, Committed
<1>4. /\ j \in 1..(Len(r) + 1) /\ k \in j..Len(r) /\ k \in 1..Len(r)
      /\ x \in 1..n /\ j \in Nat /\ k \in Nat
  BY <1>1
<1>5. /\ \A i \in 1..Len(r) : r[i].word \in Nat /\ r[i].word \in 1..Len(Spoken)
      /\ \A i \in 1..n : held[i].word \in Nat /\ held[i].word \in 1..Len(Spoken)
  BY <1>1, <1>2, WordFields, SpokenFields
<1>6. held[x].word <= q
  <2>1. x < n => held[x].word < held[n].word
    BY <1>2, <1>3, <1>4 DEF Increasing
  <2>2. held[x].word \in Nat /\ held[n].word \in Nat
    BY <1>2, <1>4, <1>5
  <2> QED
    BY <1>2, <1>4, <2>1, <2>2
<1>7. CASE j - 1 \in Seams(held, r)
  <2>1. /\ j - 1 \in 1..Lesser(n, Len(r))
        /\ \A i \in 1..(j - 1) : SameText(held[n - (j - 1) + i], r[i])
    BY <1>7 DEF Seams
  <2>2. j - 1 \in 1..(j - 1) /\ n - (j - 1) + (j - 1) = n /\ j - 1 < k
        /\ j - 1 \in 1..Len(r)
    BY <1>1, <1>2, <1>4, <2>1 DEF Lesser
  <2>3. SameText(held[n], r[j - 1])
    BY <2>1, <2>2
  <2>4. q = r[j - 1].word
    BY <2>3 DEF SameText
  <2>5. r[j - 1].word < r[k].word
    BY <1>1, <1>4, <2>2 DEF Increasing
  <2> HIDE DEF r, n
  <2> QED
    BY <1>4, <1>5, <1>6, <2>2, <2>4, <2>5 DEF r, n
<1>8. CASE Seams(held, r) = {} /\ j \in Fresh(held, r)
  <2>1. held[x].word < r[j].word
    BY <1>4, <1>8, FreshIsLater
  <2>2. j < k => r[j].word < r[k].word
    BY <1>1, <1>4 DEF Increasing
  <2>3. j \in 1..Len(r)
    BY <1>1, <1>4
  <2> HIDE DEF r, n
  <2> QED
    BY <1>4, <1>5, <2>1, <2>2, <2>3 DEF r, n
<1>9. j = Len(r) + 1 \/ j \in Fresh(held, r) \/ j - 1 \in Seams(held, r)
  BY <1>2 DEF JoinsAt
<1>10. j # Len(r) + 1
  BY <1>1, <1>4
<1>11. j - 1 \in Seams(held, r) \/ Seams(held, r) = {}
  BY <1>2 DEF JoinsAt
<1> HIDE DEF r, n, q
<1> QED
  BY <1>7, <1>8, <1>9, <1>10, <1>11 DEF r

\* So the commitment stays in order.
LEMMA JoinKeepsOrder ==
    ASSUME ClockOK, WordsOK, Ordered, Placed, ~Closed, decoder # "coarse",
           NEW b, NEW h, NEW drag, Window(b, h, drag),
           NEW j \in 1..(Len(Heard(b, h, drag)) + 1),
           JoinsAt(held, Heard(b, h, drag), j)
    PROVE  Increasing(Committed \o From(Heard(b, h, drag), j))
<1> DEFINE r == Heard(b, h, drag)
           t == From(r, j)
<1>1. r \in Words /\ Increasing(r) /\ j \in 1..(Len(r) + 1) /\ Len(r) \in Nat
  BY WindowTells, LenProperties DEF Tells, Words
<1>2. Before(Done, r)
  BY DoneIsBefore
<1>3. \A x \in 1..Len(held), k \in j..Len(r) : held[x].word < r[k].word
  BY JoinsAfterHeld
<1> HIDE DEF r
<1>4. /\ t \in Words /\ Len(t) = Len(r) + 1 - j
      /\ \A k \in 1..(Len(r) + 1 - j) :
            t[k] = r[j + k - 1] /\ j + k - 1 \in 1..Len(r)
  BY <1>1, FromIs
<1>5. Increasing(t)
  BY <1>1, FromIncreasing
<1>6. Done \in Words /\ Committed \in Words /\ held \in Words
  BY ListsAreWords DEF WordsOK
<1> HIDE DEF t
<1>7. Before(Committed, t)
  <2> SUFFICES ASSUME NEW x \in 1..Len(Committed), NEW k \in 1..Len(t)
               PROVE  Committed[x].word < t[k].word
    BY DEF Before
  <2>1. t[k] = r[j + k - 1] /\ j + k - 1 \in 1..Len(r) /\ j + k - 1 \in j..Len(r)
    BY <1>1, <1>4
  <2>2. \/ \E i \in 1..Len(Done) : Committed[x] = Done[i]
        \/ \E i \in 1..Len(held) : Committed[x] = held[i]
    BY <1>6, ConcatElements DEF Committed
  <2> QED
    BY <1>2, <1>3, <2>1, <2>2 DEF Before
<1>8. Increasing(Committed \o t)
  BY <1>4, <1>5, <1>6, <1>7, IncreasingConcat DEF Ordered
<1> QED
  BY <1>8 DEF t, r

\* A word no good decode has brought before: it ends after what was decoded, is
\* later than all that is committed, and begins inside this window.
LEMMA NotYetReached ==
    ASSUME ClockOK, WordsOK, Complete, ~Rough, ~Closed,
           NEW i \in 1..Len(Spoken), ~In(i, Committed), ~UnderCommits(i)
    PROVE  /\ Spoken[i].from >= nextStart
           /\ nextStart > 0 => Spoken[i].to > nextStart + Overlap
           /\ \A k \in 1..Len(Committed) : Committed[k].word < i
<1>1. ~Reached(i)
  BY DEF Complete
<1>2. /\ Spoken[i].from \in Nat /\ Spoken[i].to \in Nat
      /\ Spoken[i].to <= Spoken[i].from + Overlap
      /\ nextStart \in Nat /\ Overlap \in Nat /\ i \in Nat
  BY SpokenFields, SpokenInOrder, Geometry DEF ClockOK
<1>3. Committed \in Words
  BY ListsAreWords
<1>4. \A k \in 1..Len(Committed) : Committed[k].word \in Nat
  BY <1>3, WordFields, SpokenFields
<1>5. \A k \in 1..Len(Committed) : Committed[k].word < i
  BY <1>1, <1>2, <1>4 DEF Reached
<1>6. HeardTo = IF nextStart = 0 THEN 0 ELSE nextStart + Overlap
  BY DEF HeardTo
<1>7. ~(Spoken[i].to <= HeardTo)
  BY <1>1 DEF Reached
<1>8. nextStart > 0 => Spoken[i].to > nextStart + Overlap
  BY <1>2, <1>6, <1>7
<1>9. Spoken[i].from >= nextStart
  BY <1>2, <1>8
<1> QED
  BY <1>5, <1>8, <1>9

\* Such a word starts in audio already held only if it touches the last word of
\* it, and there is no seam because the start of the window cuts a word: the
\* under-commit.
LEMMA TouchesACutWord ==
    ASSUME ClockOK, WordsOK, Ordered, Placed, Complete, HeldSpan,
           ~Rough, ~Closed, NEW b, NEW h, NEW drag, Window(b, h, drag),
           held # <<>>, Seams(held, Heard(b, h, drag)) = {},
           NEW i \in 1..Len(Spoken), ~In(i, Committed), Spoken[i].to <= b,
           NEW k \in 1..Len(Heard(b, h, drag)),
           Heard(b, h, drag)[k].word = i,
           k \notin Fresh(held, Heard(b, h, drag))
    PROVE  UnderCommits(i)
<1> SUFFICES ASSUME ~UnderCommits(i) PROVE FALSE
  OBVIOUS
<1> DEFINE r == Heard(b, h, drag)
           n == Len(held)
<1>0. nextStart \in Nat /\ b \in Nat /\ Overlap \in Nat
  BY WindowTells, Geometry
<1>1. r \in Words
  BY WindowTells DEF Tells
<1>2. held \in Words /\ n \in Nat /\ n \in 1..n
  <2>1. held \in Words /\ n \in Nat
    BY LenProperties DEF WordsOK, Words
  <2> QED
    BY <2>1, EmptySeq
<1>4. PICK x \in 1..n :
          ~(held[x].to < IF r[k].precise THEN r[k].from ELSE r[k].to)
  BY DEF Fresh
<1>5. /\ nextStart > 0 /\ held[x].to > nextStart
      /\ held[x].precise = (decoder = "aligned")
      /\ decoder = "aligned" /\ held[x].garbled =>
            Spoken[held[x].word].to > nextStart + Overlap
      /\ held[x].to = IF held[x].precise
                      THEN Lesser(nextStart + Overlap, Spoken[held[x].word].to)
                      ELSE nextStart + Overlap
  BY DEF HeldSpan
<1>6. /\ Spoken[i].from >= nextStart
      /\ Spoken[i].to > nextStart + Overlap
      /\ \A y \in 1..Len(Committed) : Committed[y].word < i
  BY <1>5, NotYetReached
<1>7. /\ Spoken[i].from \in Nat /\ Spoken[i].to \in Nat /\ i \in Nat
  BY SpokenFields
<1>8. /\ r[k].precise = (decoder = "aligned")
      /\ r[k].precise => Greater(nextStart, Spoken[i].from) <= r[k].from
      /\ ~r[k].precise => r[k].to = b
  BY GoodSpans
<1>9. nextStart + Overlap <= b
  BY <1>5 DEF Window
<1>10. \A y \in 1..n : held[y].word < i
  <2> SUFFICES ASSUME NEW y \in 1..n PROVE held[y].word < i
    OBVIOUS
  <2>1. In(held[y].word, held)
    BY DEF In
  <2>2. In(held[y].word, Committed)
    BY <1>2, <2>1, ListsAreWords, InConcat DEF Committed
  <2> QED
    BY <1>6, <2>2 DEF In
<1> DEFINE v == held[x].word
           hto == held[x].to
<1>11. v \in 1..Len(Spoken) /\ v \in Nat /\ v < i /\ hto \in Nat
  <2>1. v \in 1..Len(Spoken) /\ hto \in Nat
    BY <1>2, WordFields
  <2>2. v < i
    BY <1>10
  <2> HIDE DEF v, hto
  <2> QED
    BY <2>1, <2>2, SpokenFields
<1>12. /\ Spoken[v].from \in Nat /\ Spoken[v].to \in Nat
       /\ Spoken[v].to <= Spoken[i].from
       /\ Spoken[v].to <= Spoken[v].from + Overlap
  BY <1>11, SpokenFields, SpokenInOrder
<1>13. decoder = "aligned"
  <2> SUFFICES ASSUME decoder # "aligned" PROVE FALSE
    OBVIOUS
  <2>1. r[k].to = b /\ hto = nextStart + Overlap /\ ~(hto < r[k].to)
    BY <1>4, <1>5, <1>8
  <2> HIDE DEF r, hto
  <2> QED
    BY <1>0, <1>6, <1>7, <1>9, <2>1
<1>3. Increasing(held)
  BY <1>2, <1>13, ListsAreWords, IncreasingConcat DEF Ordered, Committed
<1>14. /\ hto = Lesser(nextStart + Overlap, Spoken[v].to)
       /\ ~(hto < Greater(nextStart, Spoken[i].from))
  <2> DEFINE begins == Greater(nextStart, Spoken[i].from)
             rfrom == r[k].from
  <2>1. hto = Lesser(nextStart + Overlap, Spoken[v].to)
    BY <1>5, <1>13
  <2>2. ~(hto < rfrom) /\ begins <= rfrom
    BY <1>4, <1>8, <1>13
  <2>3. begins \in Nat /\ rfrom \in Nat /\ hto \in Nat
    BY <1>0, <1>1, <1>7, <1>11, WordFields DEF Greater
  <2> HIDE DEF v, hto, begins, rfrom, r
  <2>4. ~(hto < begins)
    BY <2>2, <2>3
  <2> QED
    BY <2>1, <2>4 DEF begins
<1>15. held[x].garbled => Spoken[v].to > nextStart + Overlap
  BY <1>5, <1>13
<1>16. hto > nextStart
  BY <1>5
<1> HIDE DEF v, hto
<1>17. Spoken[v].to = Spoken[i].from /\ Spoken[v].to <= nextStart + Overlap
       /\ Spoken[v].to > nextStart
  <2> DEFINE vto == Spoken[v].to
             ifrom == Spoken[i].from
  <2>1. /\ hto = Lesser(nextStart + Overlap, vto)
        /\ ~(hto < Greater(nextStart, ifrom))
        /\ hto > nextStart /\ ifrom >= nextStart /\ vto <= ifrom
        /\ vto \in Nat /\ ifrom \in Nat /\ hto \in Nat
    BY <1>6, <1>7, <1>11, <1>12, <1>14, <1>16
  <2> HIDE DEF vto, ifrom
  <2>2. vto = ifrom /\ vto <= nextStart + Overlap /\ vto > nextStart
    BY <1>0, <2>1 DEF Lesser, Greater
  <2> QED
    BY <2>2 DEF vto, ifrom
<1>18. v = i - 1
  <2> SUFFICES ASSUME v # i - 1 PROVE FALSE
    OBVIOUS
  <2>1. i - 1 \in 1..Len(Spoken) /\ v < i - 1 /\ i - 1 < i
    BY <1>7, <1>11, SpokenFields
  <2>2. /\ Spoken[v].to <= Spoken[i - 1].from
        /\ Spoken[i - 1].from < Spoken[i - 1].to
        /\ Spoken[i - 1].to <= Spoken[i].from
        /\ Spoken[i - 1].from \in Nat /\ Spoken[i - 1].to \in Nat
    BY <1>11, <2>1, SpokenFields, SpokenInOrder
  <2> QED
    BY <1>7, <1>12, <1>17, <2>2
<1>19. x = n
  <2> SUFFICES ASSUME x # n PROVE FALSE
    OBVIOUS
  <2>1. x < n
    BY <1>2
  <2>2. held[x].word < held[n].word
    BY <1>2, <1>3, <2>1 DEF Increasing
  <2>3. held[n].word < i /\ held[n].word \in Nat
    BY <1>2, <1>10, WordFields, SpokenFields
  <2> DEFINE last == held[n].word
  <2>4. i - 1 < last /\ last < i /\ last \in Nat
    BY <1>18, <2>2, <2>3 DEF v
  <2> HIDE DEF last
  <2> QED
    BY <1>7, <2>4
<1>20. ~held[n].garbled /\ held[n].word = v
  <2>1. ~held[x].garbled
    <3> DEFINE vto == Spoken[v].to
    <3>1. /\ vto \in Nat /\ vto <= nextStart + Overlap
          /\ held[x].garbled => vto > nextStart + Overlap
      BY <1>12, <1>15, <1>17
    <3> HIDE DEF vto
    <3>2. ~(vto > nextStart + Overlap)
      BY <1>0, <3>1
    <3> QED
      BY <3>1, <3>2
  <2> QED
    BY <1>19, <2>1 DEF v
<1>21. \E c \in 1..v : Cut(c)
  <2> SUFFICES ASSUME \A c \in 1..v : ~Cut(c) PROVE FALSE
    OBVIOUS
  <2>1. Spoken[v].to <= b /\ Spoken[v].from >= nextStart
    <3> DEFINE vto == Spoken[v].to
               vfrom == Spoken[v].from
    <3>1. v \in 1..v
      BY <1>11
    <3>2. ~(vfrom < nextStart /\ nextStart < vto)
      BY <3>1 DEF Cut
    <3>3. /\ vto \in Nat /\ vfrom \in Nat
          /\ vto > nextStart /\ vto <= nextStart + Overlap
      BY <1>12, <1>17
    <3> HIDE DEF vto, vfrom
    <3>4. vto <= b /\ vfrom >= nextStart
      BY <1>0, <1>9, <3>2, <3>3
    <3> QED
      BY <3>4 DEF vto, vfrom
  <2>2. In(v, r)
    BY <1>11, <2>1, GoodHearing
  <2>3. PICK y \in 1..Len(r) : r[y].word = v
    BY <2>2 DEF In
  <2>4. r[y].garbled => Spoken[r[y].word].from < nextStart \/ Spoken[r[y].word].to > b
    BY GoodSpans
  <2>5. ~r[y].garbled
    <3> DEFINE vto == Spoken[v].to
               vfrom == Spoken[v].from
    <3>1. /\ r[y].garbled => vfrom < nextStart \/ vto > b
          /\ vto <= b /\ vfrom >= nextStart /\ vto \in Nat /\ vfrom \in Nat
      BY <1>12, <2>1, <2>3, <2>4
    <3> HIDE DEF vto, vfrom
    <3> QED
      BY <1>0, <3>1
  <2>6. y \in Seams(held, r)
    BY <1>13, <1>20, <2>3, <2>5, SeamExists
  <2> QED
    BY <2>6
<1>22. PICK m \in Nat : nextStart = m * Step /\ m <= nextStart
  BY DEF ClockOK
<1>23. m \in 1..MaxAudio
  <2>1. m # 0
    <3>1. 0 * Step = 0
      BY Geometry
    <3> QED
      BY <1>5, <1>22, <3>1
  <2>2. nextStart <= MaxAudio /\ MaxAudio \in Nat
    BY <1>5, Geometry DEF ClockOK
  <2> QED
    BY <1>0, <1>22, <2>1, <2>2
<1>24. /\ \E c \in 1..(i - 1) : Spoken[c].from < m * Step /\ m * Step < Spoken[c].to
       /\ Spoken[i].from <= m * Step + Overlap
       /\ m * Step + Overlap < Spoken[i].to
  <2>1. \E c \in 1..(i - 1) : Cut(c)
    BY <1>18, <1>21
  <2>2. Spoken[i].from <= nextStart + Overlap /\ nextStart + Overlap < Spoken[i].to
    BY <1>0, <1>6, <1>7, <1>17
  <2> QED
    BY <1>22, <2>1, <2>2 DEF Cut
<1>25. i > 1 /\ Spoken[i].from = Spoken[i - 1].to
  BY <1>7, <1>11, <1>17, <1>18
<1> QED
  BY <1>13, <1>23, <1>24, <1>25 DEF UnderCommits

\* Good decodes leave no other word out.
LEMMA JoinLeavesNoGap ==
    ASSUME ClockOK, WordsOK, Ordered, Placed, Complete, HeldSpan,
           ~Rough, ~Closed, NEW b, NEW h, NEW drag, Window(b, h, drag),
           NEW j \in 1..(Len(Heard(b, h, drag)) + 1),
           JoinsAt(held, Heard(b, h, drag), j),
           NEW i \in 1..Len(Spoken),
           \/ Spoken[i].to <= b
           \/ \E k \in 1..Len(Committed \o From(Heard(b, h, drag), j)) :
                 i <= (Committed \o From(Heard(b, h, drag), j))[k].word
    PROVE  \/ In(i, Committed \o From(Heard(b, h, drag), j))
           \/ UnderCommits(i)
<1> DEFINE r == Heard(b, h, drag)
           t == From(r, j)
<1>0. b \in Nat /\ nextStart \in Nat
  BY WindowTells
<1>1. r \in Words /\ Len(r) \in Nat /\ j \in 1..(Len(r) + 1)
  BY WindowTells, LenProperties DEF Tells, Words
<1>2. held \in Words /\ Committed \in Words /\ Done \in Words
  BY ListsAreWords DEF WordsOK
<1>3. /\ t \in Words /\ Len(t) = Len(r) + 1 - j
      /\ \A k \in 1..(Len(r) + 1 - j) :
            t[k] = r[j + k - 1] /\ j + k - 1 \in 1..Len(r)
      /\ \A k \in 1..Len(r) : k >= j =>
            k - j + 1 \in 1..Len(t) /\ t[k - j + 1] = r[k]
  BY <1>1, FromIs
<1>4. \A k \in 1..Len(t) : \E l \in 1..Len(r) : t[k] = r[l]
  BY <1>3
<1>5. \A k \in 1..Len(r) : k >= j => In(r[k].word, t)
  BY <1>3 DEF In
<1>6. In(i, Committed \o t) <=> In(i, Committed) \/ In(i, t)
  BY <1>2, <1>3, InConcat
<1> SUFFICES ASSUME ~In(i, Committed), ~In(i, t), ~UnderCommits(i) PROVE FALSE
  BY <1>6
<1>7. /\ Spoken[i].from >= nextStart
      /\ \A k \in 1..Len(Committed) : Committed[k].word < i
  BY NotYetReached
<1>8. Spoken[i].from \in Nat /\ Spoken[i].to \in Nat /\ i \in Nat
  BY SpokenFields
<1>9. Spoken[i].to <= b
  <2> SUFFICES ASSUME NEW k \in 1..Len(Committed \o t), i <= (Committed \o t)[k].word
               PROVE  Spoken[i].to <= b
    OBVIOUS
  <2>1. \/ \E l \in 1..Len(Committed) : (Committed \o t)[k] = Committed[l]
        \/ \E l \in 1..Len(t) : (Committed \o t)[k] = t[l]
    BY <1>2, <1>3, ConcatElements
  <2>2. ASSUME NEW l \in 1..Len(Committed), (Committed \o t)[k] = Committed[l]
        PROVE  FALSE
    <3>1. Committed[l].word < i /\ i <= Committed[l].word
      BY <1>7, <2>2
    <3>2. Committed[l].word \in Nat
      BY <1>2, WordFields, SpokenFields
    <3> HIDE DEF t
    <3> QED
      BY <1>8, <3>1, <3>2
  <2>3. ASSUME NEW l \in 1..Len(t), (Committed \o t)[k] = t[l]
        PROVE  Spoken[i].to <= b
    <3> DEFINE w == t[l].word
    <3>1. i <= w
      BY <2>3
    <3>2. w # i
      BY DEF In
    <3>3. PICK z \in 1..Len(r) : t[l] = r[z]
      BY <1>4
    <3>4. w \in 1..Len(Spoken) /\ Spoken[w].from < b
      BY <3>3, HeardInside
    <3> HIDE DEF w
    <3>5. i < w /\ Spoken[w].from \in Nat
      BY <1>8, <3>1, <3>2, <3>4, SpokenFields
    <3>6. Spoken[i].to <= Spoken[w].from
      BY <3>4, <3>5, SpokenInOrder
    <3> DEFINE wfrom == Spoken[w].from
               ito == Spoken[i].to
    <3>7. ito <= wfrom /\ wfrom < b /\ wfrom \in Nat /\ ito \in Nat
      BY <1>8, <3>4, <3>5, <3>6
    <3> HIDE DEF wfrom, ito
    <3>8. ito <= b
      BY <1>0, <3>7
    <3> QED
      BY <3>8 DEF ito
  <2> QED
    BY <2>1, <2>2, <2>3
<1>10. In(i, r)
  BY <1>7, <1>9, GoodHearing
<1>11. PICK k \in 1..Len(r) : r[k].word = i
  BY <1>10 DEF In
<1>12. ~(k >= j)
  BY <1>5, <1>11
<1>13. j # 1 /\ k \in 1..(j - 1)
  BY <1>1, <1>12
<1>14. held # <<>>
  BY <1>13 DEF JoinsAt
<1>15. ~In(i, held)
  BY <1>2, InConcat DEF Committed
<1>16. j - 1 \notin Seams(held, r)
  <2> SUFFICES ASSUME j - 1 \in Seams(held, r) PROVE FALSE
    OBVIOUS
  <2>1. /\ j - 1 \in 1..Lesser(Len(held), Len(r))
        /\ SameText(held[Len(held) - (j - 1) + k], r[k])
    BY <1>13 DEF Seams
  <2>2. Len(held) \in Nat
    BY <1>2, LenProperties DEF Words
  <2>3. Len(held) - (j - 1) + k \in 1..Len(held)
    BY <1>1, <1>13, <2>1, <2>2 DEF Lesser
  <2>4. held[Len(held) - (j - 1) + k].word = i
    BY <1>11, <2>1 DEF SameText
  <2> QED
    BY <1>15, <2>3, <2>4 DEF In
<1>17. Seams(held, r) = {} /\ k \notin Fresh(held, r)
  BY <1>13, <1>14, <1>16 DEF JoinsAt
<1> QED
  BY <1>9, <1>11, <1>14, <1>17, TouchesACutWord

LEMMA FromElements ==
    ASSUME NEW s \in Words, NEW n \in 1..(Len(s) + 1)
    PROVE  \A l \in 1..Len(From(s, n)) :
               \E z \in 1..Len(s) : From(s, n)[l] = s[z]
<1> DEFINE t == From(s, n)
<1>1. /\ Len(t) = Len(s) + 1 - n
      /\ \A k \in 1..(Len(s) + 1 - n) : t[k] = s[n + k - 1] /\ n + k - 1 \in 1..Len(s)
  BY FromIs
<1> HIDE DEF t
<1>2. \A l \in 1..Len(t) : \E z \in 1..Len(s) : t[l] = s[z]
  BY <1>1
<1> QED
  BY <1>2 DEF t

\* What the pending words and a whole window make, read from the next window.
LEMMA WindowReads ==
    ASSUME ClockOK, WordsOK, Placed, ~Closed,
           NEW h, NEW drag, Window(nextStart + ChunkLen, h, drag),
           NEW j \in 1..(Len(Heard(nextStart + ChunkLen, h, drag)) + 1),
           NEW k \in 1..Len(held \o From(Heard(nextStart + ChunkLen, h, drag), j))
    PROVE  Reads((held \o From(Heard(nextStart + ChunkLen, h, drag), j))[k],
                 nextStart + Step)
<1> DEFINE b == nextStart + ChunkLen
           r == Heard(b, h, drag)
           t == From(r, j)
           m == held \o t
<1>0. nextStart \in Nat /\ b \in Nat /\ drag \in Nat /\ b = nextStart + Step + Overlap
  BY WindowTells, Geometry
<1>1. /\ r \in Words /\ j \in 1..(Len(r) + 1)
      /\ Tells(r, nextStart, b, h, decoder # "coarse", drag)
  BY WindowTells DEF Tells
<1>2. t \in Words /\ \A l \in 1..Len(t) : \E z \in 1..Len(r) : t[l] = r[z]
  <2> HIDE DEF r
  <2> QED
    BY <1>1, FromIs, FromElements
<1>3. held \in Words
  BY DEF WordsOK
<1>4. \/ \E l \in 1..Len(held) : m[k] = held[l]
      \/ \E l \in 1..Len(t) : m[k] = t[l]
  BY <1>2, <1>3, ConcatElements
<1>5. ASSUME NEW l \in 1..Len(held) PROVE Reads(held[l], nextStart + Step)
  <2>1. held[l] \in Word /\ Reads(held[l], nextStart)
    BY <1>3, WordFields DEF Placed
  <2> QED
    BY <1>0, <2>1, ReadsLater
<1>6. ASSUME NEW z \in 1..Len(r) PROVE Reads(r[z], nextStart + Step)
  <2> DEFINE i == r[z].word
             wto == r[z].to
             sfrom == Spoken[i].from
             sto == Spoken[i].to
  <2>1. i \in 1..Len(Spoken) /\ sfrom < b
    BY HeardInside
  <2>2. sfrom \in Nat /\ sto \in Nat /\ sfrom < sto
    BY <2>1, SpokenFields, SpokenInOrder
  <2>3. wto \in Nat
    BY <1>1, WordFields
  <2>4. /\ decoder # "coarse" => Lesser(b, sto) <= wto
        /\ ~(decoder # "coarse") => wto = b
    BY <1>1 DEF Tells
  <2>5. Reads(r[z], nextStart + Step) <=>
           /\ sfrom < nextStart + Step + Overlap /\ sfrom < wto
           /\ sto <= wto \/ sto <= nextStart + Step
              \/ nextStart + Step + Overlap <= wto
    BY DEF Reads
  <2> HIDE DEF i, wto, sfrom, sto, r, b
  <2>6. Lesser(b, sto) <= wto
    BY <1>0, <2>2, <2>3, <2>4 DEF Lesser
  <2>7. sfrom < wto /\ (sto <= wto \/ b <= wto)
    BY <1>0, <2>1, <2>2, <2>3, <2>6 DEF Lesser
  <2> QED
    BY <1>0, <2>1, <2>5, <2>7
<1> QED
  BY <1>2, <1>4, <1>5, <1>6

\* What ends by the horizon is over when the next window starts.
LEMMA CutIsPlaced ==
    ASSUME ClockOK, WordsOK, Placed, ~Closed,
           NEW h, NEW drag, Window(nextStart + ChunkLen, h, drag),
           NEW j \in 1..(Len(Heard(nextStart + ChunkLen, h, drag)) + 1),
           NEW n, CutAt(held \o From(Heard(nextStart + ChunkLen, h, drag), j),
                        nextStart + Step, n)
    PROVE  /\ \A k \in 1..Len(Done') :
                 Spoken[Done'[k].word].to <= nextStart + Step
           /\ \A k \in 1..Len(held') : Reads(held'[k], nextStart + Step)
<1> DEFINE r == Heard(nextStart + ChunkLen, h, drag)
           m == held \o From(r, j)
           a == SubSeq(m, 1, n)
           s == nextStart + Step
<1>0. nextStart \in Nat /\ s \in Nat /\ Step \in Nat /\ Overlap \in Nat
  BY Geometry DEF ClockOK
<1>1. \A k \in 1..Len(m) : Reads(m[k], s)
  BY WindowReads
<1>2. m \in Words
  <2>1. r \in Words /\ j \in 1..(Len(r) + 1)
    BY WindowTells DEF Tells
  <2>2. From(r, j) \in Words /\ held \in Words
    BY <2>1, FromIs DEF WordsOK
  <2> QED
    BY <2>2, ConcatProperties DEF Words
<1>3. /\ n \in 0..Len(m) /\ \A k \in 1..n : m[k].to <= s
      /\ Done' = Done \o a /\ held' = From(m, n + 1)
  BY DEF CutAt
<1>4. Len(m) \in Nat
  BY <1>2, LenProperties DEF Words
<1> HIDE DEF m, s
<1>5. a \in Words /\ \A k \in 1..Len(a) : k \in 1..n /\ a[k] = m[k]
  <2>1. \A i \in 1..n : m[i] \in Word
    BY <1>2, <1>3, <1>4, ElementOfSeq DEF Words
  <2> QED
    BY <1>3, <2>1, SubSeqProperties DEF Words
<1> HIDE DEF a
<1>6. ASSUME NEW k \in 1..n PROVE Spoken[m[k].word].to <= s
  <2> DEFINE i == m[k].word
             wto == m[k].to
             sfrom == Spoken[i].from
             sto == Spoken[i].to
  <2>1. k \in 1..Len(m)
    BY <1>3, <1>4
  <2>2. i \in 1..Len(Spoken) /\ wto \in Nat
    BY <1>2, <2>1, WordFields
  <2>3. sfrom \in Nat /\ sto \in Nat /\ sfrom < sto /\ sto <= sfrom + Overlap
    BY <2>2, SpokenFields, SpokenInOrder
  <2>4. wto <= s /\ (sto <= wto \/ sto <= s \/ s + Overlap <= wto)
    BY <1>1, <1>3, <2>1 DEF Reads
  <2> HIDE DEF i, wto, sfrom, sto
  <2>5. sto <= s
    BY <1>0, <2>2, <2>3, <2>4
  <2> QED
    BY <2>5 DEF i, sto
<1>7. ASSUME NEW k \in 1..Len(Done') PROVE Spoken[Done'[k].word].to <= s
  <2>1. Done \in Words
    BY ListsAreWords
  <2>2. \/ \E l \in 1..Len(Done) : Done'[k] = Done[l]
        \/ \E l \in 1..Len(a) : Done'[k] = a[l]
    BY <1>3, <1>5, <2>1, ConcatElements
  <2>3. ASSUME NEW l \in 1..Len(Done) PROVE Spoken[Done[l].word].to <= s
    <3> DEFINE sto == Spoken[Done[l].word].to
    <3>1. sto <= nextStart /\ sto \in Nat
      BY <2>1, WordFields, SpokenFields DEF Placed
    <3> HIDE DEF sto
    <3>2. sto <= s
      BY <1>0, <3>1 DEF s
    <3> QED
      BY <3>2 DEF sto
  <2> QED
    BY <1>5, <1>6, <2>2, <2>3
<1>8. ASSUME NEW k \in 1..Len(held') PROVE Reads(held'[k], s)
  <2>1. n + 1 \in 1..(Len(m) + 1)
    BY <1>3, <1>4
  <2>2. \A l \in 1..Len(held') : \E z \in 1..Len(m) : held'[l] = m[z]
    BY <1>2, <1>3, <2>1, FromElements
  <2> QED
    BY <1>1, <2>2
<1> QED
  BY <1>7, <1>8 DEF s

\* A good decoder leaves pending words of this window only: the older ones end
\* by the horizon.
LEMMA CutSpans ==
    ASSUME ClockOK, WordsOK, Placed, HeldSpan, ~Rough, ~Closed,
           NEW h, NEW drag, Window(nextStart + ChunkLen, h, drag),
           NEW j \in 1..(Len(Heard(nextStart + ChunkLen, h, drag)) + 1),
           NEW n, CutAt(held \o From(Heard(nextStart + ChunkLen, h, drag), j),
                        nextStart + Step, n),
           NEW k \in 1..Len(held')
    PROVE  /\ held'[k].to > nextStart + Step
           /\ held'[k].precise = (decoder = "aligned")
           /\ decoder = "aligned" /\ held'[k].garbled =>
                 Spoken[held'[k].word].to > nextStart + Step + Overlap
           /\ held'[k].to =
                 IF held'[k].precise
                 THEN Lesser(nextStart + Step + Overlap, Spoken[held'[k].word].to)
                 ELSE nextStart + Step + Overlap
<1> DEFINE b == nextStart + ChunkLen
           r == Heard(b, h, drag)
           t == From(r, j)
           m == held \o t
           s == nextStart + Step
<1>0. /\ nextStart \in Nat /\ s \in Nat /\ Step \in Nat /\ Overlap \in Nat
      /\ b \in Nat /\ b = s + Overlap
  BY Geometry DEF ClockOK
<1>1. r \in Words /\ j \in 1..(Len(r) + 1) /\ Len(r) \in Nat /\ Increasing(r)
  BY WindowTells, LenProperties DEF Tells, Words
<1>2. /\ t \in Words /\ Len(t) = Len(r) + 1 - j /\ Len(t) \in Nat
      /\ \A l \in 1..(Len(r) + 1 - j) : t[l] = r[j + l - 1] /\ j + l - 1 \in 1..Len(r)
  BY <1>1, FromIs
<1>3. held \in Words /\ Len(held) \in Nat
  BY LenProperties DEF WordsOK, Words
<1>4. /\ m \in Words /\ Len(m) = Len(held) + Len(t)
      /\ \A l \in 1..(Len(held) + Len(t)) :
            m[l] = IF l <= Len(held) THEN held[l] ELSE t[l - Len(held)]
  BY <1>2, <1>3, ConcatProperties DEF Words
<1>5. /\ n \in 0..Len(m) /\ held' = From(m, n + 1)
      /\ n < Len(m) => m[n + 1].to > s
  BY DEF CutAt
<1>6. \A l \in 1..Len(held) : Lesser(nextStart + Overlap, Spoken[held[l].word].to) = held[l].to
                              \/ held[l].to = nextStart + Overlap
  BY DEF HeldSpan
<1>7. \A l \in 1..Len(r) :
          /\ r[l].precise = (decoder = "aligned")
          /\ r[l].garbled => Spoken[r[l].word].from < nextStart \/ Spoken[r[l].word].to > b
          /\ r[l].precise =>
                /\ Lesser(b, Spoken[r[l].word].to) <= r[l].to
                /\ r[l].to <= Lesser(b, Spoken[r[l].word].to + 1)
                /\ ~r[l].garbled => r[l].to = Lesser(b, Spoken[r[l].word].to)
          /\ ~r[l].precise => r[l].to = b
  BY GoodSpans
<1> HIDE DEF r, t, m, s, b
<1>8. Len(held') = Len(m) - n /\ n + k \in 1..Len(m) /\ held'[k] = m[n + k]
      /\ n < Len(m) /\ n + 1 <= n + k /\ n + 1 \in 1..Len(m) /\ n \in Nat
  <2>1. Len(m) \in Nat /\ n + 1 \in 1..(Len(m) + 1)
    BY <1>2, <1>3, <1>4, <1>5
  <2>2. /\ Len(held') = Len(m) + 1 - (n + 1)
        /\ \A l \in 1..(Len(m) + 1 - (n + 1)) : held'[l] = m[(n + 1) + l - 1]
    BY <1>4, <1>5, <2>1, FromIs
  <2>3. Len(held') = Len(m) - n /\ k \in 1..(Len(m) - n)
        /\ k \in 1..(Len(m) + 1 - (n + 1))
    BY <1>5, <2>1, <2>2
  <2>4. (n + 1) + k - 1 = n + k /\ n + k \in 1..Len(m) /\ n < Len(m)
        /\ n + 1 <= n + k /\ n + 1 \in 1..Len(m) /\ n \in Nat
    BY <1>5, <2>1, <2>3
  <2> QED
    BY <2>2, <2>3, <2>4
<1>9. ASSUME NEW l \in 1..Len(held) PROVE held[l].to <= s
  <2> DEFINE i == held[l].word
             hto == held[l].to
             sfrom == Spoken[i].from
             sto == Spoken[i].to
  <2>1. i \in 1..Len(Spoken) /\ hto \in Nat
    BY <1>3, WordFields
  <2>2. /\ sfrom \in Nat /\ sto \in Nat /\ sfrom < sto
        /\ sto + Overlap <= sfrom + Step + 1
    BY <2>1, SpokenFields, SpokenInOrder
  <2>3. Lesser(nextStart + Overlap, sto) = hto \/ hto = nextStart + Overlap
    BY <1>6
  <2> HIDE DEF i, hto, sfrom, sto
  <2>4. hto <= nextStart + Overlap
    BY <1>0, <2>1, <2>2, <2>3 DEF Lesser
  <2>5. hto <= s
    BY <1>0, <2>1, <2>2, <2>4 DEF s
  <2> QED
    BY <2>5 DEF hto
<1>10. n >= Len(held)
  <2> SUFFICES ASSUME ~(n >= Len(held)) PROVE FALSE
    OBVIOUS
  <2>1. n + 1 \in 1..Len(held) /\ n + 1 \in 1..(Len(held) + Len(t))
    BY <1>2, <1>3, <1>8
  <2>2. m[n + 1] = held[n + 1]
    BY <1>4, <2>1
  <2>3. held[n + 1].to > s /\ held[n + 1].to <= s
    BY <1>5, <1>8, <1>9, <2>1, <2>2
  <2>4. held[n + 1].to \in Nat
    BY <1>3, <2>1, WordFields
  <2> QED
    BY <1>0, <2>3, <2>4
<1> DEFINE x == j + ((n + 1) - Len(held)) - 1
           y == j + ((n + k) - Len(held)) - 1
<1>11. /\ x \in 1..Len(r) /\ y \in 1..Len(r) /\ x <= y
       /\ m[n + 1] = r[x] /\ m[n + k] = r[y]
  <2>1. /\ (n + 1) - Len(held) \in 1..Len(t) /\ (n + k) - Len(held) \in 1..Len(t)
        /\ n + 1 \in 1..(Len(held) + Len(t)) /\ ~(n + 1 <= Len(held))
        /\ n + k \in 1..(Len(held) + Len(t)) /\ ~(n + k <= Len(held))
    <3> DEFINE c == Len(held)
               d == Len(t)
               z == n + k
    <3>1. /\ c \in Nat /\ d \in Nat /\ n \in Nat /\ z \in 1..(c + d)
          /\ n + 1 \in 1..(c + d) /\ n + 1 <= z /\ n >= c
      BY <1>2, <1>3, <1>4, <1>8, <1>10
    <3> HIDE DEF c, d, x, y, z
    <3>2. /\ (n + 1) - c \in 1..d /\ z - c \in 1..d
          /\ n + 1 \in 1..(c + d) /\ ~(n + 1 <= c)
          /\ z \in 1..(c + d) /\ ~(z <= c)
      BY <3>1
    <3> QED
      BY <3>2 DEF c, d, z
  <2>2. m[n + 1] = t[(n + 1) - Len(held)] /\ m[n + k] = t[(n + k) - Len(held)]
    <3> HIDE DEF x, y
    <3> QED
      BY <1>4, <2>1
  <2>3. /\ t[(n + 1) - Len(held)] = r[x] /\ x \in 1..Len(r)
        /\ t[(n + k) - Len(held)] = r[y] /\ y \in 1..Len(r)
    BY <1>2, <2>1
  <2>4. x <= y
    BY <1>1, <1>3, <1>8
  <2> QED
    BY <2>2, <2>3, <2>4
<1> HIDE DEF x, y
<1>12. held'[k] = r[y] /\ r[x].to > s
  BY <1>5, <1>8, <1>11
<1>13. ASSUME NEW z \in 1..Len(r), r[z].to > s, decoder = "aligned"
       PROVE  /\ r[z].to = Lesser(b, Spoken[r[z].word].to)
              /\ r[z].garbled => Spoken[r[z].word].to > b
              /\ Spoken[r[z].word].to > s
  <2> DEFINE w == r[z].word
             wfrom == Spoken[w].from
             wto == Spoken[w].to
             end == r[z].to
  <2>1. w \in 1..Len(Spoken) /\ end \in Nat
    BY <1>1, WordFields
  <2>2. /\ wfrom \in Nat /\ wto \in Nat /\ wfrom < wto
        /\ wto <= wfrom + Overlap /\ wto + Overlap <= wfrom + Step + 1
    BY <2>1, SpokenFields, SpokenInOrder
  <2>3. /\ r[z].garbled => wfrom < nextStart \/ wto > b
        /\ Lesser(b, wto) <= end /\ end <= Lesser(b, wto + 1)
        /\ ~r[z].garbled => end = Lesser(b, wto)
        /\ end > s
    BY <1>7, <1>13
  <2>4. s = nextStart + Step
    BY DEF s
  <2> HIDE DEF w, wfrom, wto, end
  <2>5. end <= wto + 1
    BY <1>0, <2>1, <2>2, <2>3 DEF Lesser
  <2>6. ~(wfrom < nextStart)
    BY <1>0, <2>1, <2>2, <2>3, <2>4, <2>5
  <2>7. r[z].garbled => wto > b
    BY <2>3, <2>6
  <2>8. end = Lesser(b, wto)
    BY <1>0, <2>1, <2>2, <2>3, <2>7 DEF Lesser
  <2>9. wto > s
    BY <1>0, <2>2, <2>3, <2>8 DEF Lesser
  <2> QED
    BY <2>7, <2>8, <2>9 DEF w, wto, end
<1>14. r[y].to > s
  <2> DEFINE v == r[x].word
             w == r[y].word
             vto == Spoken[v].to
             wto == Spoken[w].to
             wfrom == Spoken[w].from
             end == r[y].to
  <2>1. v \in 1..Len(Spoken) /\ w \in 1..Len(Spoken) /\ end \in Nat
    BY <1>1, <1>11, WordFields
  <2>2. x < y => v < w
    BY <1>1, <1>11 DEF Increasing
  <2>3. x = y \/ x < y
    BY <1>1, <1>11
  <2>4. /\ vto \in Nat /\ wto \in Nat /\ wfrom \in Nat
        /\ wfrom < wto /\ wto <= wfrom + Overlap
        /\ v < w => vto <= wfrom
    BY <2>1, SpokenFields, SpokenInOrder
  <2>5. decoder = "aligned" => vto > s /\ Lesser(b, wto) <= end
    BY <1>7, <1>11, <1>12, <1>13
  <2>6. decoder # "aligned" => end = b
    BY <1>7, <1>11
  <2>7. x = y => vto = wto
    OBVIOUS
  <2> HIDE DEF v, w, vto, wto, wfrom, end
  <2>8. vto <= wto /\ Overlap > 0
    BY <1>0, <2>2, <2>3, <2>4, <2>7
  <2>9. end > s
    BY <1>0, <2>1, <2>4, <2>5, <2>6, <2>8 DEF Lesser
  <2> QED
    BY <2>9 DEF end
<1> QED
  BY <1>0, <1>7, <1>11, <1>12, <1>13, <1>14 DEF s

-----------------------------------------------------------------------------
(* The steps *)

\* One more window.
LEMMA ClockTicks ==
    ASSUME ClockOK, nextStart' = nextStart + Step, nextStart' + Overlap <= buffered,
           UNCHANGED <<mic, input, buffered>>
    PROVE  ClockOK'
<1>1. nextStart \in Nat /\ Step \in Nat /\ Step > 0
  BY Geometry DEF ClockOK
<1>2. PICK n \in Nat : nextStart = n * Step /\ n <= nextStart
  BY DEF ClockOK
<1>3. (n + 1) * Step = n * Step + Step
  BY <1>1
<1>4. n + 1 \in Nat /\ nextStart' = (n + 1) * Step
  BY <1>2, <1>3
<1>5. n + 1 <= nextStart' /\ nextStart' \in Nat
  BY <1>1, <1>2
<1> QED
  BY <1>4, <1>5 DEF ClockOK

LEMMA ReadyWindow ==
    ASSUME ClockOK, Ready,
           NEW h \in Hearings(nextStart, nextStart + ChunkLen), NEW drag \in {0, 1}
    PROVE  Window(nextStart + ChunkLen, h, drag)
<1>1. nextStart \in Nat /\ ChunkLen \in Nat /\ Overlap \in Nat /\ Overlap < ChunkLen
  BY CaptureAssumption DEF ClockOK
<1>2. /\ nextStart + ChunkLen \in Nat /\ nextStart < nextStart + ChunkLen
      /\ nextStart + Overlap <= nextStart + ChunkLen
  BY <1>1
<1> QED
  BY <1>2 DEF Window

LEMMA SameUnderCommits ==
    ASSUME UNCHANGED decoder, NEW i
    PROVE  UnderCommits(i)' <=> UnderCommits(i)
BY DEF UnderCommits

LEMMA DecodesKeeps ==
    ASSUME CommitInv, Decodes
    PROVE  CommitInv'
<1> DEFINE b == nextStart + ChunkLen
<1>1. /\ ClockOK /\ WordsOK /\ Ordered /\ Placed /\ Complete /\ HeldSpan
  BY DEF CommitInv
<1>2. /\ ~Closed /\ ~Closed' /\ pump' # "over" /\ Rough' = Rough
      /\ nextStart' = nextStart + Step
      /\ UNCHANGED <<mic, input, buffered, transcript, decoder>>
  BY DEF Decodes, Closed, Rough
<1>3. PICK h \in Hearings(nextStart, b), drag \in {0, 1} :
          Ingest(Heard(b, h, drag), nextStart + Step)
  BY DEF Decodes, DecodeWindow, Heard, Step
<1>4. Window(b, h, drag)
  BY <1>1, <1>3, ReadyWindow DEF Decodes
<1>5. nextStart \in Nat /\ Step \in Nat /\ Step > 0 /\ Overlap \in Nat
      /\ nextStart + Step \in Nat /\ b = nextStart + Step + Overlap
  BY <1>1, Geometry DEF ClockOK
<1>6. Heard(b, h, drag) \in Words
  BY <1>1, <1>4, WindowTells DEF Tells
<1>7. /\ out' \in Words /\ held' \in Words
      /\ \E j \in 1..(Len(Heard(b, h, drag)) + 1) :
            /\ JoinsAt(held, Heard(b, h, drag), j)
            /\ Committed' = Committed \o From(Heard(b, h, drag), j)
            /\ \E n : CutAt(held \o From(Heard(b, h, drag), j), nextStart + Step, n)
  BY <1>1, <1>2, <1>3, <1>5, <1>6, IngestGrows DEF WordsOK
<1>8. PICK j \in 1..(Len(Heard(b, h, drag)) + 1) :
          /\ JoinsAt(held, Heard(b, h, drag), j)
          /\ Committed' = Committed \o From(Heard(b, h, drag), j)
          /\ \E n : CutAt(held \o From(Heard(b, h, drag), j), nextStart + Step, n)
  BY <1>7
<1>9. PICK n : CutAt(held \o From(Heard(b, h, drag), j), nextStart + Step, n)
  BY <1>8
<1>10. ClockOK'
  <2>1. nextStart' + Overlap <= buffered
    BY <1>2, <1>5 DEF Decodes, Ready
  <2> QED
    BY <1>1, <1>2, <2>1, ClockTicks
<1>11. WordsOK'
  BY <1>1, <1>2, <1>7 DEF WordsOK
<1>12. Ordered'
  <2>1. decoder # "coarse" => Increasing(Committed \o From(Heard(b, h, drag), j))
    BY <1>1, <1>2, <1>4, <1>8, JoinKeepsOrder
  <2> QED
    BY <1>2, <1>8, <2>1 DEF Ordered, Increasing
<1>13. Placed'
  BY <1>1, <1>2, <1>4, <1>9, CutIsPlaced DEF Placed
<1>14. Complete'
  <2> SUFFICES ASSUME ~Rough, NEW i \in 1..Len(Spoken), Reached(i)'
               PROVE  (In(i, Committed) \/ UnderCommits(i))'
    BY <1>2 DEF Complete
  <2>1. HeardTo' = b
    BY <1>2, <1>5 DEF HeardTo
  <2>2. \/ Spoken[i].to <= b
        \/ \E k \in 1..Len(Committed \o From(Heard(b, h, drag), j)) :
              i <= (Committed \o From(Heard(b, h, drag), j))[k].word
    BY <1>8, <2>1 DEF Reached
  <2>3. In(i, Committed \o From(Heard(b, h, drag), j)) \/ UnderCommits(i)
    BY <1>1, <1>2, <1>4, <1>8, <2>2, JoinLeavesNoGap
  <2>4. In(i, Committed') \/ UnderCommits(i)
    BY <1>8, <2>3
  <2> QED
    BY <1>2, <2>4, SameUnderCommits DEF In
<1>15. HeldSpan'
  <2> SUFFICES ASSUME ~Rough, NEW k \in 1..Len(held')
               PROVE  /\ nextStart' > 0 /\ held'[k].to > nextStart'
                      /\ held'[k].precise = (decoder' = "aligned")
                      /\ decoder' = "aligned" /\ held'[k].garbled =>
                            Spoken[held'[k].word].to > nextStart' + Overlap
                      /\ held'[k].to =
                            IF held'[k].precise
                            THEN Lesser(nextStart' + Overlap, Spoken[held'[k].word].to)
                            ELSE nextStart' + Overlap
    BY <1>2 DEF HeldSpan, Lesser
  <2>1. /\ held'[k].to > nextStart + Step
        /\ held'[k].precise = (decoder = "aligned")
        /\ decoder = "aligned" /\ held'[k].garbled =>
              Spoken[held'[k].word].to > nextStart + Step + Overlap
        /\ held'[k].to =
              IF held'[k].precise
              THEN Lesser(nextStart + Step + Overlap, Spoken[held'[k].word].to)
              ELSE nextStart + Step + Overlap
    BY <1>1, <1>2, <1>4, <1>9, CutSpans
  <2>2. nextStart' > 0
    BY <1>2, <1>5
  <2> QED
    BY <1>2, <2>1, <2>2
<1>16. Flushed'
  BY <1>2 DEF Flushed
<1> QED
  BY <1>10, <1>11, <1>12, <1>13, <1>14, <1>15, <1>16 DEF CommitInv

\* The steps that decode nothing and move no word.
LEMMA QuietKeeps ==
    ASSUME CommitInv, ClockOK', UNCHANGED <<nextStart, heardVars>>,
           Closed' = Closed, (pump = "over")' = (pump = "over"),
           Closed => buffered' = buffered
    PROVE  CommitInv'
<1>1. UNCHANGED <<nextStart, held, out, transcript, decoder>>
  BY DEF heardVars
<1>2. WordsOK' /\ Ordered'
  BY <1>1 DEF CommitInv, WordsOK, Ordered, Committed, Done
<1>3. Placed'
  BY <1>1 DEF CommitInv, Placed, Done
<1>4. HeldSpan'
  BY <1>1 DEF CommitInv, HeldSpan, Rough
<1>5. Flushed'
  BY <1>1 DEF CommitInv, Flushed, Rough
<1>6. Complete'
  <2>1. Committed' = Committed /\ HeardTo' = HeardTo /\ Rough' = Rough
    BY <1>1 DEF Committed, Done, HeardTo, Rough
  <2> SUFFICES ASSUME ~Rough, NEW i \in 1..Len(Spoken), Reached(i)'
               PROVE  (In(i, Committed) \/ UnderCommits(i))'
    BY <2>1 DEF Complete
  <2>2. Reached(i)
    BY <2>1 DEF Reached
  <2>3. In(i, Committed) \/ UnderCommits(i)
    BY <2>2 DEF CommitInv, Complete
  <2> QED
    BY <1>1, <2>1, <2>3, SameUnderCommits DEF In
<1> QED
  BY <1>2, <1>3, <1>4, <1>5, <1>6 DEF CommitInv

\* With no horizon every word is settled.
LEMMA AllSettled ==
    ASSUME NEW s \in Words, NEW horizon \in Nat, NEW n, CutAt(s, horizon, n),
           \A k \in 1..Len(s) : s[k].to <= horizon
    PROVE  held' = <<>>
<1>1. Len(s) \in Nat
  BY LenProperties DEF Words
<1>2. n = Len(s)
  <2> SUFFICES ASSUME n # Len(s) PROVE FALSE
    OBVIOUS
  <2>1. n + 1 \in 1..Len(s) /\ s[n + 1].to > horizon
    BY <1>1 DEF CutAt
  <2>2. s[n + 1].to <= horizon /\ s[n + 1].to \in Nat
    BY <2>1, WordFields
  <2> QED
    BY <2>1, <2>2
<1>3. held' = From(s, Len(s) + 1)
  BY <1>2 DEF CutAt
<1> QED
  BY <1>1, <1>3, SubSeqEmpty DEF From

\* The short last window leaves nothing pending.
LEMMA LastWindowSettles ==
    ASSUME ClockOK, WordsOK, HeldSpan, ~Rough, ~Closed, nextStart < buffered,
           NEW h, NEW drag, Window(buffered, h, drag),
           NEW j \in 1..(Len(Heard(buffered, h, drag)) + 1),
           NEW n, CutAt(held \o From(Heard(buffered, h, drag), j), MaxAudio, n)
    PROVE  held' = <<>>
<1> DEFINE r == Heard(buffered, h, drag)
           t == From(r, j)
           m == held \o t
<1>1. /\ nextStart \in Nat /\ Overlap \in Nat /\ MaxAudio \in Nat
      /\ buffered \in Nat /\ buffered <= MaxAudio
      /\ nextStart > 0 => nextStart + Overlap <= buffered
  BY Geometry DEF ClockOK
<1>2. r \in Words /\ j \in 1..(Len(r) + 1) /\ held \in Words
  BY WindowTells DEF Tells, WordsOK
<1>3. ASSUME NEW l \in 1..Len(held) PROVE held[l].to <= MaxAudio
  <2> DEFINE hto == held[l].to
             sto == Spoken[held[l].word].to
  <2>1. held[l].word \in 1..Len(Spoken) /\ hto \in Nat
    BY <1>2, WordFields
  <2>2. sto \in Nat
    BY <2>1, SpokenFields
  <2>3. /\ nextStart > 0
        /\ hto = Lesser(nextStart + Overlap, sto) \/ hto = nextStart + Overlap
    BY DEF HeldSpan
  <2> HIDE DEF hto, sto
  <2>4. hto <= MaxAudio
    BY <1>1, <2>1, <2>2, <2>3 DEF Lesser
  <2> QED
    BY <2>4 DEF hto
<1>4. ASSUME NEW l \in 1..Len(r) PROVE r[l].to <= MaxAudio
  <2> DEFINE wto == r[l].to
             sto == Spoken[r[l].word].to
  <2>1. r[l].word \in 1..Len(Spoken) /\ wto \in Nat
    BY <1>2, WordFields
  <2>2. sto \in Nat
    BY <2>1, SpokenFields
  <2>3. wto <= Lesser(buffered, sto + 1) \/ wto = buffered
    BY GoodSpans
  <2> HIDE DEF wto, sto
  <2>4. wto <= MaxAudio
    BY <1>1, <2>1, <2>2, <2>3 DEF Lesser
  <2> QED
    BY <2>4 DEF wto
<1> HIDE DEF r
<1>5. t \in Words /\ \A l \in 1..Len(t) : \E z \in 1..Len(r) : t[l] = r[z]
  BY <1>2, FromIs, FromElements
<1> HIDE DEF t
<1>6. m \in Words
  BY <1>2, <1>5, ConcatProperties DEF Words
<1>7. ASSUME NEW k \in 1..Len(m) PROVE m[k].to <= MaxAudio
  <2>1. \/ \E l \in 1..Len(held) : m[k] = held[l]
        \/ \E l \in 1..Len(t) : m[k] = t[l]
    BY <1>2, <1>5, ConcatElements
  <2> QED
    BY <1>3, <1>4, <1>5, <2>1
<1>8. CutAt(m, MaxAudio, n)
  BY DEF t, r
<1> HIDE DEF m
<1> QED
  BY <1>1, <1>6, <1>7, <1>8, AllSettled

LEMMA LastWindowKeeps ==
    ASSUME CommitInv, FlushEnds, nextStart < buffered
    PROVE  CommitInv'
<1> DEFINE b == buffered
<1>1. ClockOK /\ WordsOK /\ Ordered /\ Placed /\ Complete /\ HeldSpan
  BY DEF CommitInv
<1>2. /\ ~Closed /\ Closed' /\ pump' # "over" /\ Rough' = Rough
      /\ UNCHANGED <<mic, input, buffered, nextStart, transcript, decoder>>
  BY DEF FlushEnds, Closed, Rough
<1>3. PICK h \in Hearings(nextStart, b), drag \in {0, 1} :
          Ingest(Heard(b, h, drag), MaxAudio)
  BY DEF FlushEnds, DecodeWindow, Heard
<1>4. Window(b, h, drag)
  BY <1>1, <1>3 DEF Window, ClockOK
<1>5. MaxAudio \in Nat
  BY Geometry
<1>6. Heard(b, h, drag) \in Words
  BY <1>1, <1>4, WindowTells DEF Tells
<1>7. /\ out' \in Words /\ held' \in Words
      /\ \E j \in 1..(Len(Heard(b, h, drag)) + 1) :
            /\ JoinsAt(held, Heard(b, h, drag), j)
            /\ Committed' = Committed \o From(Heard(b, h, drag), j)
            /\ \E n : CutAt(held \o From(Heard(b, h, drag), j), MaxAudio, n)
  BY <1>1, <1>2, <1>3, <1>5, <1>6, IngestGrows DEF WordsOK
<1>8. PICK j \in 1..(Len(Heard(b, h, drag)) + 1) :
          /\ JoinsAt(held, Heard(b, h, drag), j)
          /\ Committed' = Committed \o From(Heard(b, h, drag), j)
          /\ \E n : CutAt(held \o From(Heard(b, h, drag), j), MaxAudio, n)
  BY <1>7
<1>9. PICK n : CutAt(held \o From(Heard(b, h, drag), j), MaxAudio, n)
  BY <1>8
<1>10. ClockOK' /\ WordsOK'
  BY <1>1, <1>2, <1>7 DEF ClockOK, WordsOK
<1>11. Ordered'
  <2>1. decoder # "coarse" => Increasing(Committed \o From(Heard(b, h, drag), j))
    BY <1>1, <1>2, <1>4, <1>8, JoinKeepsOrder
  <2> QED
    BY <1>2, <1>8, <2>1 DEF Ordered, Increasing
<1>12. Placed' /\ HeldSpan'
  BY <1>2 DEF Placed, HeldSpan
<1>13. Complete'
  <2> SUFFICES ASSUME ~Rough, NEW i \in 1..Len(Spoken), Reached(i)'
               PROVE  (In(i, Committed) \/ UnderCommits(i))'
    BY <1>2 DEF Complete
  <2>1. HeardTo' = b
    BY <1>2 DEF HeardTo
  <2>2. \/ Spoken[i].to <= b
        \/ \E k \in 1..Len(Committed \o From(Heard(b, h, drag), j)) :
              i <= (Committed \o From(Heard(b, h, drag), j))[k].word
    BY <1>8, <2>1 DEF Reached
  <2>3. In(i, Committed \o From(Heard(b, h, drag), j)) \/ UnderCommits(i)
    BY <1>1, <1>2, <1>4, <1>8, <2>2, JoinLeavesNoGap
  <2>4. In(i, Committed') \/ UnderCommits(i)
    BY <1>8, <2>3
  <2> QED
    BY <1>2, <2>4, SameUnderCommits DEF In
<1>14. Flushed'
  <2> SUFFICES ASSUME ~Rough PROVE held' = <<>>
    BY <1>2 DEF Flushed
  <2> QED
    BY <1>1, <1>2, <1>4, <1>9, LastWindowSettles
<1> QED
  BY <1>10, <1>11, <1>12, <1>13, <1>14 DEF CommitInv

\* When no audio is left undecoded the tail is finalized as it is.
LEMMA TailKeeps ==
    ASSUME CommitInv, FlushEnds, ~(nextStart < buffered)
    PROVE  CommitInv'
<1>1. ClockOK /\ WordsOK /\ Ordered /\ Complete
  BY DEF CommitInv
<1>2. /\ ~Closed /\ Closed' /\ pump' # "over" /\ Rough' = Rough
      /\ out' = out \o held /\ held' = <<>>
      /\ UNCHANGED <<mic, input, buffered, nextStart, transcript, decoder>>
  BY DEF FlushEnds, Closed, Rough
<1>3. Done \in Words /\ Committed \in Words /\ out' \in Words /\ held' \in Words
  BY <1>1, <1>2, ListsAreWords, ConcatProperties, EmptySeq DEF WordsOK, Words
<1>4. Committed' = Committed
  <2>1. Done' = transcript \o (out \o held)
    BY <1>2 DEF Done
  <2>2. transcript \in Words /\ out \in Words /\ held \in Words
    BY <1>1 DEF WordsOK
  <2>3. transcript \o (out \o held) = (transcript \o out) \o held
    BY ONLY <2>2, Regroup
  <2>4. Done' = Committed
    BY <2>1, <2>3 DEF Committed, Done
  <2>5. Committed' = Committed \o <<>>
    BY <1>2, <2>4 DEF Committed
  <2> QED
    BY <1>3, <2>5, ConcatEmptySeq DEF Words
<1>5. ClockOK' /\ WordsOK' /\ Ordered'
  BY <1>1, <1>2, <1>3, <1>4 DEF ClockOK, WordsOK, Ordered
<1>6. Placed' /\ HeldSpan' /\ Flushed'
  BY <1>2 DEF Placed, HeldSpan, Flushed
<1>7. Complete'
  <2> SUFFICES ASSUME ~Rough, NEW i \in 1..Len(Spoken), Reached(i)'
               PROVE  (In(i, Committed) \/ UnderCommits(i))'
    BY <1>2 DEF Complete
  <2>1. nextStart \in Nat /\ buffered \in Nat /\ Overlap \in Nat
    BY <1>1, Geometry DEF ClockOK
  <2>2. /\ Spoken[i].from \in Nat /\ Spoken[i].to \in Nat
        /\ Spoken[i].from < Spoken[i].to
        /\ Spoken[i].to <= Spoken[i].from + Overlap
    BY SpokenFields, SpokenInOrder
  <2>3. nextStart = 0
    <3>1. nextStart = 0 \/ nextStart + Overlap <= buffered
      BY <1>1 DEF ClockOK
    <3>2. Overlap > 0
      BY <2>1, <2>2
    <3> QED
      BY <2>1, <3>1, <3>2
  <2>4. HeardTo = 0 /\ HeardTo' = 0
    BY <1>2, <2>1, <2>3 DEF HeardTo
  <2>5. Reached(i)
    BY <1>4, <2>4 DEF Reached
  <2>6. In(i, Committed) \/ UnderCommits(i)
    BY <1>1, <2>5 DEF Complete
  <2> QED
    BY <1>2, <1>4, <2>6, SameUnderCommits DEF In
<1> QED
  BY <1>5, <1>6, <1>7 DEF CommitInv

\* What was finalized moves to the transcript.
LEMMA FeedKeeps ==
    ASSUME CommitInv, PollFeeds \/ FlushFeeds
    PROVE  CommitInv'
<1>1. ClockOK /\ WordsOK /\ Ordered /\ Placed /\ Complete /\ HeldSpan /\ Flushed
  BY DEF CommitInv
<1>2. /\ transcript' = transcript \o out /\ out' = <<>>
      /\ Closed' = Closed /\ (pump' = "over" => Closed)
      /\ UNCHANGED <<mic, input, buffered, nextStart, held, decoder>>
  BY DEF PollFeeds, FlushFeeds, Closed
<1>3. Done \in Words /\ transcript' \in Words /\ out' \in Words
  BY <1>1, <1>2, ListsAreWords, EmptySeq DEF WordsOK, Words, Done
<1>4. Done' = Done
  <2>1. Done' = Done \o <<>>
    BY <1>2 DEF Done
  <2> QED
    BY <1>3, <2>1, ConcatEmptySeq DEF Words
<1>5. Committed' = Committed /\ HeardTo' = HeardTo /\ Rough' = Rough
  BY <1>2, <1>4 DEF Committed, HeardTo, Rough
<1>6. ClockOK' /\ WordsOK' /\ Ordered' /\ Placed' /\ HeldSpan'
  BY <1>1, <1>2, <1>3, <1>4, <1>5
     DEF ClockOK, WordsOK, Ordered, Placed, HeldSpan, Rough
<1>7. Flushed'
  BY <1>1, <1>2 DEF Flushed, Rough
<1>8. Complete'
  <2> SUFFICES ASSUME ~Rough, NEW i \in 1..Len(Spoken), Reached(i)'
               PROVE  (In(i, Committed) \/ UnderCommits(i))'
    BY <1>5 DEF Complete
  <2>1. Reached(i)
    BY <1>5 DEF Reached
  <2>2. In(i, Committed) \/ UnderCommits(i)
    BY <1>1, <2>1 DEF Complete
  <2> QED
    BY <1>2, <1>5, <2>2, SameUnderCommits DEF In
<1> QED
  BY <1>6, <1>7, <1>8 DEF CommitInv

\* A window that is taken and not heard.
LEMMA SkippedIsPlaced ==
    ASSUME ClockOK, WordsOK, Placed, ~Closed
    PROVE  /\ \A k \in 1..Len(Done) : Spoken[Done[k].word].to <= nextStart + Step
           /\ \A k \in 1..Len(held) : Reads(held[k], nextStart + Step)
<1>1. nextStart \in Nat /\ Step \in Nat
  BY Geometry DEF ClockOK
<1>2. ASSUME NEW k \in 1..Len(Done)
      PROVE  Spoken[Done[k].word].to <= nextStart + Step
  <2> DEFINE sto == Spoken[Done[k].word].to
  <2>1. sto <= nextStart /\ sto \in Nat
    BY ListsAreWords, WordFields, SpokenFields DEF Placed
  <2> HIDE DEF sto
  <2>2. sto <= nextStart + Step
    BY <1>1, <2>1
  <2> QED
    BY <2>2 DEF sto
<1>3. ASSUME NEW k \in 1..Len(held) PROVE Reads(held[k], nextStart + Step)
  <2>1. held[k] \in Word /\ Reads(held[k], nextStart)
    BY WordFields DEF WordsOK, Placed
  <2> QED
    BY <1>1, <2>1, ReadsLater
<1> QED
  BY <1>2, <1>3

LEMMA SkippedClock ==
    ASSUME ClockOK, Ready, nextStart' = nextStart + Step,
           UNCHANGED <<mic, input, buffered>>
    PROVE  ClockOK'
<1>1. nextStart \in Nat /\ Step \in Nat /\ Overlap \in Nat
      /\ ChunkLen = Step + Overlap
  BY Geometry DEF ClockOK
<1>2. nextStart' + Overlap <= buffered
  BY <1>1 DEF Ready
<1> QED
  BY <1>2, ClockTicks

LEMMA GatedKeeps ==
    ASSUME CommitInv, Gated
    PROVE  CommitInv'
<1>1. ClockOK /\ WordsOK /\ Ordered /\ Placed
  BY DEF CommitInv
<1>2. /\ ~Closed /\ Rough /\ Rough' /\ nextStart' = nextStart + Step
      /\ UNCHANGED <<mic, input, buffered, transcript, out, held, decoder>>
  BY DEF Gated, Closed, Rough, heardVars
<1>3. ClockOK'
  BY <1>1, <1>2, SkippedClock DEF Gated
<1>4. WordsOK' /\ Ordered'
  BY <1>1, <1>2 DEF WordsOK, Ordered, Committed, Done
<1>5. Placed'
  BY <1>1, <1>2, SkippedIsPlaced DEF Placed, Done
<1> QED
  BY <1>2, <1>3, <1>4, <1>5 DEF CommitInv, Complete, HeldSpan, Flushed

LEMMA DecodeFailsKeeps ==
    ASSUME CommitInv, DecodeFails
    PROVE  CommitInv'
<1>1. ClockOK /\ WordsOK /\ Ordered /\ Placed
  BY DEF CommitInv
<1>2. /\ ~Closed /\ Rough /\ Rough' /\ nextStart' = nextStart + Step
      /\ out' = <<>>
      /\ UNCHANGED <<mic, input, buffered, transcript, held, decoder>>
  BY DEF DecodeFails, Closed, Rough
<1>3. ClockOK'
  BY <1>1, <1>2, SkippedClock DEF DecodeFails
<1>4. transcript \in Words /\ out \in Words /\ held \in Words /\ Done \in Words
  BY <1>1, ListsAreWords DEF WordsOK
<1>5. WordsOK'
  BY <1>1, <1>2, EmptySeq DEF WordsOK, Words
<1>6. Done' = transcript
  <2>1. Done' = transcript \o <<>>
    BY <1>2 DEF Done
  <2> QED
    BY <1>4, <2>1, ConcatEmptySeq DEF Words
<1>7. ASSUME NEW k \in 1..Len(transcript)
      PROVE  k \in 1..Len(Done) /\ Done[k] = transcript[k]
  <2>1. Len(transcript) \in Nat /\ Len(out) \in Nat
    BY <1>4, LenProperties DEF Words
  <2>2. k \in 1..(Len(transcript) + Len(out)) /\ k <= Len(transcript)
    BY <2>1
  <2> QED
    BY <1>4, <2>2, ConcatProperties DEF Done, Words
<1>8. Ordered'
  <2>1. Increasing(Done) /\ Increasing(held) /\ Before(Done, held)
    BY <1>1, <1>2, <1>4, IncreasingConcat DEF Ordered, Committed, Rough
  <2>2. Increasing(transcript)
    BY <1>7, <2>1 DEF Increasing
  <2>3. Before(transcript, held)
    BY <1>7, <2>1 DEF Before
  <2>4. Increasing(transcript \o held)
    BY <1>4, <2>1, <2>2, <2>3, IncreasingConcat
  <2>5. Committed' = transcript \o held
    BY <1>2, <1>6 DEF Committed
  <2> QED
    BY <2>4, <2>5 DEF Ordered
<1>9. Placed'
  BY <1>1, <1>2, <1>6, <1>7, SkippedIsPlaced DEF Placed
<1> QED
  BY <1>2, <1>3, <1>5, <1>8, <1>9 DEF CommitInv, Complete, HeldSpan, Flushed

-----------------------------------------------------------------------------
(* The theorems *)

LEMMA CommitInit == CaptureInit => CommitInv
<1> SUFFICES ASSUME CaptureInit PROVE CommitInv
  OBVIOUS
<1>1. ClockOK
  <2>1. 0 * Step = 0
    BY Geometry
  <2> QED
    BY <2>1, Geometry DEF CaptureInit, ClockOK
<1>2. WordsOK
  BY EmptySeq DEF CaptureInit, WordsOK, Words
<1>3. Committed = <<>> /\ Done = <<>> /\ Len(<<>>) = 0 /\ 1..0 = {}
  BY EmptySeq, ConcatEmptySeq DEF CaptureInit, Committed, Done, Words
<1>4. Ordered /\ Placed /\ HeldSpan
  BY <1>3 DEF CaptureInit, Ordered, Increasing, Placed, HeldSpan
<1>5. Flushed
  BY DEF CaptureInit, Flushed, Closed
<1>6. Complete
  <2>1. HeardTo = 0
    BY DEF CaptureInit, HeardTo, Closed
  <2>2. ASSUME NEW i \in 1..Len(Spoken) PROVE ~Reached(i)
    BY <1>3, <2>1, SpokenFields, SpokenInOrder DEF Reached
  <2> QED
    BY <2>2 DEF Complete
<1> QED
  BY <1>1, <1>2, <1>4, <1>5, <1>6 DEF CommitInv

\* Audio arrives, or moves on to the chunker.
LEMMA ClockRuns ==
    ASSUME ClockOK, UNCHANGED nextStart,
           mic' \in Nat, input' \in Nat, buffered' \in Nat,
           buffered <= buffered',
           mic' = buffered' + input', mic' <= MaxAudio
    PROVE  ClockOK'
<1>1. \E n \in Nat : nextStart' = n * Step /\ n <= nextStart'
  BY DEF ClockOK
<1>2. nextStart' = 0 \/ nextStart' + Overlap <= buffered'
  <2>1. /\ nextStart \in Nat /\ buffered \in Nat /\ Overlap \in Nat
        /\ nextStart = 0 \/ nextStart + Overlap <= buffered
    BY Geometry DEF ClockOK
  <2> QED
    BY <2>1
<1>3. mic' \in Nat /\ nextStart' \in Nat
  <2>1. nextStart \in Nat
    BY DEF ClockOK
  <2> QED
    BY <2>1
<1> QED
  BY <1>1, <1>2, <1>3 DEF ClockOK

LEMMA CommitStep == CommitInv /\ [CaptureNext]_captureVars => CommitInv'
<1> SUFFICES ASSUME CommitInv, [CaptureNext]_captureVars PROVE CommitInv'
  OBVIOUS
<1> USE DEF Notified, Closed
<1>0. /\ ClockOK /\ input \in Nat /\ buffered \in Nat /\ Step \in Nat
      /\ mic = buffered + input /\ mic <= MaxAudio
  BY Geometry DEF CommitInv, ClockOK
<1>1. ASSUME NEW n \in 1..Step, PushPcm(n) PROVE CommitInv'
  <2>1. n \in Nat
    BY <1>0
  <2>2. ClockOK'
    <3>1. /\ input' = input + n /\ mic' = mic + n /\ mic + n <= MaxAudio
          /\ UNCHANGED <<buffered, nextStart>>
      BY <1>1 DEF PushPcm
    <3>2. /\ mic' \in Nat /\ input' \in Nat /\ buffered' \in Nat
          /\ buffered <= buffered'
          /\ mic' = buffered' + input' /\ mic' <= MaxAudio
      BY <1>0, <2>1, <3>1
    <3> QED
      BY <1>0, <3>1, <3>2, ClockRuns
  <2> QED
    BY <1>1, <2>2, QuietKeeps DEF PushPcm
<1>2. ASSUME PausePump \/ ResumePump \/ StopPump PROVE CommitInv'
  <2>1. ClockOK'
    BY <1>0, <1>2 DEF PausePump, ResumePump, StopPump, ClockOK
  <2> QED
    BY <1>2, <2>1, QuietKeeps DEF PausePump, ResumePump, StopPump
<1>3. ASSUME PumpChecks PROVE CommitInv'
  <2>1. ClockOK'
    <3>1. /\ UNCHANGED <<mic, nextStart>>
          /\ \/ input' = 0 /\ buffered' = buffered + input
             \/ UNCHANGED <<input, buffered>>
      BY <1>3 DEF PumpChecks
    <3>2. /\ mic' \in Nat /\ input' \in Nat /\ buffered' \in Nat
          /\ buffered <= buffered'
          /\ mic' = buffered' + input' /\ mic' <= MaxAudio
      BY <1>0, <3>1
    <3> QED
      BY <1>0, <3>1, <3>2, ClockRuns
  <2> QED
    BY <1>3, <2>1, QuietKeeps DEF PumpChecks
<1>4. ASSUME FlushStarts PROVE CommitInv'
  <2>1. ClockOK'
    <3>1. /\ UNCHANGED <<mic, nextStart>>
          /\ \/ input' = 0 /\ buffered' = buffered + input
             \/ UNCHANGED <<input, buffered>>
      BY <1>4 DEF FlushStarts
    <3>2. /\ mic' \in Nat /\ input' \in Nat /\ buffered' \in Nat
          /\ buffered <= buffered'
          /\ mic' = buffered' + input' /\ mic' <= MaxAudio
      BY <1>0, <3>1
    <3> QED
      BY <1>0, <3>1, <3>2, ClockRuns
  <2> QED
    BY <1>4, <2>1, QuietKeeps DEF FlushStarts
<1>5. ASSUME PassStarts \/ PassSucceeds \/ PassFails \/ UNCHANGED captureVars
      PROVE  CommitInv'
  <2>1. UNCHANGED <<mic, input, buffered, nextStart, pump, heardVars>>
    BY <1>5 DEF PassStarts, PassSucceeds, PassFails, captureVars
  <2>2. ClockOK'
    BY <1>0, <2>1 DEF ClockOK
  <2> QED
    BY <2>1, <2>2, QuietKeeps
<1>6. ASSUME FlushEnds PROVE CommitInv'
  BY <1>6, LastWindowKeeps, TailKeeps
<1> QED
  BY <1>1, <1>2, <1>3, <1>4, <1>5, <1>6, DecodesKeeps, GatedKeeps,
     DecodeFailsKeeps, FeedKeeps DEF CaptureNext

LEMMA CommitHolds == CaptureSpec => []CommitInv
BY CommitInit, CommitStep, PTL DEF CaptureSpec

\* Words with spans of their own are committed at most once and in order,
\* whatever is misheard; and decoders that understand what is whole in their
\* window skip none but by the under-commit (Finalizer::ingest_window, merge).
THEOREM WordsAreCommittedOnce == CaptureSpec => []EachWordOnce
<1>1. CommitInv => EachWordOnce
  <2> SUFFICES ASSUME CommitInv PROVE EachWordOnce
    OBVIOUS
  <2>1. Committed \in Words
    BY ListsAreWords DEF CommitInv
  <2>2. decoder # "coarse" => \A i, j \in 1..Len(Committed) :
            i < j => Committed[i].word < Committed[j].word
    BY DEF CommitInv, Ordered, Increasing
  <2>3. ASSUME ~Rough, NEW n \in 1..Len(Committed), NEW i \in 1..Committed[n].word
        PROVE  In(i, Committed) \/ UnderCommits(i)
    <3>1. Committed[n].word \in 1..Len(Spoken)
      BY <2>1, WordFields
    <3>2. i \in 1..Len(Spoken) /\ i <= Committed[n].word
      BY <3>1, SpokenFields
    <3>3. Reached(i)
      BY <3>2 DEF Reached
    <3> QED
      BY <2>3, <3>2, <3>3 DEF CommitInv, Complete
  <2> QED
    BY <2>2, <2>3 DEF EachWordOnce, Committed, Done
<1> QED
  BY <1>1, CommitHolds, PTL

\* At the end of a stream of good decodes every word said is in the transcript
\* but for the under-commit (Finalizer::flush, Stream::end).
THEOREM NothingIsLeftBehind == CaptureSpec => []NothingLeftBehind
<1>1. CommitInv => NothingLeftBehind
  <2> SUFFICES ASSUME CommitInv, pump = "over", ~Rough,
                      NEW i \in 1..Len(Spoken), Spoken[i].to <= buffered
               PROVE  In(i, transcript) \/ UnderCommits(i)
    BY DEF NothingLeftBehind
  <2>1. held = <<>> /\ out = <<>>
    BY DEF CommitInv, Flushed, Closed
  <2>2. Committed = transcript
    BY <2>1, ConcatEmptySeq DEF CommitInv, WordsOK, Words, Committed, Done
  <2>3. Reached(i)
    BY DEF Reached, HeardTo, Closed
  <2> QED
    BY <2>2, <2>3 DEF CommitInv, Complete
<1> QED
  BY <1>1, CommitHolds, PTL
=============================================================================
