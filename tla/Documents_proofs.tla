-------------------------- MODULE Documents_proofs --------------------------
(***************************************************************************)
(* Proofs about documents, for any number of walks, taps, items, texts and *)
(* answers.  First the fold of spoken prices: it conserves money, names    *)
(* what it moves a price onto and drops no content word (numbers, rates    *)
(* and second amounts it may drop: the runs show how); which of several    *)
(* named lines wins (MoreAbout) does not matter.  Then the build around    *)
(* it: numbers are dense, a document shows one board, every amount has a   *)
(* source, and the model fails no build.                                   *)
(*                                                                         *)
(* Last the stored types a build resolves, for every catalog, every old    *)
(* store and any number of launches and releases: the operator's last word *)
(* on a type, a save or a removal, outlasts them all, what he never        *)
(* touched is that of the release, and what is offered can be built.       *)
(***************************************************************************)
EXTENDS SpokenPrices, DocumentBuild, SchemaStore, SeqFolds_proofs

-----------------------------------------------------------------------------
(* The fold of spoken prices: reading *)

\* An item is plain exactly when it speaks no amount the pass can use.
LEMMA PlainSpeaksNoAmount ==
    \A t : Reading(t) = "plain" <=> ~HasAmount(t)
BY DEF Reading

\* A line shares a positive number of words only if it shares a word.
LEMMA SharedIsNamed ==
    ASSUME NEW s, NEW l, Shared(s, l) > 0
    PROVE  Words(l) \cap Words(s) # {}
<1> DEFINE K == {k \in DOMAIN said[l].words : said[l].words[k] \in Words(s)}
<1>1. K # {}
  BY FS_EmptySet DEF Shared
<1>2. PICK k \in DOMAIN said[l].words : said[l].words[k] \in Words(s)
  BY <1>1
<1>3. said[l].words[k] \in Words(l)
  BY DEF Words
<1> QED
  BY <1>2, <1>3

\* The line a price goes to is unclaimed, speaks no amount of its own and is
\* named by the price.
LEMMA TargetIsBare ==
    ASSUME NEW s, NEW l, Target(s, l)
    PROVE  /\ l \in Lines
           /\ Reading(said[l]) = "plain"
           /\ l \notin claimed
           /\ Words(l) \cap Words(s) # {}
<1>1. l \in Bare /\ Shared(s, l) > 0
  BY DEF Target, Targets
<1> QED
  BY <1>1, SharedIsNamed DEF Bare

\* What a richer line absorbs is bare, and has no content word the richer one
\* has not.
LEMMA CoveredIsBare ==
    ASSUME NEW s, NEW l, First(l, Covered(s))
    PROVE  /\ l \in Lines
           /\ Reading(said[l]) = "plain"
           /\ l \notin claimed
           /\ Words(l) \subseteq Words(s)
BY Zenon DEF First, Covered, Bare

-----------------------------------------------------------------------------
(* The fold: the inductive invariant *)

\* Lines that were claimed speak no amount of their own.
ClaimedArePlain == \A l \in claimed : Reading(said[l]) = "plain"

\* An amount in the column was read, and sits on the item that spoke it or on
\* a line that was claimed for it.
ColumnIsRead ==
    \A l \in Lines : paid[l] # 0 =>
        /\ paid[l] < next
        /\ HasAmount(said[paid[l]])
        /\ paid[l] = l \/ l \in claimed

\* What is folded away has nothing in the column: it is a price that was
\* read, or a line that was claimed.
AwayIsUnpaid ==
    \A l \in away :
        /\ paid[l] = 0
        /\ (Reading(said[l]) = "statement" /\ l < next) \/ l \in claimed

\* Every amount read so far is in the column of exactly one line.
EachAmountOnce ==
    \A i \in 1..next - 1 : HasAmount(said[i]) =>
        \E l \in Lines : paid[l] = i /\ \A m \in Lines : paid[m] = i => m = l

\* Work folded away is covered by a line that states its own price.
AwayIsCovered ==
    \A i \in away :
        \/ Reading(said[i]) = "statement"
        \/ \E l \in Lines : /\ Reading(said[l]) = "self_priced"
                            /\ paid[l] = l
                            /\ Words(i) \subseteq Words(l)

PriceInv ==
    /\ PriceTypeOK
    /\ ClaimedArePlain
    /\ ColumnIsRead
    /\ AwayIsUnpaid
    /\ EachAmountOnce
    /\ AwayIsCovered
    /\ FoldsAreNamed

LEMMA PriceInvInit == PriceInit => PriceInv
<1> SUFFICES ASSUME PriceInit PROVE PriceInv
  OBVIOUS
<1>1. PICK n \in 0..MaxItems : said \in [1..n -> Texts]
  BY DEF PriceInit
<1>2. said \in Seq(Texts) /\ Len(said) \in Nat
  BY <1>1, PriceAssumption
<1>3. PriceTypeOK
  BY <1>2 DEF PriceInit, PriceTypeOK, Lines
<1> QED
  BY <1>2, <1>3 DEF PriceInit, PriceInv, ClaimedArePlain, ColumnIsRead,
     AwayIsUnpaid, EachAmountOnce, AwayIsCovered, FoldsAreNamed, Lines

\* An item the loop has not read yet is in nobody's column, has no amount of
\* its own there unless it was claimed, and is not folded away unless claimed.
LEMMA UnreadIsUntouched ==
    ASSUME PriceInv, next \in Lines, Reading(said[next]) # "plain"
    PROVE  /\ \A l \in Lines : paid[l] # next
           /\ paid[next] = 0
           /\ next \notin away
           /\ next \notin claimed
<1>1. next \in Nat /\ next # 0
  BY DEF PriceInv, PriceTypeOK, Lines
<1>2. next \notin claimed
  BY DEF PriceInv, ClaimedArePlain
<1>3. \A l \in Lines : paid[l] # next
  BY <1>1 DEF PriceInv, ColumnIsRead
<1>4. paid[next] = 0
  BY <1>2, <1>3 DEF PriceInv, ColumnIsRead
<1>5. next \notin away
  BY <1>1, <1>2 DEF PriceInv, AwayIsUnpaid
<1> QED
  BY <1>2, <1>3, <1>4, <1>5

\* A bare line has nothing in the column and is still rendered.
LEMMA BareIsUnpaid ==
    ASSUME PriceInv, NEW l \in Lines,
           Reading(said[l]) = "plain", l \notin claimed
    PROVE  paid[l] = 0 /\ l \notin away
<1>1. ~HasAmount(said[l])
  BY PlainSpeaksNoAmount
<1>2. paid[l] = 0
  BY <1>1 DEF PriceInv, ColumnIsRead
<1> QED
  BY <1>2 DEF PriceInv, AwayIsUnpaid

\* Putting the amount of the item being read on one line that has none keeps
\* the column, whatever else the turn does.
LEMMA ColumnStep ==
    ASSUME PriceInv, next \in Lines, Reading(said[next]) # "plain",
           NEW l \in Lines, paid[l] = 0,
           paid' = [paid EXCEPT ![l] = next],
           next' = next + 1, said' = said,
           claimed \subseteq claimed', l = next \/ l \in claimed'
    PROVE  ColumnIsRead' /\ EachAmountOnce' /\ paid' \in [Lines -> 0..Len(said)]
<1>1. /\ Len(said) \in Nat
      /\ next \in 1..Len(said)
      /\ paid \in [Lines -> 0..Len(said)]
  BY DEF PriceInv, PriceTypeOK, Lines
<1>2. HasAmount(said[next])
  BY PlainSpeaksNoAmount
<1>3. \A m \in Lines : paid[m] # next
  BY UnreadIsUntouched
<1>4. /\ paid'[l] = next
      /\ \A m \in Lines : m # l => paid'[m] = paid[m]
      /\ paid' \in [Lines -> 0..Len(said)]
  BY <1>1
<1>5. Lines' = Lines
  BY DEF Lines
<1>6. ColumnIsRead'
  <2> SUFFICES ASSUME NEW m \in Lines, paid'[m] # 0
               PROVE  /\ paid'[m] < next + 1
                      /\ HasAmount(said[paid'[m]])
                      /\ paid'[m] = m \/ m \in claimed'
    BY <1>5 DEF ColumnIsRead, HasAmount
  <2>1. CASE m = l
    BY <2>1, <1>1, <1>2, <1>4
  <2>2. CASE m # l
    <3>1. paid'[m] = paid[m] /\ paid[m] \in 0..Len(said)
      BY <2>2, <1>1, <1>4
    <3> QED
      BY <3>1, <1>1 DEF PriceInv, ColumnIsRead
  <2> QED
    BY <2>1, <2>2
<1>7. EachAmountOnce'
  <2> SUFFICES ASSUME NEW i \in 1..next, HasAmount(said[i])
               PROVE  \E k \in Lines : /\ paid'[k] = i
                                       /\ \A m \in Lines : paid'[m] = i => m = k
    BY <1>1, <1>5 DEF EachAmountOnce, HasAmount
  <2>1. CASE i = next
    BY <2>1, <1>3, <1>4
  <2>2. CASE i # next
    <3>1. i \in 1..next - 1
      BY <2>2, <1>1
    <3>2. PICK k \in Lines :
              paid[k] = i /\ \A m \in Lines : paid[m] = i => m = k
      BY <3>1 DEF PriceInv, EachAmountOnce
    <3>3. k # l
      BY <3>1, <3>2
    <3> QED
      BY <2>2, <3>2, <3>3, <1>4
  <2> QED
    BY <2>1, <2>2
<1> QED
  BY <1>4, <1>6, <1>7

\* The texts do not change, so a turn need only look at the column.
LEMMA FoldsStayNamed ==
    ASSUME said' = said,
           \A l \in Lines : paid'[l] # 0 /\ paid'[l] # l =>
               /\ Reading(said[l]) = "plain"
               /\ Words(l) \cap Words(paid'[l]) # {}
    PROVE  FoldsAreNamed'
<1>1. Lines' = Lines
  BY DEF Lines
<1>2. \A l : Words(l)' = Words(l)
  BY DEF Words
<1>3. \A l : Words(paid[l])' = Words(paid'[l])
  BY DEF Words
<1> SUFFICES ASSUME NEW l \in Lines, paid'[l] \notin {0, l}
             PROVE  (Reading(said[l]) = "plain" /\ Words(l) \cap Words(paid[l]) # {})'
  BY <1>1, Zenon DEF FoldsAreNamed
<1> QED
  BY <1>2, <1>3

-----------------------------------------------------------------------------
(* The fold: the steps *)

LEMMA ReadPlainStep == PriceInv /\ ReadPlain => PriceInv'
<1> SUFFICES ASSUME PriceInv, ReadPlain PROVE PriceInv'
  OBVIOUS
<1>1. /\ next \in 1..Len(said) /\ next' = next + 1 /\ said' = said
      /\ paid' = paid /\ away' = away /\ claimed' = claimed
      /\ Reading(said[next]) = "plain"
      /\ Len(said) \in Nat
  BY DEF ReadPlain, At, PriceInv, PriceTypeOK, Lines
<1>2. ~HasAmount(said[next])
  BY <1>1, PlainSpeaksNoAmount
<1>3. Lines' = Lines /\ PriceTypeOK'
  BY <1>1 DEF PriceInv, PriceTypeOK, Lines
<1>4. ColumnIsRead'
  BY <1>1, <1>3 DEF PriceInv, PriceTypeOK, ColumnIsRead, HasAmount
<1>5. AwayIsUnpaid'
  BY <1>1 DEF PriceInv, PriceTypeOK, AwayIsUnpaid, Lines, Reading, HasAmount,
              DescribesWork
<1>6. EachAmountOnce'
  <2>1. \A i \in 1..next : HasAmount(said[i]) => i \in 1..next - 1
    BY <1>1, <1>2
  <2> QED
    BY <2>1, <1>1, <1>3 DEF PriceInv, EachAmountOnce, HasAmount
<1>7. ClaimedArePlain'
  BY <1>1 DEF PriceInv, ClaimedArePlain
<1>8. \A l : Words(l)' = Words(l)
  BY <1>1 DEF Words
<1>9. AwayIsCovered'
  BY <1>1, <1>3, <1>8 DEF PriceInv, AwayIsCovered
<1>10. FoldsAreNamed'
  BY <1>1, FoldsStayNamed DEF PriceInv, FoldsAreNamed
<1> QED
  BY <1>3, <1>4, <1>5, <1>6, <1>7, <1>9, <1>10 DEF PriceInv

LEMMA TakeOwnPriceStep == PriceInv /\ TakeOwnPrice => PriceInv'
<1> SUFFICES ASSUME PriceInv, TakeOwnPrice PROVE PriceInv'
  OBVIOUS
<1>1. /\ next \in Lines /\ next' = next + 1 /\ said' = said
      /\ paid' = [paid EXCEPT ![next] = next]
      /\ Reading(said[next]) = "self_priced"
      /\ Len(said) \in Nat
      /\ paid \in [Lines -> 0..Len(said)]
      /\ away \subseteq Lines /\ claimed \subseteq Lines
  BY DEF TakeOwnPrice, At, PriceInv, PriceTypeOK, Lines
<1>2. /\ paid[next] = 0 /\ next \notin away /\ next \notin claimed
      /\ \A l \in Lines : paid[l] # next
  BY <1>1, UnreadIsUntouched
<1>3. PICK gone \in SUBSET Lines :
          /\ away' = away \cup gone
          /\ claimed' = claimed \cup gone
          /\ \A l \in gone : /\ Reading(said[l]) = "plain"
                             /\ paid[l] = 0
                             /\ Words(l) \subseteq Words(next)
  <2>1. CASE Covered(next) = {}
    <3>1. away' = away \cup {} /\ claimed' = claimed \cup {}
      BY <2>1 DEF TakeOwnPrice
    <3> WITNESS {} \in SUBSET Lines
    <3> QED
      BY <3>1
  <2>2. CASE Covered(next) # {}
    <3>1. PICK l \in Lines : /\ First(l, Covered(next))
                             /\ claimed' = claimed \cup {l}
                             /\ away' = away \cup {l}
      BY <2>2 DEF TakeOwnPrice
    <3>2. Reading(said[l]) = "plain" /\ l \notin claimed /\ Words(l) \subseteq Words(next)
      BY <3>1, CoveredIsBare
    <3>3. paid[l] = 0
      BY <3>2, BareIsUnpaid
    <3> WITNESS {l} \in SUBSET Lines
    <3> QED
      BY <3>1, <3>2, <3>3, Zenon
  <2> QED
    BY <2>1, <2>2
<1>4. /\ ColumnIsRead' /\ EachAmountOnce' /\ paid' \in [Lines -> 0..Len(said)]
  BY <1>1, <1>2, <1>3, ColumnStep
<1>5. Lines' = Lines /\ PriceTypeOK'
  BY <1>1, <1>3, <1>4 DEF PriceInv, PriceTypeOK, Lines
<1>6. \A l : Reading(said'[l]) = Reading(said[l]) /\ Words(l)' = Words(l)
  BY <1>1 DEF Words
<1>7. ClaimedArePlain'
  BY <1>1, <1>3 DEF PriceInv, ClaimedArePlain
<1>8. \A l \in Lines : l # next => paid'[l] = paid[l]
  BY <1>1
<1>9. AwayIsUnpaid'
  <2> SUFFICES ASSUME NEW l \in away'
               PROVE  /\ paid'[l] = 0
                      /\ (Reading(said[l]) = "statement" /\ l < next') \/ l \in claimed'
    BY <1>1 DEF AwayIsUnpaid
  <2>1. l # next /\ l \in Lines
    BY <1>1, <1>2, <1>3
  <2>2. CASE l \in away
    BY <2>1, <2>2, <1>1, <1>3, <1>8 DEF PriceInv, AwayIsUnpaid, PriceTypeOK, Lines
  <2>3. CASE l \notin away
    BY <2>1, <2>3, <1>3, <1>8
  <2> QED
    BY <2>2, <2>3
<1>10. AwayIsCovered'
  <2> SUFFICES ASSUME NEW i \in away', Reading(said[i]) # "statement"
               PROVE  \E l \in Lines : /\ Reading(said[l]) = "self_priced"
                                       /\ paid'[l] = l
                                       /\ Words(i) \subseteq Words(l)
    BY <1>1, <1>5, <1>6 DEF AwayIsCovered
  <2>1. CASE i \in away
    <3>1. PICK l \in Lines : /\ Reading(said[l]) = "self_priced"
                             /\ paid[l] = l
                             /\ Words(i) \subseteq Words(l)
      BY <2>1 DEF PriceInv, AwayIsCovered
    <3> QED
      BY <3>1, <1>1, <1>8
  <2>2. CASE i \notin away
    BY <2>2, <1>1, <1>3
  <2> QED
    BY <2>1, <2>2
<1>11. FoldsAreNamed'
  <2> SUFFICES ASSUME NEW l \in Lines, paid'[l] # 0, paid'[l] # l
               PROVE  /\ Reading(said[l]) = "plain"
                      /\ Words(l) \cap Words(paid'[l]) # {}
    BY <1>1, FoldsStayNamed
  <2>1. l # next /\ paid'[l] = paid[l]
    BY <1>1, <1>8
  <2> QED
    BY <2>1 DEF PriceInv, FoldsAreNamed
<1> QED
  BY <1>4, <1>5, <1>7, <1>9, <1>10, <1>11 DEF PriceInv

\* A price statement that is put on line l, bare or its own, and is folded
\* away when l is another's.
LEMMA StatementStep ==
    ASSUME PriceInv, At("statement"), NEW l \in Lines, paid[l] = 0, l \notin away,
           paid' = [paid EXCEPT ![l] = next],
           \/ /\ l = next /\ UNCHANGED <<away, claimed>>
           \/ /\ Reading(said[l]) = "plain"
              /\ Words(l) \cap Words(next) # {}
              /\ claimed' = claimed \cup {l}
              /\ away' = away \cup {next}
    PROVE  PriceInv'
<1>1. /\ next \in Lines /\ next' = next + 1 /\ said' = said
      /\ Reading(said[next]) = "statement"
      /\ Len(said) \in Nat
      /\ paid \in [Lines -> 0..Len(said)]
      /\ away \subseteq Lines /\ claimed \subseteq Lines
  BY DEF At, PriceInv, PriceTypeOK, Lines
<1>2. /\ paid[next] = 0 /\ next \notin away /\ next \notin claimed
      /\ \A m \in Lines : paid[m] # next
  BY <1>1, UnreadIsUntouched
<1>3. /\ ColumnIsRead' /\ EachAmountOnce' /\ paid' \in [Lines -> 0..Len(said)]
  BY <1>1, ColumnStep
<1>4. Lines' = Lines /\ PriceTypeOK'
  <2>1. away' \subseteq Lines /\ claimed' \subseteq Lines
    BY <1>1
  <2> QED
    BY <2>1, <1>1, <1>3 DEF PriceInv, PriceTypeOK, Lines
<1>5. \A m : Reading(said'[m]) = Reading(said[m]) /\ Words(m)' = Words(m)
  BY <1>1 DEF Words
<1>6. ClaimedArePlain'
  BY <1>1 DEF PriceInv, ClaimedArePlain
<1>7. \A m \in Lines : m # l => paid'[m] = paid[m]
  BY <1>1
<1>8. AwayIsUnpaid'
  <2> SUFFICES ASSUME NEW m \in away'
               PROVE  /\ paid'[m] = 0
                      /\ (Reading(said[m]) = "statement" /\ m < next + 1) \/ m \in claimed'
    BY <1>1 DEF AwayIsUnpaid
  <2>1. CASE m \in away
    BY <2>1, <1>1, <1>7 DEF PriceInv, AwayIsUnpaid, PriceTypeOK, Lines
  <2>2. CASE m \notin away
    <3>1. m = next /\ l # next
      BY <2>2, <1>1
    <3> QED
      BY <3>1, <1>1, <1>2, <1>7 DEF Lines
  <2> QED
    BY <2>1, <2>2
<1>9. AwayIsCovered'
  <2> SUFFICES ASSUME NEW i \in away', Reading(said[i]) # "statement"
               PROVE  \E k \in Lines : /\ Reading(said[k]) = "self_priced"
                                       /\ paid'[k] = k
                                       /\ Words(i) \subseteq Words(k)
    BY <1>1, <1>4, <1>5 DEF AwayIsCovered
  <2>1. i \in away
    BY <1>1
  <2>2. PICK k \in Lines : /\ Reading(said[k]) = "self_priced"
                           /\ paid[k] = k
                           /\ Words(i) \subseteq Words(k)
    BY <2>1 DEF PriceInv, AwayIsCovered
  <2>3. k # l
    BY <2>2, <1>1
  <2> QED
    BY <2>2, <2>3, <1>7
<1>10. FoldsAreNamed'
  <2> SUFFICES ASSUME NEW m \in Lines, paid'[m] # 0, paid'[m] # m
               PROVE  /\ Reading(said[m]) = "plain"
                      /\ Words(m) \cap Words(paid'[m]) # {}
    BY <1>1, FoldsStayNamed
  <2>1. CASE m = l
    BY <2>1, <1>1
  <2>2. CASE m # l
    BY <2>2, <1>7 DEF PriceInv, FoldsAreNamed
  <2> QED
    BY <2>1, <2>2
<1> QED
  BY <1>3, <1>4, <1>6, <1>8, <1>9, <1>10 DEF PriceInv

LEMMA PriceInvStep == PriceInv /\ [PriceNext]_priceVars => PriceInv'
<1> SUFFICES ASSUME PriceInv, [PriceNext]_priceVars PROVE PriceInv'
  OBVIOUS
<1>1. CASE ReadPlain
  BY <1>1, ReadPlainStep
<1>2. CASE TakeOwnPrice
  BY <1>2, TakeOwnPriceStep
<1>3. CASE FoldPrice
  <2>1. PICK l \in Lines : /\ Target(next, l)
                           /\ claimed' = claimed \cup {l}
                           /\ paid' = [paid EXCEPT ![l] = next]
    BY <1>3 DEF FoldPrice
  <2>2. /\ Reading(said[l]) = "plain" /\ l \notin claimed
        /\ Words(l) \cap Words(next) # {}
    BY <2>1, TargetIsBare
  <2>3. paid[l] = 0 /\ l \notin away
    BY <2>2, BareIsUnpaid
  <2>4. At("statement") /\ away' = away \cup {next}
    BY <1>3 DEF FoldPrice
  <2> QED
    BY <2>1, <2>2, <2>3, <2>4, StatementStep
<1>4. CASE KeepPrice
  <2>1. At("statement") /\ next \in Lines /\ Reading(said[next]) = "statement"
    BY <1>4 DEF KeepPrice, At
  <2>2. paid[next] = 0 /\ next \notin away
    BY <2>1, UnreadIsUntouched
  <2>3. paid' = [paid EXCEPT ![next] = next] /\ UNCHANGED <<away, claimed>>
    BY <1>4 DEF KeepPrice
  <2> QED
    BY <2>1, <2>2, <2>3, StatementStep
<1>5. CASE UNCHANGED priceVars
  <2>1. /\ said' = said /\ next' = next /\ paid' = paid
        /\ away' = away /\ claimed' = claimed
    BY <1>5 DEF priceVars
  <2>2. PriceTypeOK' /\ ClaimedArePlain' /\ ColumnIsRead'
    BY <2>1 DEF PriceInv, PriceTypeOK, ClaimedArePlain, ColumnIsRead, Lines
  <2>3. AwayIsUnpaid' /\ EachAmountOnce'
    BY <2>1 DEF PriceInv, AwayIsUnpaid, EachAmountOnce, Lines
  <2>4. AwayIsCovered'
    <3>1. Lines' = Lines /\ \A l : Words(l)' = Words(l)
      BY <2>1 DEF Lines, Words
    <3> QED
      BY <2>1, <3>1 DEF PriceInv, AwayIsCovered
  <2>5. FoldsAreNamed'
    BY <2>1, FoldsStayNamed DEF PriceInv, FoldsAreNamed
  <2> QED
    BY <2>2, <2>3, <2>4, <2>5 DEF PriceInv
<1> QED
  BY <1>1, <1>2, <1>3, <1>4, <1>5 DEF PriceNext

\* What is in the column is on a line that is still rendered.
LEMMA InvConservesMoney == PriceInv => MoneyConserved
<1> SUFFICES ASSUME PriceInv PROVE MoneyConserved
  OBVIOUS
<1>1. \A l \in Lines : paid[l] # 0 => l \in Kept
  BY DEF PriceInv, AwayIsUnpaid, Kept
<1>2. \A l \in Lines : paid[l] # 0 => paid[l] < next /\ HasAmount(said[paid[l]])
  BY DEF PriceInv, ColumnIsRead
<1>3. ASSUME NEW i \in 1..next - 1, HasAmount(said[i])
      PROVE  \E l \in Kept :
                 paid[l] = i /\ \A m \in Lines : paid[m] = i => m = l
  <2>1. PICK l \in Lines :
            paid[l] = i /\ \A m \in Lines : paid[m] = i => m = l
    BY <1>3 DEF PriceInv, EachAmountOnce
  <2> QED
    BY <2>1, <1>1
<1> QED
  BY <1>2, <1>3 DEF MoneyConserved

LEMMA InvKeepsWords == PriceInv => AbsorbedWordsStay
<1> SUFFICES ASSUME PriceInv, NEW i \in away, Reading(said[i]) # "statement"
             PROVE  \E l \in Kept : paid[l] = l /\ Words(i) \subseteq Words(l)
  BY DEF AbsorbedWordsStay
<1>1. PICK l \in Lines : paid[l] = l /\ Words(i) \subseteq Words(l)
  BY DEF PriceInv, AwayIsCovered
<1>2. l \in Kept
  BY <1>1 DEF PriceInv, AwayIsUnpaid, Kept, Lines
<1> QED
  BY <1>1, <1>2

-----------------------------------------------------------------------------
(* The fold: the theorems *)

\* The fold's inductive invariant holds throughout the pass.
THEOREM PriceInvariant == PriceSpec => []PriceInv
BY PriceInvInit, PriceInvStep, PTL DEF PriceSpec

\* However prices, work and amounts are mixed on a board, every amount the
\* pass has read is in the column of exactly one rendered line, and the
\* column holds nothing else.
THEOREM SpokenMoneyIsConserved == PriceSpec => []MoneyConserved
BY PriceInvariant, InvConservesMoney, PTL

\* A price that moves lands on a line no price is read from, and shares a word
\* with it.
THEOREM FoldsNameTheirLine == PriceSpec => []FoldsAreNamed
<1>1. PriceInv => FoldsAreNamed
  BY DEF PriceInv
<1> QED
  BY <1>1, PriceInvariant, PTL

\* What the pass folds away is a price, or work of which every content word
\* stays on a line that states its own price.
THEOREM AbsorbedWordsAreKept == PriceSpec => []AbsorbedWordsStay
BY PriceInvariant, InvKeepsWords, PTL

-----------------------------------------------------------------------------
(* The build: types of taps and documents *)

\* The taps that hold a render.
WorkingPcs == {"pricing", "notes", "composing", "minting", "recording"}

TypeRows == {BuiltinTypes[kind] : kind \in DOMAIN BuiltinTypes}

LineRows ==
    [item : ItemRows, amount : Nat \cup {NoAmount}, gap : BOOLEAN, detail : BOOLEAN, assignee : BOOLEAN]

Renders == UNION {[S -> LineRows] : S \in SUBSET Items}

Working ==
    [pc : WorkingPcs, walk : Walks, kind : Kinds, type : TypeRows, read : Boards,
     lines : Renders, filled : Nat, queued : BOOLEAN, calls : Nat,
     inferred : SUBSET (Items \X Nat)]

DocFields ==
    {"walk", "kind", "number", "live", "type", "read", "lines", "total", "gaps",
     "queued", "inferred"}

-----------------------------------------------------------------------------
(* The build: what a render or a document says *)

\* Both have the fields "type", "read", "lines" and "inferred".
OneBoard(r) ==
    /\ DOMAIN r.lines = DOMAIN Drawn(r.read, r.type)
    /\ \A i \in DOMAIN r.lines : r.lines[i].item = r.read[i]

SourcedLine(line, i, priced, inferred) ==
    LET read == priced /\ HasAmount(line.item)
    IN  /\ read => line.amount = line.item.money[1].cents
        /\ ~read => \/ line.amount = NoAmount
                    \/ /\ priced
                       /\ line.amount > 0
                       /\ <<i, line.amount>> \in inferred
        /\ line.gap <=> priced /\ line.amount = NoAmount

Sourced(r) ==
    \A i \in DOMAIN r.lines : SourcedLine(r.lines[i], i, r.type.priced, r.inferred)

TapSound(tap) ==
    tap.pc \in WorkingPcs =>
        /\ tap \in Working
        /\ OneBoard(tap)
        /\ Sourced(tap)
        /\ tap.pc = "pricing" => tap.inferred = {}

TapExcused(tap, gone) == tap.pc = "failed" => tap.fault \/ tap.walk \in gone

\* The total is null exactly when no line has an amount.
TotalIsOfLines(d) == d.total = NoAmount <=> \A i \in DOMAIN d.lines : d.lines[i].amount = NoAmount

DocSound(d) ==
    /\ DOMAIN d = DocFields
    /\ d.kind \in Kinds
    /\ TotalIsOfLines(d)
    /\ OneBoard(d)
    /\ Sourced(d)

\* The numbers of a kind are 1..n, and no two documents share one.
Numbered ==
    \A kind \in Kinds :
        /\ {d.number : d \in {e \in documents : e.kind = kind}} = 1..sequence[kind]
        /\ \A d, e \in documents :
              d.kind = kind /\ e.kind = kind /\ d.number = e.number => d = e

TapsInv ==
    /\ taps = [t \in Taps |-> taps[t]]
    /\ \A t \in Taps : TapSound(taps[t]) /\ TapExcused(taps[t], deleted)

PapersInv ==
    /\ sequence \in [Kinds -> Nat]
    /\ \A d \in documents : DocSound(d)
    /\ Numbered

DocInv ==
    /\ board \in [Walks -> Boards]
    /\ TapsInv
    /\ PapersInv

-----------------------------------------------------------------------------
(* The build: the render *)

LEMMA BoardRow ==
    ASSUME NEW b \in Boards, NEW i \in DOMAIN b
    PROVE  i \in Items /\ b[i] \in ItemRows
BY DEF Boards

LEMMA TypeRow ==
    ASSUME NEW type \in TypeRows
    PROVE  type.priced \in BOOLEAN /\ type.walk \in Nat
<1>1. PICK kind \in DOMAIN BuiltinTypes : type = BuiltinTypes[kind]
  BY DEF TypeRows
<1>2. \A k \in DOMAIN UniversalTypes :
          UniversalTypes[k].priced \in BOOLEAN /\ UniversalTypes[k].walk \in Nat
  <2>1. DOMAIN UniversalTypes = {"estimate", "invoice", "work_order", "report"}
    BY DEF UniversalTypes
  <2>2. /\ UniversalTypes["estimate"].priced \in BOOLEAN
        /\ UniversalTypes["estimate"].walk \in Nat
    BY DEF UniversalTypes, Builtin
  <2>3. /\ UniversalTypes["invoice"].priced \in BOOLEAN
        /\ UniversalTypes["invoice"].walk \in Nat
    BY DEF UniversalTypes, Builtin
  <2>4. /\ UniversalTypes["work_order"].priced \in BOOLEAN
        /\ UniversalTypes["work_order"].walk \in Nat
    BY DEF UniversalTypes, Builtin
  <2>5. /\ UniversalTypes["report"].priced \in BOOLEAN
        /\ UniversalTypes["report"].walk \in Nat
    BY DEF UniversalTypes, Builtin
  <2> QED
    BY <2>1, <2>2, <2>3, <2>4, <2>5
<1>3. \A k \in DOMAIN TradeTypes :
          TradeTypes[k].priced \in BOOLEAN /\ TradeTypes[k].walk \in Nat
  <2>1. DOMAIN TradeTypes = {"condition", "move_out", "inspection"}
    BY DEF TradeTypes
  <2>2. /\ TradeTypes["condition"].priced \in BOOLEAN
        /\ TradeTypes["condition"].walk \in Nat
    BY DEF TradeTypes, Builtin
  <2>3. /\ TradeTypes["move_out"].priced \in BOOLEAN
        /\ TradeTypes["move_out"].walk \in Nat
    BY DEF TradeTypes, Builtin
  <2>4. /\ TradeTypes["inspection"].priced \in BOOLEAN
        /\ TradeTypes["inspection"].walk \in Nat
    BY DEF TradeTypes, Builtin
  <2> QED
    BY <2>1, <2>2, <2>3, <2>4
<1>4. \/ kind \in DOMAIN UniversalTypes /\ type = UniversalTypes[kind]
      \/ kind \in DOMAIN TradeTypes /\ type = TradeTypes[kind]
  BY <1>1 DEF BuiltinTypes
<1> QED
  BY <1>2, <1>3, <1>4

\* Overwriting the amount, or the prose, of one line.
LEMMA PricedRow ==
    \A row \in LineRows, amount \in Nat :
        LET new == PricedLine(row, amount)
        IN  /\ new \in LineRows
            /\ new.item = row.item /\ new.amount = amount /\ ~new.gap
BY DEF LineRows, PricedLine

LEMMA ComposedRow ==
    \A row \in LineRows : \A i, written, named :
        LET new == ComposedLine(row, i, written, named)
        IN  /\ new \in LineRows
            /\ new.item = row.item /\ new.amount = row.amount /\ new.gap = row.gap
<1> TAKE row \in LineRows
<1> TAKE i, written, named
<1> DEFINE d == i \in written
           a == i \in named
<1>1. d \in BOOLEAN /\ a \in BOOLEAN
  OBVIOUS
<1>2. ComposedLine(row, i, written, named) = [row EXCEPT !.detail = d, !.assignee = a]
  BY DEF ComposedLine
<1> HIDE DEF d, a
<1> QED
  BY <1>1, <1>2 DEF LineRows

\* The amount of a title that speaks one total.
LEMMA SpokenIsNat ==
    ASSUME NEW row \in ItemRows, HasAmount(row)
    PROVE  row.money[1].cents \in Nat
<1>1. row.money \in Seq([cents : Nat, rate : BOOLEAN])
  BY DocumentAssumption DEF ItemRows, Money
<1>2. 1 \in 1..Len(row.money)
  BY DEF HasAmount
<1>3. row.money[1] \in [cents : Nat, rate : BOOLEAN]
  BY <1>1, <1>2, ElementOfSeq
<1> QED
  BY <1>3

\* A fresh render draws from the board it is given, and its amounts are what
\* the titles speak.
LEMMA RenderIsSound ==
    ASSUME NEW b \in Boards, NEW type \in TypeRows
    PROVE  /\ Rendered(b, type) \in Renders
           /\ DOMAIN Rendered(b, type) = DOMAIN Drawn(b, type)
           /\ \A i \in DOMAIN Rendered(b, type) :
                 LET line == Rendered(b, type)[i]
                 IN  /\ line.item = b[i]
                     /\ IF type.priced /\ HasAmount(b[i])
                        THEN line.amount = b[i].money[1].cents /\ ~line.gap
                        ELSE line.amount = NoAmount /\ line.gap = type.priced
<1> DEFINE S == {i \in DOMAIN b : DrawsKind(type.reader, b[i].kind)}
           fresh == [i \in S |-> Line(b[i], type.priced)]
           amounts == SpokenOf(Drawn(b, type), type.priced)
<1>1. Drawn(b, type) = [i \in S |-> b[i]]
  BY DEF Drawn
<1>2. /\ DOMAIN amounts = {i \in S : type.priced /\ HasAmount(b[i])}
      /\ \A i \in DOMAIN amounts : amounts[i] = b[i].money[1].cents
  BY <1>1 DEF SpokenOf, HasAmount
<1>3. \A i \in S : i \in Items /\ b[i] \in ItemRows
  BY BoardRow
<1>4. \A i \in S : fresh[i] \in LineRows /\ fresh[i].item = b[i]
                   /\ fresh[i].amount = NoAmount /\ fresh[i].gap = type.priced
  BY <1>3, TypeRow DEF Line, LineRows
<1>5. Rendered(b, type) =
        [i \in S |-> IF i \in DOMAIN amounts
                     THEN PricedLine(fresh[i], amounts[i])
                     ELSE fresh[i]]
  BY <1>1 DEF Rendered, Priced
<1>6. \A i \in S : HasAmount(b[i]) => b[i].money[1].cents \in Nat
  BY <1>3, SpokenIsNat
<1>7. S \in SUBSET Items
  BY <1>3
<1> HIDE DEF fresh, amounts, S
<1>8. ASSUME NEW i \in S
      PROVE  /\ Rendered(b, type)[i] \in LineRows
             /\ Rendered(b, type)[i].item = b[i]
             /\ IF type.priced /\ HasAmount(b[i])
                THEN Rendered(b, type)[i].amount = b[i].money[1].cents /\ ~Rendered(b, type)[i].gap
                ELSE Rendered(b, type)[i].amount = NoAmount
                     /\ Rendered(b, type)[i].gap = type.priced
  <2>1. CASE i \in DOMAIN amounts
    <3>1. Rendered(b, type)[i] = PricedLine(fresh[i], amounts[i])
      BY <2>1, <1>5
    <3>2. amounts[i] = b[i].money[1].cents /\ amounts[i] \in Nat
      BY <2>1, <1>2, <1>6
    <3> QED
      BY <3>1, <3>2, <2>1, <1>2, <1>4, PricedRow
  <2>2. CASE i \notin DOMAIN amounts
    BY <2>2, <1>2, <1>4, <1>5
  <2> QED
    BY <2>1, <2>2
<1>9. DOMAIN Rendered(b, type) = S
  BY <1>5
<1>10. DOMAIN Drawn(b, type) = S
  BY <1>1
<1>11. Rendered(b, type) \in [S -> LineRows]
  BY <1>5, <1>8
<1> QED
  BY <1>7, <1>8, <1>9, <1>10, <1>11 DEF Renders

\* The rows of price_items that count are for lines that were sent, and are
\* amounts.
LEMMA PricesAreValid ==
    ASSUME NEW rows \in Replies, NEW sent
    PROVE  \A i \in DOMAIN ValidPrices(rows, sent) :
               /\ i \in sent
               /\ ValidPrices(rows, sent)[i] \in Nat
               /\ ValidPrices(rows, sent)[i] > 0
<1> DEFINE counts(k) == rows[k].id \in sent /\ rows[k].cents > 0
           first(k) == \A j \in 1..k - 1 : ~(counts(j) /\ rows[j].id = rows[k].id)
           kept == {k \in DOMAIN rows : counts(k) /\ first(k)}
           prices == ValidPrices(rows, sent)
<1>1. prices = [i \in {rows[k].id : k \in kept} |->
                   rows[CHOOSE k \in kept : rows[k].id = i].cents]
  BY DEF ValidPrices
<1>2. \A k \in kept : rows[k].id \in sent /\ rows[k].cents > 0 /\ rows[k].cents \in Nat
  BY DocumentAssumption
<1> HIDE DEF kept
<1> SUFFICES ASSUME NEW i \in DOMAIN prices
             PROVE  i \in sent /\ prices[i] \in Nat /\ prices[i] > 0
  OBVIOUS
<1>3. PICK k \in kept : rows[k].id = i
  BY <1>1
<1>4. (CHOOSE j \in kept : rows[j].id = i) \in kept
  BY <1>3
<1> QED
  BY <1>1, <1>2, <1>3, <1>4

\* apply_prices and apply_composition keep the lines and their items.
LEMMA PricedLines ==
    ASSUME NEW lines \in Renders, NEW amounts,
           \A i \in DOMAIN amounts : amounts[i] \in Nat
    PROVE  /\ Priced(lines, amounts) \in Renders
           /\ DOMAIN Priced(lines, amounts) = DOMAIN lines
           /\ \A i \in DOMAIN lines :
                 LET line == Priced(lines, amounts)[i]
                 IN  /\ line.item = lines[i].item
                     /\ IF i \in DOMAIN amounts
                        THEN line.amount = amounts[i] /\ ~line.gap
                        ELSE line.amount = lines[i].amount /\ line.gap = lines[i].gap
<1>1. PICK S \in SUBSET Items : lines \in [S -> LineRows]
  BY DEF Renders
<1>2. \A i \in S : lines[i] \in LineRows
  BY <1>1
<1>3. Priced(lines, amounts) =
        [i \in S |-> IF i \in DOMAIN amounts
                     THEN PricedLine(lines[i], amounts[i])
                     ELSE lines[i]]
  BY <1>1 DEF Priced
<1>4. ASSUME NEW i \in S
      PROVE  /\ Priced(lines, amounts)[i] \in LineRows
             /\ Priced(lines, amounts)[i].item = lines[i].item
             /\ IF i \in DOMAIN amounts
                THEN /\ Priced(lines, amounts)[i].amount = amounts[i]
                     /\ ~Priced(lines, amounts)[i].gap
                ELSE Priced(lines, amounts)[i] = lines[i]
  <2>1. CASE i \in DOMAIN amounts
    BY <2>1, <1>2, <1>3, PricedRow
  <2>2. CASE i \notin DOMAIN amounts
    BY <2>2, <1>2, <1>3
  <2> QED
    BY <2>1, <2>2
<1>5. Priced(lines, amounts) \in [S -> LineRows]
  BY <1>3, <1>4
<1> QED
  BY <1>1, <1>4, <1>5 DEF Renders

LEMMA ComposedLines ==
    ASSUME NEW lines \in Renders, NEW written, NEW named
    PROVE  /\ Composed(lines, written, named) \in Renders
           /\ DOMAIN Composed(lines, written, named) = DOMAIN lines
           /\ \A i \in DOMAIN lines :
                 LET line == Composed(lines, written, named)[i]
                 IN  /\ line.item = lines[i].item
                     /\ line.amount = lines[i].amount
                     /\ line.gap = lines[i].gap
<1>1. PICK S \in SUBSET Items : lines \in [S -> LineRows]
  BY DEF Renders
<1>2. \A i \in S : lines[i] \in LineRows
  BY <1>1
<1>3. Composed(lines, written, named) =
        [i \in S |-> ComposedLine(lines[i], i, written, named)]
  BY <1>1 DEF Composed
<1>4. ASSUME NEW i \in S
      PROVE  /\ Composed(lines, written, named)[i] \in LineRows
             /\ Composed(lines, written, named)[i].item = lines[i].item
             /\ Composed(lines, written, named)[i].amount = lines[i].amount
             /\ Composed(lines, written, named)[i].gap = lines[i].gap
  BY <1>2, <1>3, ComposedRow
<1>5. Composed(lines, written, named) \in [S -> LineRows]
  BY <1>3, <1>4
<1> QED
  BY <1>1, <1>4, <1>5 DEF Renders

-----------------------------------------------------------------------------
(* Soundness through a tap's steps *)

\* Two records that show the same lines, board and type.
LEMMA SameLines ==
    ASSUME NEW r, NEW s,
           s.type = r.type, s.read = r.read, s.lines = r.lines, s.inferred = r.inferred,
           OneBoard(r), Sourced(r)
    PROVE  OneBoard(s) /\ Sourced(s)
BY Zenon DEF OneBoard, Sourced

\* A render that is accepted is sound before any model is asked.
LEMMA AcceptedIsSound ==
    ASSUME NEW b \in Boards, NEW r, r.type \in TypeRows, r.read = b,
           r.lines = Rendered(b, r.type)
    PROVE  OneBoard(r) /\ Sourced(r)
<1>1. OneBoard(r)
  BY RenderIsSound DEF OneBoard
<1>2. ASSUME NEW i \in DOMAIN r.lines
      PROVE  LET line == r.lines[i]
                 read == r.type.priced /\ HasAmount(line.item)
             IN  /\ read => line.amount = line.item.money[1].cents
                 /\ ~read => line.amount = NoAmount
                 /\ line.gap <=> r.type.priced /\ line.amount = NoAmount
  <2>1. /\ r.lines[i].item = b[i]
        /\ IF r.type.priced /\ HasAmount(b[i])
           THEN r.lines[i].amount = b[i].money[1].cents /\ ~r.lines[i].gap
           ELSE r.lines[i].amount = NoAmount /\ r.lines[i].gap = r.type.priced
    BY <1>2, RenderIsSound
  <2>2. b[i] \in ItemRows
    BY <1>2, RenderIsSound, BoardRow DEF Drawn
  <2>3. HasAmount(b[i]) => b[i].money[1].cents # NoAmount
    BY <2>2, SpokenIsNat, DocumentAssumption
  <2> QED
    BY <2>1, <2>3, TypeRow
<1> QED
  BY <1>1, <1>2 DEF Sourced, SourcedLine

\* Prices for lines that were read none keep a render sound.
LEMMA PricedIsSound ==
    ASSUME NEW r, NEW s, NEW prices,
           r.lines \in Renders, OneBoard(r), Sourced(r), r.inferred = {},
           \A i \in DOMAIN prices : /\ i \in Unpriced(r)
                                    /\ prices[i] \in Nat /\ prices[i] > 0,
           s.type = r.type, s.read = r.read, s.lines = Priced(r.lines, prices),
           s.inferred = {<<i, prices[i]>> : i \in DOMAIN prices}
    PROVE  OneBoard(s) /\ Sourced(s) /\ s.lines \in Renders
<1>1. /\ s.lines \in Renders
      /\ DOMAIN s.lines = DOMAIN r.lines
      /\ \A i \in DOMAIN r.lines :
             /\ s.lines[i].item = r.lines[i].item
             /\ IF i \in DOMAIN prices
                THEN s.lines[i].amount = prices[i] /\ ~s.lines[i].gap
                ELSE s.lines[i].amount = r.lines[i].amount
                     /\ s.lines[i].gap = r.lines[i].gap
  BY PricedLines
<1>2. OneBoard(s)
  BY <1>1 DEF OneBoard
<1>3. ASSUME NEW i \in DOMAIN s.lines
      PROVE  SourcedLine(s.lines[i], i, s.type.priced, s.inferred)
  <2>1. CASE i \in DOMAIN prices
    <3>1. r.type.priced /\ ~HasAmount(r.lines[i].item)
      BY <2>1 DEF Unpriced
    <3>3. prices[i] # NoAmount
      BY <2>1, DocumentAssumption
    <3>2. <<i, prices[i]>> \in s.inferred
      BY <2>1
    <3> QED
      BY <2>1, <3>1, <3>2, <3>3, <1>1, <1>3 DEF SourcedLine
  <2>2. CASE i \notin DOMAIN prices
    BY <2>2, <1>1, <1>3 DEF Sourced, SourcedLine
  <2> QED
    BY <2>1, <2>2
<1> QED
  BY <1>1, <1>2, <1>3 DEF Sourced

LEMMA ComposedIsSound ==
    ASSUME NEW r, NEW s, NEW written, NEW named,
           r.lines \in Renders, OneBoard(r), Sourced(r),
           s.type = r.type, s.read = r.read, s.inferred = r.inferred,
           s.lines = Composed(r.lines, written, named)
    PROVE  OneBoard(s) /\ Sourced(s) /\ s.lines \in Renders
<1>1. /\ s.lines \in Renders
      /\ DOMAIN s.lines = DOMAIN r.lines
      /\ \A i \in DOMAIN r.lines :
             /\ s.lines[i].item = r.lines[i].item
             /\ s.lines[i].amount = r.lines[i].amount
             /\ s.lines[i].gap = r.lines[i].gap
  BY ComposedLines
<1> QED
  BY <1>1 DEF OneBoard, Sourced, SourcedLine

-----------------------------------------------------------------------------
(* Taps *)

\* Moving one tap, while walks may only be deleted.
LEMMA MoveStep ==
    ASSUME TapsInv, NEW t \in Taps, NEW tap, MoveTo(t, tap),
           TapSound(tap), TapExcused(tap, deleted), deleted' = deleted
    PROVE  TapsInv'
<1>1. \A u \in Taps : taps'[u] = IF u = t THEN tap ELSE taps[u]
  BY DEF MoveTo, TapsInv
<1>2. taps' = [u \in Taps |-> taps'[u]]
  BY DEF MoveTo, TapsInv
<1>3. \A u \in Taps : TapSound(taps'[u]) /\ TapExcused(taps'[u], deleted')
  BY <1>1 DEF TapsInv
<1> QED
  BY <1>2, <1>3 DEF TapsInv

\* A tap that only moves touches nothing that is stored.
LEMMA OnlyStep ==
    ASSUME DocInv, NEW t \in Taps, NEW tap, Only(t, tap),
           TapSound(tap), TapExcused(tap, deleted)
    PROVE  DocInv'
<1>1. MoveTo(t, tap) /\ UNCHANGED <<board, deleted, sequence, documents>>
  BY DEF Only
<1>2. TapsInv'
  BY <1>1, MoveStep DEF DocInv
<1>3. PapersInv'
  BY <1>1 DEF DocInv, PapersInv, Numbered
<1> QED
  BY <1>1, <1>2, <1>3 DEF DocInv

\* Taps without a render: idle, over, failed with an excuse.
LEMMA RestingTaps ==
    /\ TapSound(Idle) /\ \A gone : TapExcused(Idle, gone)
    /\ TapSound(Over) /\ \A gone : TapExcused(Over, gone)
    /\ \A w, fault, gone : fault \/ w \in gone =>
          TapSound(Failed(w, fault)) /\ TapExcused(Failed(w, fault), gone)
BY DEF Idle, Over, Failed, TapSound, TapExcused, WorkingPcs

LEMMA FaultStep == ASSUME DocInv, NEW t \in Taps, Fault(t) PROVE DocInv'
<1>1. /\ MoveTo(t, Failed(taps[t].walk, TRUE))
      /\ UNCHANGED <<board, deleted, sequence, documents>>
  BY DEF Fault
<1>2. TapsInv'
  BY <1>1, MoveStep, RestingTaps DEF DocInv
<1>3. PapersInv'
  BY <1>1 DEF DocInv, PapersInv, Numbered
<1> QED
  BY <1>1, <1>2, <1>3 DEF DocInv

LEMMA AcceptStep ==
    ASSUME DocInv, NEW t \in Taps, NEW w \in Walks, NEW kind \in Kinds,
           Accept(t, w, kind)
    PROVE  DocInv'
<1> DEFINE type == BuiltinTypes[kind]
           lines == Rendered(board[w], type)
           tap == [pc |-> "pricing", walk |-> w, kind |-> kind, type |-> type,
                   read |-> board[w], lines |-> lines, filled |-> 0,
                   queued |-> FALSE, calls |-> 0, inferred |-> {}]
           skip == [tap EXCEPT !.pc = AfterPricing(tap)]
<1>1. type \in TypeRows
  BY DocumentAssumption DEF TypeRows
<1>2. board[w] \in Boards
  BY DEF DocInv
<1>3. lines \in Renders
  BY <1>1, <1>2, RenderIsSound
<1>4. Only(t, IF Unpriced(tap) = {} THEN skip ELSE tap)
  BY DEF Accept
<1>5. AfterPricing(tap) \in WorkingPcs \ {"pricing", "failed"}
  BY DEF AfterPricing, WorkingPcs
<1> HIDE DEF type, lines
<1>6. tap \in Working /\ skip \in Working
  BY <1>1, <1>2, <1>3, <1>5 DEF Working, WorkingPcs
<1>7. OneBoard(tap) /\ Sourced(tap)
  BY <1>1, <1>2, AcceptedIsSound DEF lines
<1>8. OneBoard(skip) /\ Sourced(skip)
  BY <1>7, SameLines
<1>9. /\ TapSound(tap) /\ TapExcused(tap, deleted)
      /\ TapSound(skip) /\ TapExcused(skip, deleted)
  BY <1>5, <1>6, <1>7, <1>8 DEF TapSound, TapExcused
<1> QED
  BY <1>4, <1>9, OnlyStep

LEMMA RefuseStep ==
    ASSUME DocInv, NEW t \in Taps, NEW w \in Walks, NEW kind \in Kinds,
           Refuse(t, w, kind)
    PROVE  DocInv'
BY OnlyStep, RestingTaps DEF Refuse

LEMMA WorkingTap ==
    ASSUME DocInv, NEW t \in Taps, taps[t].pc \in WorkingPcs
    PROVE  /\ taps[t] \in Working
           /\ OneBoard(taps[t]) /\ Sourced(taps[t])
           /\ taps[t].pc = "pricing" => taps[t].inferred = {}
BY DEF DocInv, TapsInv, TapSound

LEMMA PriceAnswersStep ==
    ASSUME DocInv, NEW t \in Taps, PriceAnswers(t) PROVE DocInv'
<1> DEFINE tap == taps[t]
<1>1. PICK rows \in Replies :
        LET prices == ValidPrices(rows, Unpriced(tap))
        IN  Only(t, [tap EXCEPT !.pc = AfterPricing(tap),
                                !.lines = Priced(@, prices),
                                !.calls = @ + 1,
                                !.inferred = {<<i, prices[i]>> : i \in DOMAIN prices}])
  BY DEF PriceAnswers
<1> DEFINE prices == ValidPrices(rows, Unpriced(tap))
           pairs == {<<i, prices[i]>> : i \in DOMAIN prices}
           n == tap.calls + 1
           new == [tap EXCEPT !.pc = AfterPricing(tap),
                              !.lines = Priced(@, prices),
                              !.calls = n,
                              !.inferred = pairs]
<1>2. tap.pc = "pricing" /\ tap \in Working /\ OneBoard(tap) /\ Sourced(tap)
      /\ tap.inferred = {}
  BY WorkingTap DEF PriceAnswers, WorkingPcs
<1>3. \A i \in DOMAIN prices :
          i \in Unpriced(tap) /\ prices[i] \in Nat /\ prices[i] > 0
  BY PricesAreValid
<1>4. AfterPricing(tap) \in WorkingPcs \ {"pricing", "failed"}
  BY DEF AfterPricing, WorkingPcs
<1>5. Unpriced(tap) \subseteq Items
  BY <1>2 DEF Unpriced, Working, Renders
<1>6. pairs \in SUBSET (Items \X Nat)
  BY <1>3, <1>5
<1>12. n \in Nat
  BY <1>2 DEF Working
<1> HIDE DEF tap, prices, pairs, n
<1>7. /\ new.type = tap.type /\ new.read = tap.read
      /\ new.lines = Priced(tap.lines, prices) /\ new.inferred = pairs
      /\ new.pc = AfterPricing(tap)
  BY <1>2 DEF Working
<1> HIDE DEF new
<1>8. OneBoard(new) /\ Sourced(new) /\ new.lines \in Renders
  <2>1. tap.lines \in Renders
    BY <1>2 DEF Working
  <2>2. pairs = {<<i, prices[i]>> : i \in DOMAIN prices}
    BY DEF pairs
  <2> QED
    BY <2>1, <2>2, <1>2, <1>3, <1>7, PricedIsSound
<1>9. new \in Working
  BY <1>2, <1>4, <1>6, <1>7, <1>8, <1>12 DEF Working, new
<1>10. TapSound(new) /\ TapExcused(new, deleted)
  BY <1>4, <1>7, <1>8, <1>9 DEF TapSound, TapExcused
<1>11. Only(t, new)
  BY <1>1 DEF new, pairs, prices, tap, n
<1> QED
  BY <1>10, <1>11, OnlyStep

\* A working tap moves on with its render as it is.
LEMMA CarryOn ==
    ASSUME DocInv, NEW t \in Taps, taps[t].pc \in WorkingPcs, NEW new \in Working,
           Only(t, new), new.pc # "pricing",
           new.type = taps[t].type, new.read = taps[t].read,
           new.lines = taps[t].lines, new.inferred = taps[t].inferred
    PROVE  DocInv'
<1>1. OneBoard(new) /\ Sourced(new)
  BY WorkingTap, SameLines
<1>2. TapSound(new) /\ TapExcused(new, deleted)
  BY <1>1 DEF TapSound, TapExcused, Working, WorkingPcs
<1> QED
  BY <1>2, OnlyStep

LEMMA PriceFailsStep ==
    ASSUME DocInv, NEW t \in Taps, PriceFails(t) PROVE DocInv'
<1>1. PICK calls \in {0, 1} :
        Only(t, [taps[t] EXCEPT !.pc = AfterPricing(taps[t]), !.queued = TRUE,
                                !.calls = @ + calls])
  BY DEF PriceFails
<1>2. taps[t] \in Working /\ taps[t].pc \in WorkingPcs
  BY WorkingTap DEF PriceFails, WorkingPcs
<1>3. AfterPricing(taps[t]) \in WorkingPcs \ {"pricing", "failed"}
  BY DEF AfterPricing, WorkingPcs
<1> DEFINE n == taps[t].calls + calls
           new == [taps[t] EXCEPT !.pc = AfterPricing(taps[t]), !.queued = TRUE, !.calls = n]
<1>4. n \in Nat
  BY <1>2 DEF Working
<1> HIDE DEF n
<1>5. new \in Working /\ new.pc # "pricing"
      /\ new.type = taps[t].type /\ new.read = taps[t].read
      /\ new.lines = taps[t].lines /\ new.inferred = taps[t].inferred
  BY <1>2, <1>3, <1>4 DEF Working
<1>6. Only(t, new)
  BY <1>1 DEF n
<1> QED
  BY <1>2, <1>5, <1>6, CarryOn

LEMMA NotesReadStep ==
    ASSUME DocInv, NEW t \in Taps, NotesRead(t) PROVE DocInv'
<1>1. taps[t] \in Working /\ taps[t].pc \in WorkingPcs
  BY WorkingTap DEF NotesRead, WorkingPcs
<1>2. CASE Only(t, [taps[t] EXCEPT !.pc = "composing"])
  <2> DEFINE new == [taps[t] EXCEPT !.pc = "composing"]
  <2>1. new \in Working /\ new.pc # "pricing"
        /\ new.type = taps[t].type /\ new.read = taps[t].read
        /\ new.lines = taps[t].lines /\ new.inferred = taps[t].inferred
    BY <1>1 DEF Working, WorkingPcs
  <2> QED
    BY <1>1, <1>2, <2>1, CarryOn
<1> QED
  BY <1>2, FaultStep DEF NotesRead

LEMMA ComposeAnswersStep ==
    ASSUME DocInv, NEW t \in Taps, ComposeAnswers(t) PROVE DocInv'
<1> DEFINE tap == taps[t]
           named(w) == IF tap.type.reader = "directive" THEN w ELSE {}
<1>1. PICK written \in {{}, DOMAIN tap.lines} :
        Only(t, [tap EXCEPT !.pc = "minting",
                            !.lines = Composed(@, written, named(written)),
                            !.filled = IF written = {} THEN 0 ELSE tap.type.walk,
                            !.calls = @ + 1])
  BY DEF ComposeAnswers
<1> DEFINE crew == named(written)
           filled == IF written = {} THEN 0 ELSE tap.type.walk
           n == tap.calls + 1
           new == [tap EXCEPT !.pc = "minting",
                              !.lines = Composed(@, written, crew),
                              !.filled = filled,
                              !.calls = n]
<1>2. tap \in Working /\ OneBoard(tap) /\ Sourced(tap)
  BY WorkingTap DEF ComposeAnswers, WorkingPcs
<1>3. filled \in Nat
  <2>1. tap.type \in TypeRows
    BY <1>2 DEF Working
  <2> QED
    BY <2>1, TypeRow
<1>4. Only(t, new)
  BY <1>1
<1>10. n \in Nat
  BY <1>2 DEF Working
<1> HIDE DEF tap, crew, filled, n
<1>5. /\ new.type = tap.type /\ new.read = tap.read /\ new.pc = "minting"
      /\ new.lines = Composed(tap.lines, written, crew)
      /\ new.inferred = tap.inferred
  BY <1>2 DEF Working
<1> HIDE DEF new
<1>6. tap.lines \in Renders
  BY <1>2 DEF Working
<1>7. OneBoard(new) /\ Sourced(new) /\ new.lines \in Renders
  BY <1>2, <1>5, <1>6, ComposedIsSound
<1>8. new \in Working
  BY <1>2, <1>3, <1>5, <1>7, <1>10 DEF Working, WorkingPcs, new
<1>9. TapSound(new) /\ TapExcused(new, deleted)
  BY <1>5, <1>7, <1>8 DEF TapSound, TapExcused
<1> QED
  BY <1>4, <1>9, OnlyStep

LEMMA ComposeFailsStep ==
    ASSUME DocInv, NEW t \in Taps, ComposeFails(t) PROVE DocInv'
<1>1. PICK calls \in {0, 1} :
        Only(t, [taps[t] EXCEPT !.pc = "minting", !.queued = TRUE, !.calls = @ + calls])
  BY DEF ComposeFails
<1>2. taps[t] \in Working /\ taps[t].pc \in WorkingPcs
  BY WorkingTap DEF ComposeFails, WorkingPcs
<1> DEFINE n == taps[t].calls + calls
           new == [taps[t] EXCEPT !.pc = "minting", !.queued = TRUE, !.calls = n]
<1>3. n \in Nat
  BY <1>2 DEF Working
<1> HIDE DEF n
<1>5. new \in Working /\ new.pc # "pricing"
      /\ new.type = taps[t].type /\ new.read = taps[t].read
      /\ new.lines = taps[t].lines /\ new.inferred = taps[t].inferred
  BY <1>2, <1>3 DEF Working, WorkingPcs
<1>6. Only(t, new)
  BY <1>1 DEF n
<1> QED
  BY <1>2, <1>5, <1>6, CarryOn

-----------------------------------------------------------------------------
(* The number and the document *)

\* An enumeration of a finite set is a sequence, empty only for the empty set.
LEMMA EnumerationHolds ==
    ASSUME NEW S, IsFiniteSet(S)
    PROVE  /\ SetToSeq(S) \in Seq(S)
           /\ SetToSeq(S) = <<>> <=> S = {}
<1> DEFINE n == Cardinality(S)
<1>1. n \in Nat /\ ExistsBijection(1..n, S)
  BY FS_CardinalityType
<1>2. PICK f \in [1..n -> S] : f \in Bijection(1..n, S)
  BY <1>1 DEF ExistsBijection, Bijection, Injection
<1>3. IsInjective(f)
  BY <1>2 DEF IsInjective, Bijection, Injection
<1>4. SetToSeq(S) \in [1..n -> S]
  BY <1>3 DEF SetToSeq
<1>5. SetToSeq(S) \in Seq(S) /\ Len(SetToSeq(S)) = n
  BY <1>1, <1>4, FunctionIsSeq
<1>6. n = 0 <=> S = {}
  BY FS_EmptySet
<1> QED
  BY <1>5, <1>6, EmptySeq

\* The total of a render that is one.
LEMMA TotalHolds ==
    ASSUME NEW lines \in Renders
    PROVE  Total(lines) = NoAmount <=> \A i \in DOMAIN lines : lines[i].amount = NoAmount
<1> DEFINE S == {i \in DOMAIN lines : lines[i].amount # NoAmount}
           ids == SetToSeq(S)
           amounts == [k \in DOMAIN ids |-> lines[ids[k]].amount]
<1>1. PICK T \in SUBSET Items : lines \in [T -> LineRows]
  BY DEF Renders
<1>2. IsFiniteSet(S)
  BY <1>1, FS_Subset, DocumentAssumption
<1>3. \A i \in S : lines[i].amount \in Nat
  BY <1>1 DEF LineRows
<1>4. Total(lines) = IF ids = <<>> THEN NoAmount ELSE SumOf(amounts)
  BY DEF Total
<1>5. S = {} <=> \A i \in DOMAIN lines : lines[i].amount = NoAmount
  OBVIOUS
<1> HIDE DEF S
<1>6. ids \in Seq(S) /\ (ids = <<>> <=> S = {})
  BY <1>2, EnumerationHolds
<1> HIDE DEF ids
<1>7. DOMAIN ids = 1..Len(ids) /\ Len(ids) \in Nat
  BY <1>6, LenProperties
<1>8. \A k \in 1..Len(ids) : ids[k] \in S
  BY <1>6, ElementOfSeq
<1>9. amounts \in [1..Len(ids) -> Nat]
  BY <1>3, <1>7, <1>8
<1>10. amounts \in Seq(Nat)
  BY <1>7, <1>9, FunctionIsSeq
<1>11. SumOf(amounts) # NoAmount
  BY <1>10, SumIsNat, DocumentAssumption
<1> QED
  BY <1>4, <1>5, <1>6, <1>11

LEMMA DocumentFields ==
    ASSUME NEW tap, NEW number
    PROVE  LET d == Document(tap, number)
           IN  /\ DOMAIN d = DocFields
               /\ d.kind = tap.kind /\ d.number = number
               /\ d.type = tap.type /\ d.read = tap.read
               /\ d.lines = tap.lines /\ d.inferred = tap.inferred
               /\ d.total = Total(tap.lines)
<1> DEFINE total == Total(tap.lines)
           gaps == FieldGaps(tap.type, tap.filled)
<1>1. Document(tap, number) =
        [walk |-> tap.walk, kind |-> tap.kind, number |-> number, live |-> TRUE,
         type |-> tap.type, read |-> tap.read, lines |-> tap.lines, total |-> total,
         gaps |-> gaps, queued |-> tap.queued, inferred |-> tap.inferred]
  BY DEF Document
<1>2. total = Total(tap.lines)
  OBVIOUS
<1> HIDE DEF total, gaps
<1> QED
  BY <1>1, <1>2 DEF DocFields

\* The next number keeps the numbers of its kind dense, and of the others.
LEMMA MintKeepsNumbers ==
    ASSUME PapersInv, NEW kind \in Kinds, NEW d,
           d.kind = kind, d.number = sequence[kind] + 1, DocSound(d),
           sequence' = [sequence EXCEPT ![kind] = sequence[kind] + 1],
           documents' = documents \cup {d}
    PROVE  PapersInv'
<1>1. sequence' \in [Kinds -> Nat]
  BY DEF PapersInv
<1>2. \A e \in documents' : DocSound(e)
  BY DEF PapersInv
<1>3. ASSUME NEW k \in Kinds
      PROVE  /\ {e.number : e \in {f \in documents' : f.kind = k}} = 1..sequence'[k]
             /\ \A e, f \in documents' :
                   e.kind = k /\ f.kind = k /\ e.number = f.number => e = f
  <2>1. /\ {e.number : e \in {f \in documents : f.kind = k}} = 1..sequence[k]
        /\ \A e, f \in documents :
              e.kind = k /\ f.kind = k /\ e.number = f.number => e = f
        /\ sequence[k] \in Nat
    BY DEF PapersInv, Numbered
  <2>2. CASE k # kind
    <3>1. {f \in documents' : f.kind = k} = {f \in documents : f.kind = k}
      BY <2>2
    <3>2. sequence'[k] = sequence[k]
      BY <2>2 DEF PapersInv
    <3> QED
      BY <2>1, <2>2, <3>1, <3>2
  <2>3. CASE k = kind
    <3>1. {f \in documents' : f.kind = k} = {f \in documents : f.kind = k} \cup {d}
      BY <2>3
    <3>2. sequence'[k] = sequence[k] + 1
      BY <2>3 DEF PapersInv
    <3>3. {e.number : e \in {f \in documents' : f.kind = k}}
              = 1..sequence[k] \cup {sequence[k] + 1}
      BY <2>1, <2>3, <3>1
    <3>4. 1..sequence[k] \cup {sequence[k] + 1} = 1..(sequence[k] + 1)
      BY <2>1
    <3>5. \A e \in documents : e.kind = k => e.number # d.number
      <4> SUFFICES ASSUME NEW e \in documents, e.kind = k
                   PROVE  e.number # d.number
        OBVIOUS
      <4>1. e.number \in 1..sequence[k]
        BY <2>1
      <4> QED
        BY <4>1, <2>1, <2>3
    <3> QED
      BY <2>1, <3>2, <3>3, <3>4, <3>5
  <2> QED
    BY <2>2, <2>3
<1> QED
  BY <1>1, <1>2, <1>3 DEF PapersInv, Numbered

LEMMA MintStep == ASSUME DocInv, NEW t \in Taps, Mint(t) PROVE DocInv'
<1> DEFINE tap == taps[t]
           number == sequence[tap.kind] + 1
           d == Document(tap, number)
<1>1. tap \in Working /\ OneBoard(tap) /\ Sourced(tap) /\ tap.pc = "minting"
  BY WorkingTap DEF Mint, WorkingPcs
<1>2. CASE tap.walk \in deleted
  <2>1. Only(t, Failed(tap.walk, FALSE))
    BY <1>2 DEF Mint
  <2> QED
    BY <1>2, <2>1, OnlyStep, RestingTaps
<1>3. CASE Fault(t)
  BY <1>3, FaultStep
<1>4. CASE /\ sequence' = [sequence EXCEPT ![tap.kind] = number]
           /\ documents' = documents \cup {d}
           /\ MoveTo(t, [tap EXCEPT !.pc = "recording"])
           /\ UNCHANGED <<board, deleted>>
  <2> DEFINE new == [tap EXCEPT !.pc = "recording"]
  <2>1. /\ new \in Working /\ new.pc = "recording"
        /\ new.type = tap.type /\ new.read = tap.read
        /\ new.lines = tap.lines /\ new.inferred = tap.inferred
    BY <1>1 DEF Working, WorkingPcs
  <2>2. OneBoard(new) /\ Sourced(new)
    BY <1>1, <2>1, SameLines
  <2>3. TapSound(new) /\ TapExcused(new, deleted)
    BY <2>1, <2>2 DEF TapSound, TapExcused
  <2>4. TapsInv'
    BY <1>4, <2>3, MoveStep DEF DocInv
  <2>5. /\ DOMAIN d = DocFields /\ d.kind = tap.kind /\ d.number = number
        /\ d.type = tap.type /\ d.read = tap.read
        /\ d.lines = tap.lines /\ d.inferred = tap.inferred
        /\ d.total = Total(tap.lines)
    BY DocumentFields
  <2>6. OneBoard(d) /\ Sourced(d)
    BY <1>1, <2>5, SameLines
  <2>7. tap.kind \in Kinds
    BY <1>1 DEF Working
  <2>10. TotalIsOfLines(d)
    <3>1. tap.lines \in Renders
      BY <1>1 DEF Working
    <3> QED
      BY <2>5, <3>1, TotalHolds DEF TotalIsOfLines
  <2>8. DocSound(d)
    BY <2>5, <2>6, <2>7, <2>10 DEF DocSound
  <2> HIDE DEF d
  <2>9. PapersInv'
    BY <1>4, <2>5, <2>7, <2>8, MintKeepsNumbers DEF DocInv
  <2> QED
    BY <1>4, <2>4, <2>9 DEF DocInv
<1> QED
  BY <1>2, <1>3, <1>4 DEF Mint

LEMMA RecordUsageStep == ASSUME DocInv, NEW t \in Taps, RecordUsage(t) PROVE DocInv'
<1> DEFINE new == [pc |-> "reading", walk |-> taps[t].walk]
<1>1. TapSound(new) /\ TapExcused(new, deleted)
  BY DEF TapSound, TapExcused, WorkingPcs
<1>2. CASE MoveTo(t, new) /\ UNCHANGED <<board, deleted, sequence, documents>>
  <2>1. TapsInv'
    BY <1>1, <1>2, MoveStep DEF DocInv
  <2>2. PapersInv'
    BY <1>2 DEF DocInv, PapersInv, Numbered
  <2> QED
    BY <1>2, <2>1, <2>2 DEF DocInv
<1> QED
  BY <1>2, FaultStep DEF RecordUsage

LEMMA ReadBackStep == ASSUME DocInv, NEW t \in Taps, ReadBack(t) PROVE DocInv'
<1>1. CASE taps[t].walk \in deleted
  BY <1>1, OnlyStep, RestingTaps DEF ReadBack
<1>2. CASE taps[t].walk \notin deleted
  BY <1>2, OnlyStep, FaultStep, RestingTaps DEF ReadBack
<1> QED
  BY <1>1, <1>2

-----------------------------------------------------------------------------
(* The rest of the app *)

LEMMA EditBoardStep == ASSUME DocInv, NEW w \in Walks, EditBoard(w) PROVE DocInv'
<1>1. UNCHANGED <<deleted, taps, sequence, documents>>
  BY DEF EditBoard
<1>2. PICK i \in Items :
        LET others  == [j \in DOMAIN board[w] \ {i} |-> board[w][j]]
            written == {[j \in DOMAIN board[w] \cup {i} |->
                            IF j = i THEN row ELSE board[w][j]] : row \in ItemRows}
        IN  \E new \in ({others} \cup written) \ {board[w]} :
                board' = [board EXCEPT ![w] = new]
  BY DEF EditBoard
<1> DEFINE others == [j \in DOMAIN board[w] \ {i} |-> board[w][j]]
           wrote(row) == [j \in DOMAIN board[w] \cup {i} |->
                             IF j = i THEN row ELSE board[w][j]]
<1>3. PICK S \in SUBSET Items : board[w] \in [S -> ItemRows]
  BY DEF DocInv, Boards
<1>4. others \in [S \ {i} -> ItemRows]
  BY <1>3
<1>5. \A row \in ItemRows : wrote(row) \in [S \cup {i} -> ItemRows]
  BY <1>3
<1>6. PICK new \in {others} \cup {wrote(row) : row \in ItemRows} :
          board' = [board EXCEPT ![w] = new]
  BY <1>2
<1> HIDE DEF others, wrote
<1>7. new \in Boards
  BY <1>4, <1>5, <1>6 DEF Boards
<1>8. board' \in [Walks -> Boards]
  BY <1>6, <1>7 DEF DocInv
<1>9. TapsInv' /\ PapersInv'
  BY <1>1 DEF DocInv, TapsInv, PapersInv, Numbered
<1> QED
  BY <1>8, <1>9 DEF DocInv

\* A tombstone hides a document and says nothing new.
LEMMA TombstonedFields ==
    ASSUME NEW d, NEW w, DOMAIN d = DocFields
    PROVE  LET e == Tombstoned(d, w)
           IN  /\ DOMAIN e = DocFields
               /\ e.kind = d.kind /\ e.number = d.number
               /\ e.type = d.type /\ e.read = d.read
               /\ e.lines = d.lines /\ e.inferred = d.inferred
               /\ e.total = d.total
BY DEF Tombstoned, DocFields

LEMMA DeleteWalkStep == ASSUME DocInv, NEW w \in Walks, DeleteWalk(w) PROVE DocInv'
<1>1. /\ deleted' = deleted \cup {w}
      /\ board' = [board EXCEPT ![w] = << >>]
      /\ documents' = {Tombstoned(d, w) : d \in documents}
      /\ UNCHANGED <<taps, sequence>>
  BY DEF DeleteWalk
<1>2. << >> \in Boards
  <2>1. << >> \in [{} -> ItemRows]
    OBVIOUS
  <2> QED
    BY <2>1 DEF Boards
<1>3. board' \in [Walks -> Boards]
  BY <1>1, <1>2 DEF DocInv
<1>4. TapsInv'
  BY <1>1 DEF DocInv, TapsInv, TapExcused
<1>5. \A d \in documents :
          LET e == Tombstoned(d, w)
          IN  /\ DocSound(e)
              /\ e.kind = d.kind /\ e.number = d.number
  <2> SUFFICES ASSUME NEW d \in documents
               PROVE  /\ DocSound(Tombstoned(d, w))
                      /\ Tombstoned(d, w).kind = d.kind
                      /\ Tombstoned(d, w).number = d.number
    OBVIOUS
  <2>1. DocSound(d)
    BY DEF DocInv, PapersInv
  <2>2. LET e == Tombstoned(d, w)
        IN  /\ DOMAIN e = DocFields
            /\ e.kind = d.kind /\ e.number = d.number
            /\ e.type = d.type /\ e.read = d.read
            /\ e.lines = d.lines /\ e.inferred = d.inferred
            /\ e.total = d.total
    BY <2>1, TombstonedFields DEF DocSound
  <2>3. OneBoard(Tombstoned(d, w)) /\ Sourced(Tombstoned(d, w))
    BY <2>1, <2>2, SameLines DEF DocSound
  <2> QED
    BY <2>1, <2>2, <2>3, Zenon DEF DocSound, TotalIsOfLines
<1>6. ASSUME NEW kind \in Kinds
      PROVE  /\ {d.number : d \in {e \in documents' : e.kind = kind}}
                    = 1..sequence'[kind]
             /\ \A d, e \in documents' :
                   d.kind = kind /\ e.kind = kind /\ d.number = e.number => d = e
  <2>1. /\ {d.number : d \in {e \in documents : e.kind = kind}} = 1..sequence[kind]
        /\ \A d, e \in documents :
              d.kind = kind /\ e.kind = kind /\ d.number = e.number => d = e
    BY DEF DocInv, PapersInv, Numbered
  <2>2. {d.number : d \in {e \in documents' : e.kind = kind}}
            = {d.number : d \in {e \in documents : e.kind = kind}}
    BY <1>1, <1>5
  <2> QED
    BY <1>1, <1>5, <2>1, <2>2
<1>7. PapersInv'
  BY <1>1, <1>5, <1>6 DEF DocInv, PapersInv, Numbered
<1> QED
  BY <1>3, <1>4, <1>7 DEF DocInv

LEMMA KillStep == ASSUME DocInv, Kill PROVE DocInv'
<1>1. /\ taps' = [t \in Taps |-> IF taps[t].pc = "idle" THEN Idle ELSE Over]
      /\ UNCHANGED <<board, deleted, sequence, documents>>
  BY DEF Kill
<1>2. TapsInv'
  BY <1>1, RestingTaps DEF TapsInv
<1>3. PapersInv'
  BY <1>1 DEF DocInv, PapersInv, Numbered
<1> QED
  BY <1>1, <1>2, <1>3 DEF DocInv

-----------------------------------------------------------------------------
(* The build: the invariant *)

LEMMA DocInvInit == DocInit => DocInv
<1> SUFFICES ASSUME DocInit PROVE DocInv
  OBVIOUS
<1>1. board \in [Walks -> Boards]
  BY DocumentAssumption DEF DocInit
<1>2. TapsInv
  BY RestingTaps DEF DocInit, TapsInv
<1>3. PapersInv
  BY DEF DocInit, PapersInv, Numbered
<1> QED
  BY <1>1, <1>2, <1>3 DEF DocInv

LEMMA DocInvStep == DocInv /\ [DocNext]_docVars => DocInv'
<1> SUFFICES ASSUME DocInv, [DocNext]_docVars PROVE DocInv'
  OBVIOUS
<1>1. CASE \E t \in Taps : TapNext(t)
  <2>1. PICK t \in Taps : TapNext(t)
    BY <1>1
  <2>2. CASE \E w \in Walks, kind \in Kinds : Accept(t, w, kind) \/ Refuse(t, w, kind)
    BY <2>2, AcceptStep, RefuseStep
  <2>3. CASE PriceAnswers(t) \/ PriceFails(t)
    BY <2>3, PriceAnswersStep, PriceFailsStep
  <2>4. CASE NotesRead(t)
    BY <2>4, NotesReadStep
  <2>5. CASE ComposeAnswers(t) \/ ComposeFails(t)
    BY <2>5, ComposeAnswersStep, ComposeFailsStep
  <2>6. CASE Mint(t) \/ RecordUsage(t) \/ ReadBack(t)
    BY <2>6, MintStep, RecordUsageStep, ReadBackStep
  <2> QED
    BY <2>1, <2>2, <2>3, <2>4, <2>5, <2>6 DEF TapNext
<1>2. CASE \E w \in Walks : EditBoard(w) \/ DeleteWalk(w)
  BY <1>2, EditBoardStep, DeleteWalkStep
<1>3. CASE \E kind \in Kinds : RemoveType(kind)
  <2>1. UNCHANGED <<board, deleted, taps, sequence, documents>>
    BY <1>3 DEF RemoveType
  <2> QED
    BY <2>1 DEF DocInv, TapsInv, PapersInv, Numbered
<1>4. CASE Kill
  BY <1>4, KillStep
<1>5. CASE UNCHANGED docVars
  <2>1. UNCHANGED <<board, deleted, taps, sequence, documents>>
    BY <1>5 DEF docVars
  <2> QED
    BY <2>1 DEF DocInv, TapsInv, PapersInv, Numbered
<1> QED
  BY <1>1, <1>2, <1>3, <1>4, <1>5 DEF DocNext

\* As many documents of a kind as numbers minted for it: the numbers name
\* them one to one.
LEMMA InvNumbersAreDense == DocInv => NumbersAreDense
<1> SUFFICES ASSUME DocInv, NEW kind \in Kinds
             PROVE  LET minted == {d \in documents : d.kind = kind}
                    IN  /\ {d.number : d \in minted} = 1..sequence[kind]
                        /\ Cardinality(minted) = sequence[kind]
  BY DEF NumbersAreDense
<1> DEFINE minted == {d \in documents : d.kind = kind}
           numberOf == [d \in minted |-> d.number]
           n == sequence[kind]
<1>1. /\ {d.number : d \in minted} = 1..n
      /\ \A d, e \in minted : d.number = e.number => d = e
      /\ n \in Nat
  BY DEF DocInv, PapersInv, Numbered
<1> HIDE DEF minted, n
<1>2. numberOf \in [minted -> 1..n]
  BY <1>1
<1>3. \A d, e \in minted : numberOf[d] = numberOf[e] => d = e
  BY <1>1
<1>4. numberOf \in Injection(minted, 1..n)
  BY <1>2, <1>3 DEF Injection, IsInjective
<1>5. numberOf \in Surjection(minted, 1..n)
  BY <1>1, <1>2 DEF Surjection
<1>6. IsFiniteSet(1..n) /\ Cardinality(1..n) = n
  BY <1>1, FS_Interval
<1>7. Cardinality(minted) = Cardinality(1..n)
  BY <1>4, <1>5, <1>6, FS_Injection
<1> QED
  BY <1>1, <1>6, <1>7 DEF minted, n

-----------------------------------------------------------------------------
(* The build: the theorems *)

\* The build's inductive invariant holds whatever taps, edits, deletes, faults
\* and kills interleave.
THEOREM DocumentInvariant == DocSpec => []DocInv
BY DocInvInit, DocInvStep, PTL DEF DocSpec

\* However taps, edits, deletes, faults and kills interleave, the documents of
\* a kind carry the numbers 1..n, each once.
THEOREM NumbersStayDense == DocSpec => []NumbersAreDense
BY DocumentInvariant, InvNumbersAreDense, PTL

\* A document shows the board its tap read, whatever moved while the model
\* was asked.
THEOREM DocumentsShowOneBoard == DocSpec => []OneBoardPerDocument
<1>1. DocInv => OneBoardPerDocument
  BY DEF DocInv, PapersInv, DocSound, OneBoard, OneBoardPerDocument
<1> QED
  BY <1>1, DocumentInvariant, PTL

\* A line whose title speaks one total shows it, $0 included; any other amount
\* was inferred for a line the reader took no total from, and is not 0; gaps
\* are the priced lines without an amount, and the total is null exactly when
\* no line has one.
THEOREM NoAmountIsInvented == DocSpec => []AmountsHaveASource
<1>1. DocInv => AmountsHaveASource
  BY DEF DocInv, PapersInv, DocSound, Sourced, SourcedLine, TotalIsOfLines, AmountsHaveASource
<1> QED
  BY <1>1, DocumentInvariant, PTL

\* Only the store, or the delete of its walk, fails a build.
THEOREM NoBuildFailsForTheModel == DocSpec => []ModelNeverFailsABuild
<1>1. DocInv => ModelNeverFailsABuild
  BY DEF DocInv, TapsInv, TapExcused, ModelNeverFailsABuild
<1> QED
  BY <1>1, DocumentInvariant, PTL

-----------------------------------------------------------------------------
(* The stored types: one row *)

RowOK(row) == row = Absent \/ row \in StoredRows

\* The row is the one a seeding wrote, or is still to be written by one.
AsSeeded(row) ==
    row = Absent \/ (row.state = "live" /\ row.stamp = 0 /\ row.device = "builtin")

\* Shapes that differ at most in their trade, which a migration may widen.
SameButTrade(shape, saved) == [shape EXCEPT !.trade = saved.trade] = saved

\* The row keeps the operator's word: a removal is a tombstone, and an edit is
\* stamped, so that no seeding takes it for the row it wrote.  Where he said
\* nothing the row is a seeding's.
KeepsWord(row, word) ==
    /\ RowOK(row)
    /\ word = Absent => AsSeeded(row)
    /\ word.state = "removed" => row.state = "dead"
    /\ word.state = "saved" =>
          /\ row.state = "live"
          /\ row.stamp # 0
          /\ SameButTrade(row.shape, word.shape)

\* The row says what the release says.
IsReleased(row, shape) == row.state = "live" /\ row.shape = shape

Queued(id) == \E k \in 1..Len(unseeded) : unseeded[k] = id

\* A launch has yet to seed what the operator never touched, or has done so.
SeedingReaches ==
    launch # "closed" =>
        \A id \in DOMAIN Builtins :
            theirs[id] = Absent => Queued(id) \/ IsReleased(schemas[id], Builtins[id])

SchemaInv ==
    /\ SchemaTypeOK
    /\ clock # 0
    /\ launch = "open" => unseeded = <<>>
    /\ \A id \in SchemaIds : KeepsWord(schemas[id], theirs[id])
    /\ SeedingReaches

LEMMA SameShape == \A shape \in ShapeRows : SameButTrade(shape, shape)
BY DEF ShapeRows, SameButTrade

\* A migration that widens the trade changes nothing else.
LEMMA TradeIsAll ==
    ASSUME NEW shape, NEW saved \in ShapeRows, SameButTrade(shape, saved)
    PROVE  SameButTrade([shape EXCEPT !.trade = Universal], saved)
<1> DEFINE wide == [shape EXCEPT !.trade = Universal]
<1>1. [wide EXCEPT !.trade = saved.trade] = [shape EXCEPT !.trade = saved.trade]
  OBVIOUS
<1> QED
  BY <1>1 DEF SameButTrade

\* The types of a release are stored rows' shapes, under ids of the store.
LEMMA BuiltinsAreShapes ==
    ASSUME NEW r \in Releases, NEW id \in DOMAIN Catalog[r]
    PROVE  id \in SchemaIds /\ Catalog[r][id] \in ShapeRows
<1>1. PICK ids \in SUBSET SchemaIds : Catalog[r] \in [ids -> ShapeRows]
  BY SchemaAssumption
<1> QED
  BY <1>1

LEMMA UniversalisedIsRow ==
    ASSUME NEW row, row \in StoredRows, row.device = "builtin"
    PROVE  /\ Universalised(row) \in StoredRows
           /\ Universalised(row).state = row.state
           /\ Universalised(row).stamp = row.stamp
           /\ Universalised(row).device = row.device
           /\ Universalised(row).shape = [row.shape EXCEPT !.trade = Universal]
<1> DEFINE wide == [row.shape EXCEPT !.trade = Universal]
<1>1. row.state # "absent" /\ row.shape \in ShapeRows
  BY DEF StoredRows
<1>2. wide \in ShapeRows
  BY <1>1 DEF ShapeRows
<1>3. Universalised(row) = [row EXCEPT !.shape = wide]
  BY <1>1 DEF Universalised
<1> HIDE DEF wide
<1> QED
  BY <1>2, <1>3 DEF StoredRows, wide

LEMMA UniversalisedKeepsWord ==
    ASSUME NEW row, NEW word \in {Absent, Removed} \cup [state : {"saved"}, shape : ShapeRows],
           KeepsWord(row, word)
    PROVE  KeepsWord(Universalised(row), word)
<1>1. CASE row \in StoredRows /\ row.device = "builtin"
  <2> DEFINE new == Universalised(row)
  <2>1. /\ new \in StoredRows /\ new.state = row.state /\ new.stamp = row.stamp
        /\ new.device = row.device /\ new.shape = [row.shape EXCEPT !.trade = Universal]
    BY <1>1, UniversalisedIsRow
  <2> HIDE DEF new
  <2>2. word.state = "saved" => word.shape \in ShapeRows
    BY DEF Absent, Removed
  <2>3. word.state = "saved" => SameButTrade(new.shape, word.shape)
    BY <2>1, <2>2, TradeIsAll DEF KeepsWord
  <2>4. row # Absent
    BY <1>1 DEF Absent, StoredRows
  <2>5. word = Absent => AsSeeded(new)
    BY <2>1, <2>4 DEF KeepsWord, AsSeeded
  <2> QED
    BY <2>1, <2>3, <2>5 DEF KeepsWord, RowOK, new
<1>2. CASE row = Absent \/ row.device # "builtin"
  BY <1>2 DEF Universalised, Absent
<1> QED
  BY <1>1, <1>2 DEF KeepsWord, RowOK

\* Seeding writes no tombstone and no stamped row, and every untouched one.
LEMMA SeededKeepsWord ==
    ASSUME NEW row, NEW shape \in ShapeRows, NEW word, KeepsWord(row, word)
    PROVE  /\ KeepsWord(Seeded(row, shape), word)
           /\ word = Absent => IsReleased(Seeded(row, shape), shape)
<1> DEFINE new == Seeded(row, shape)
<1>1. CASE row = Absent
  <2>1. new = Row(shape, 0, "builtin")
    BY <1>1 DEF Seeded, Absent
  <2>2. new \in StoredRows
    BY <2>1 DEF Row, StoredRows
  <2>3. new.state = "live" /\ new.stamp = 0 /\ new.device = "builtin" /\ new.shape = shape
    BY <2>1 DEF Row
  <2>4. row.state = "absent"
    BY <1>1 DEF Absent
  <2> HIDE DEF new
  <2> QED
    BY <2>2, <2>3, <2>4 DEF KeepsWord, RowOK, AsSeeded, IsReleased, new
<1>2. CASE row \in StoredRows /\ row.state = "live" /\ row.device = "builtin" /\ row.stamp = 0
  <2>1. new = [row EXCEPT !.shape = shape]
    BY <1>2 DEF Seeded
  <2>2. new \in StoredRows
    BY <1>2, <2>1 DEF StoredRows
  <2>3. new.state = "live" /\ new.stamp = 0 /\ new.device = "builtin" /\ new.shape = shape
    BY <1>2, <2>1 DEF StoredRows
  <2> HIDE DEF new
  <2> QED
    BY <1>2, <2>2, <2>3 DEF KeepsWord, RowOK, AsSeeded, IsReleased, new
<1>3. CASE row \in StoredRows /\ ~(row.state = "live" /\ row.device = "builtin" /\ row.stamp = 0)
  <2>1. row # Absent /\ row.state # "absent"
    BY <1>3 DEF StoredRows, Absent
  <2>2. Seeded(row, shape) = row
    BY <1>3, <2>1 DEF Seeded
  <2>3. word # Absent
    BY <1>3, <2>1 DEF KeepsWord, AsSeeded
  <2> QED
    BY <2>2, <2>3
<1> QED
  BY <1>1, <1>2, <1>3 DEF KeepsWord, RowOK

-----------------------------------------------------------------------------
(* The stored types: the steps *)

LEMMA SchemaInvInit == SchemaInit => SchemaInv
<1> SUFFICES ASSUME SchemaInit PROVE SchemaInv
  OBVIOUS
<1>1. schemas \in OldStores
  BY DEF SchemaInit
<1>2. /\ schemas \in [SchemaIds -> {Absent} \cup StoredRows]
      /\ \A id \in SchemaIds : schemas[id] = Absent \/ schemas[id] \in StoredRows
  BY <1>1, SchemaAssumption
<1>3. ASSUME NEW id \in SchemaIds
      PROVE  /\ KeepsWord(schemas[id], theirs[id])
             /\ theirs[id] \in {Absent, Removed} \cup [state : {"saved"}, shape : ShapeRows]
  <2>1. theirs[id] = CASE schemas[id].state = "absent" -> Absent
                       [] schemas[id].state = "dead" -> Removed
                       [] OTHER -> IF schemas[id].stamp = 0 THEN Absent
                                   ELSE Saved(schemas[id].shape)
    BY DEF SchemaInit
  <2>2. CASE schemas[id] = Absent
    BY <2>1, <2>2 DEF Absent, KeepsWord, RowOK, AsSeeded
  <2>3. CASE schemas[id] \in StoredRows
    <3>1. /\ RowOK(schemas[id]) /\ schemas[id].shape \in ShapeRows
          /\ schemas[id].state \in {"live", "dead"}
      BY <2>3 DEF StoredRows, RowOK
    <3>2. CASE schemas[id].state = "dead"
      BY <2>1, <3>1, <3>2 DEF Removed, Absent, KeepsWord
    <3>3. CASE schemas[id].state = "live" /\ schemas[id].stamp = 0
      <4>1. schemas[id].device = "builtin"
        BY <1>1, <3>3, SchemaAssumption
      <4>2. theirs[id] = Absent
        BY <2>1, <3>3
      <4> QED
        BY <3>1, <3>3, <4>1, <4>2 DEF Absent, KeepsWord, AsSeeded
    <3>4. CASE schemas[id].state = "live" /\ schemas[id].stamp # 0
      <4>1. theirs[id] = Saved(schemas[id].shape)
        BY <2>1, <3>4
      <4> QED
        BY <3>1, <3>4, <4>1, SameShape DEF Saved, Absent, KeepsWord
    <3> QED
      BY <3>1, <3>2, <3>3, <3>4
  <2> QED
    BY <1>2, <2>2, <2>3
<1>4. /\ theirs = [id \in SchemaIds |-> theirs[id]] /\ clock = 1
      /\ migrated = FALSE /\ release \in Releases
      /\ launch = "closed" /\ unseeded = <<>>
  BY DEF SchemaInit
<1>5. SchemaTypeOK
  <2>1. unseeded \in Seq(DOMAIN Builtins)
    BY ONLY <1>4, EmptySeq
  <2>2. theirs \in [SchemaIds -> {Absent, Removed} \cup [state : {"saved"}, shape : ShapeRows]]
    BY <1>3, <1>4
  <2> QED
    BY <1>2, <1>4, <2>1, <2>2 DEF SchemaTypeOK
<1> QED
  BY <1>3, <1>4, <1>5 DEF SchemaInv, SeedingReaches

\* A launch queues every built-in of the release.
LEMMA LaunchStep == SchemaInv /\ Launch => SchemaInv'
<1> SUFFICES ASSUME SchemaInv, Launch PROVE SchemaInv'
  OBVIOUS
<1>1. /\ launch' = "seeding" /\ unseeded' = Keep(SeedOrder, DOMAIN Builtins)
      /\ release' = release /\ clock' = clock /\ theirs' = theirs
      /\ Migrate
  BY DEF Launch
<1>2. /\ schemas' \in [SchemaIds -> {Absent} \cup StoredRows]
      /\ \A id \in SchemaIds : KeepsWord(schemas'[id], theirs[id])
  <2>1. CASE migrated
    BY <1>1, <2>1 DEF Migrate, SchemaInv, SchemaTypeOK
  <2>2. CASE ~migrated
    <3>1. schemas' = [id \in SchemaIds |->
                          IF id \in DOMAIN UniversalTypes \ {"report"}
                          THEN Universalised(schemas[id]) ELSE schemas[id]]
      BY <1>1, <2>2 DEF Migrate
    <3>2. \A id \in SchemaIds :
              KeepsWord(schemas[id], theirs[id])
              /\ theirs[id] \in {Absent, Removed} \cup [state : {"saved"}, shape : ShapeRows]
      BY DEF SchemaInv, SchemaTypeOK
    <3>3. \A id \in SchemaIds : KeepsWord(schemas'[id], theirs[id])
      BY <3>1, <3>2, UniversalisedKeepsWord
    <3>4. \A id \in SchemaIds : schemas'[id] \in {Absent} \cup StoredRows
      BY <3>3 DEF KeepsWord, RowOK
    <3> QED
      BY <3>1, <3>3, <3>4
  <2> QED
    BY <2>1, <2>2 DEF SchemaInv, SchemaTypeOK
<1>3. SeedOrder \in Seq(SchemaIds) /\ release \in Releases
  BY SchemaAssumption DEF SchemaInv, SchemaTypeOK
<1>4. /\ unseeded' \in Seq(DOMAIN Builtins)
      /\ \A id \in DOMAIN Builtins : \E k \in 1..Len(unseeded') : unseeded'[k] = id
  <2> DEFINE queue == Keep(SeedOrder, DOMAIN Builtins)
  <2>1. /\ Covers(queue, SeedOrder, DOMAIN Builtins, Len(SeedOrder))
        /\ queue \in Seq(SchemaIds)
    BY <1>3, KeepCovers, KeepIsSeq
  <2>2. Len(queue) \in Nat /\ queue \in [1..Len(queue) -> SchemaIds]
    BY <2>1, LenProperties
  <2> HIDE DEF queue
  <2>3. queue \in [1..Len(queue) -> DOMAIN Builtins]
    BY <2>1, <2>2 DEF Covers
  <2>4. queue \in Seq(DOMAIN Builtins)
    BY <2>2, <2>3, FunctionIsSeq
  <2>5. \A id \in SchemaIds : \E j \in 1..Len(SeedOrder) : SeedOrder[j] = id
    BY <1>3, LenProperties DEF SchemaIds
  <2>6. \A id \in DOMAIN Builtins : id \in SchemaIds
    BY <1>3, BuiltinsAreShapes DEF Builtins
  <2> QED
    BY <1>1, <2>1, <2>4, <2>5, <2>6 DEF Covers, queue
<1>5. Builtins' = Builtins
  BY <1>1 DEF Builtins
<1>6. SchemaTypeOK'
  BY <1>1, <1>2, <1>4, <1>5 DEF SchemaInv, SchemaTypeOK, Migrate
<1>7. SeedingReaches'
  BY <1>1, <1>4, <1>5 DEF SeedingReaches, Queued
<1> QED
  BY <1>1, <1>2, <1>6, <1>7 DEF SchemaInv

\* What is seeded is that of the release; the others stay in the queue.
LEMMA SeedNextStep == SchemaInv /\ SeedNext => SchemaInv'
<1> SUFFICES ASSUME SchemaInv, SeedNext PROVE SchemaInv'
  OBVIOUS
<1> DEFINE seed == Head(unseeded)
           shape == Builtins[seed]
<1>1. /\ launch = "seeding" /\ unseeded # <<>>
      /\ schemas' = [schemas EXCEPT ![seed] = Seeded(@, shape)]
      /\ unseeded' = Tail(unseeded)
      /\ UNCHANGED <<migrated, release, launch, clock, theirs>>
  BY DEF SeedNext
<1>2. unseeded \in Seq(DOMAIN Builtins) /\ release \in Releases
  BY DEF SchemaInv, SchemaTypeOK
<1>3. /\ unseeded' \in Seq(DOMAIN Builtins)
      /\ seed \in DOMAIN Builtins
      /\ \A k \in 1..Len(unseeded) :
            unseeded[k] = seed \/ \E j \in 1..Len(unseeded') : unseeded'[j] = unseeded[k]
  <2>1. /\ Tail(unseeded) \in Seq(DOMAIN Builtins) /\ Head(unseeded) = unseeded[1]
        /\ Head(unseeded) \in DOMAIN Builtins
        /\ Len(Tail(unseeded)) = Len(unseeded) - 1
        /\ \A i \in 1..Len(Tail(unseeded)) : Tail(unseeded)[i] = unseeded[i + 1]
    BY ONLY <1>1, <1>2, HeadTailProperties
  <2>2. Len(unseeded) \in Nat
    BY ONLY <1>2, LenProperties
  <2>3. ASSUME NEW k \in 1..Len(unseeded), k # 1
        PROVE  \E j \in 1..Len(Tail(unseeded)) : Tail(unseeded)[j] = unseeded[k]
    <3>1. k - 1 \in 1..Len(Tail(unseeded)) /\ (k - 1) + 1 = k
      BY <2>1, <2>2, <2>3
    <3>2. Tail(unseeded)[k - 1] = unseeded[(k - 1) + 1]
      BY <2>1, <3>1
    <3> QED
      BY <3>1, <3>2
  <2> QED
    BY <1>1, <2>1, <2>3
<1>4. seed \in SchemaIds /\ shape \in ShapeRows
  BY <1>2, <1>3, BuiltinsAreShapes DEF Builtins
<1> HIDE DEF seed, shape
<1>5. \A id \in SchemaIds :
          schemas'[id] = IF id = seed THEN Seeded(schemas[id], shape) ELSE schemas[id]
  BY <1>1 DEF SchemaInv, SchemaTypeOK
<1>6. \A id \in SchemaIds : KeepsWord(schemas'[id], theirs[id])
  BY <1>4, <1>5, SeededKeepsWord DEF SchemaInv
<1>7. schemas' \in [SchemaIds -> {Absent} \cup StoredRows]
  <2>1. \A id \in SchemaIds : schemas'[id] \in {Absent} \cup StoredRows
    BY <1>6 DEF KeepsWord, RowOK
  <2>2. schemas' = [id \in SchemaIds |-> schemas'[id]]
    BY <1>1 DEF SchemaInv, SchemaTypeOK
  <2> QED
    BY <2>1, <2>2
<1>8. Builtins' = Builtins
  BY <1>1 DEF Builtins
<1>9. SchemaTypeOK'
  BY <1>1, <1>3, <1>7, <1>8 DEF SchemaInv, SchemaTypeOK
<1>10. SeedingReaches'
  <2>1. ASSUME NEW id \in DOMAIN Builtins, theirs[id] = Absent
        PROVE  Queued(id)' \/ IsReleased(schemas'[id], Builtins[id])
    <3>1. id \in SchemaIds
      BY <1>2, BuiltinsAreShapes DEF Builtins
    <3>2. CASE id = seed
      <4>1. KeepsWord(schemas[id], theirs[id])
        BY <3>1 DEF SchemaInv
      <4> QED
        BY <1>4, <1>5, <2>1, <3>1, <3>2, <4>1, SeededKeepsWord DEF shape
    <3>3. CASE id # seed
      <4>1. Queued(id) \/ IsReleased(schemas[id], Builtins[id])
        BY <1>1, <2>1 DEF SchemaInv, SeedingReaches
      <4> QED
        BY <1>3, <1>5, <3>1, <3>3, <4>1 DEF Queued
    <3> QED
      BY <3>2, <3>3
  <2> QED
    BY <1>1, <1>8, <2>1 DEF SeedingReaches, Queued
<1> QED
  BY <1>1, <1>6, <1>9, <1>10 DEF SchemaInv

\* The rows of other ids, and what was said of them, are left alone.
LEMMA WordIsKept ==
    ASSUME SchemaInv, launch = "open", NEW id \in SchemaIds, NEW row, NEW word,
           row \in StoredRows, KeepsWord(row, word), word # Absent,
           word \in {Absent, Removed} \cup [state : {"saved"}, shape : ShapeRows],
           schemas' = [schemas EXCEPT ![id] = row],
           theirs' = [theirs EXCEPT ![id] = word],
           UNCHANGED <<migrated, release, launch, unseeded, clock>>
    PROVE  SchemaInv'
<1>1. /\ schemas \in [SchemaIds -> {Absent} \cup StoredRows]
      /\ theirs \in [SchemaIds -> {Absent, Removed} \cup [state : {"saved"}, shape : ShapeRows]]
  BY DEF SchemaInv, SchemaTypeOK
<1>2. Builtins' = Builtins
  BY DEF Builtins
<1>3. SchemaTypeOK'
  BY <1>1, <1>2 DEF SchemaInv, SchemaTypeOK
<1>4. \A other \in SchemaIds :
          /\ schemas'[other] = IF other = id THEN row ELSE schemas[other]
          /\ theirs'[other] = IF other = id THEN word ELSE theirs[other]
  BY <1>1
<1>5. \A other \in SchemaIds : KeepsWord(schemas'[other], theirs'[other])
  BY <1>4 DEF SchemaInv
<1>6. SeedingReaches'
  <2>1. ASSUME NEW other \in DOMAIN Builtins, theirs'[other] = Absent
        PROVE  Queued(other)' \/ IsReleased(schemas'[other], Builtins[other])
    <3>1. other \in SchemaIds
      BY BuiltinsAreShapes DEF Builtins, SchemaInv, SchemaTypeOK
    <3>2. other # id /\ theirs[other] = Absent /\ schemas'[other] = schemas[other]
      BY <1>4, <2>1, <3>1
    <3> QED
      BY <3>2 DEF SchemaInv, SeedingReaches, Queued
  <2> QED
    BY <1>2, <2>1 DEF SeedingReaches
<1> QED
  BY <1>3, <1>5, <1>6 DEF SchemaInv

LEMMA SaveSchemaStep ==
    ASSUME SchemaInv, NEW id \in SchemaIds, NEW shape \in Shapes, SaveSchema(id, shape)
    PROVE  SchemaInv'
<1> DEFINE row == IF Live(id) THEN [schemas[id] EXCEPT !.shape = shape, !.stamp = clock]
                  ELSE Row(shape, clock, "operator")
<1>1. /\ schemas' = [schemas EXCEPT ![id] = row]
      /\ theirs' = [theirs EXCEPT ![id] = Saved(shape)]
      /\ launch = "open"
      /\ UNCHANGED <<migrated, release, launch, unseeded, clock>>
  BY DEF SaveSchema
<1>2. shape \in ShapeRows /\ clock \in Nat /\ clock # 0
  BY SchemaAssumption DEF SchemaInv, SchemaTypeOK
<1>3. /\ row \in StoredRows /\ row.state = "live"
      /\ row.stamp = clock /\ row.shape = shape
  <2>1. CASE Live(id)
    <3>1. schemas[id] \in StoredRows /\ schemas[id].state = "live"
      BY <2>1 DEF Live, SchemaInv, SchemaTypeOK, Absent
    <3> QED
      BY <1>2, <2>1, <3>1 DEF StoredRows
  <2>2. CASE ~Live(id)
    BY <1>2, <2>2 DEF Row, StoredRows
  <2> QED
    BY <2>1, <2>2
<1> HIDE DEF row
<1>4. /\ Saved(shape) \in [state : {"saved"}, shape : ShapeRows]
      /\ Saved(shape) # Absent
      /\ Saved(shape).shape = shape /\ Saved(shape).state = "saved"
  BY <1>2 DEF Saved, Absent
<1>5. KeepsWord(row, Saved(shape))
  BY <1>2, <1>3, <1>4, SameShape DEF KeepsWord, RowOK
<1> QED
  BY <1>1, <1>3, <1>4, <1>5, WordIsKept

LEMMA RemoveSchemaStep ==
    ASSUME SchemaInv, NEW id \in SchemaIds, RemoveSchema(id)
    PROVE  SchemaInv'
<1> DEFINE row == [schemas[id] EXCEPT !.state = "dead", !.stamp = clock]
<1>1. schemas[id] \in StoredRows /\ clock \in Nat
  BY DEF RemoveSchema, Live, SchemaInv, SchemaTypeOK, Absent
<1>2. row \in StoredRows /\ row.state = "dead"
  BY <1>1 DEF StoredRows
<1>3. /\ schemas' = [schemas EXCEPT ![id] = row]
      /\ theirs' = [theirs EXCEPT ![id] = Removed]
      /\ launch = "open"
      /\ UNCHANGED <<migrated, release, launch, unseeded, clock>>
  <2>1. schemas \in [SchemaIds -> {Absent} \cup StoredRows]
    BY DEF SchemaInv, SchemaTypeOK
  <2> QED
    BY <1>1, <2>1 DEF RemoveSchema, StoredRows
<1> HIDE DEF row
<1>4. Removed # Absent /\ KeepsWord(row, Removed)
  BY <1>2 DEF KeepsWord, RowOK, Removed, Absent
<1> QED
  BY <1>2, <1>3, <1>4, WordIsKept

LEMMA KilledStep == SchemaInv /\ Killed => SchemaInv'
<1> SUFFICES ASSUME SchemaInv, Killed PROVE SchemaInv'
  OBVIOUS
<1>1. /\ launch' = "closed" /\ unseeded' = <<>> /\ release' \in Releases
      /\ UNCHANGED <<schemas, migrated, clock, theirs>>
  BY DEF Killed
<1>2. unseeded' \in Seq((DOMAIN Builtins)')
  BY ONLY <1>1, EmptySeq
<1> QED
  BY <1>1, <1>2 DEF SchemaInv, SchemaTypeOK, SeedingReaches

LEMMA SchemaInvStep == SchemaInv /\ [SchemaNext]_schemaVars => SchemaInv'
<1> SUFFICES ASSUME SchemaInv, [SchemaNext]_schemaVars PROVE SchemaInv'
  OBVIOUS
<1>1. CASE Launch
  BY <1>1, LaunchStep
<1>2. CASE SeedNext
  BY <1>2, SeedNextStep
<1>3. CASE Killed
  BY <1>3, KilledStep
<1>4. CASE Opened \/ ClockTick \/ UNCHANGED schemaVars
  BY <1>4 DEF Opened, ClockTick, schemaVars, SchemaInv, SchemaTypeOK, SeedingReaches,
              Queued, Builtins
<1>5. CASE \E id \in SchemaIds :
               RemoveSchema(id) \/ \E shape \in Shapes : SaveSchema(id, shape)
  BY <1>5, SaveSchemaStep, RemoveSchemaStep
<1> QED
  BY <1>1, <1>2, <1>3, <1>4, <1>5 DEF SchemaNext

-----------------------------------------------------------------------------
(* The stored types: which one answers *)

LEMMA PositionHolds ==
    ASSUME NEW id \in SchemaIds
    PROVE  Position(id) \in 1..Len(SeedOrder) /\ SeedOrder[Position(id)] = id
<1>1. DOMAIN SeedOrder = 1..Len(SeedOrder)
  BY SchemaAssumption, LenProperties
<1>2. \E k \in DOMAIN SeedOrder : SeedOrder[k] = id
  BY DEF SchemaIds
<1> QED
  BY <1>1, <1>2 DEF Position

\* The ORDER BY is a strict total order on the live rows.
LEMMA OutranksOrders ==
    ASSUME SchemaTypeOK, NEW C, \A id \in C : id \in SchemaIds /\ Live(id)
    PROVE  /\ \A a, b \in C : a # b => (Outranks(a, b) <=> ~Outranks(b, a))
           /\ \A a, b, c \in C : Outranks(a, b) /\ Outranks(b, c) => Outranks(a, c)
           /\ \A a \in C : ~Outranks(a, a)
<1>1. \A id \in C : schemas[id].stamp \in Nat
  BY DEF SchemaTypeOK, Live, StoredRows, Absent
<1>2. Len(SeedOrder) \in Nat
  BY SchemaAssumption, LenProperties
<1>3. \A id \in C : Position(id) \in Nat
  BY <1>2, PositionHolds
<1>4. \A a, b \in C : Position(a) = Position(b) => a = b
  BY PositionHolds
<1> QED
  BY <1>1, <1>3, <1>4 DEF Outranks

\* Among the candidates up to each place of the id order, one outranks the
\* others.
LEMMA OneAnswers ==
    ASSUME SchemaTypeOK, NEW C, C # {}, \A id \in C : id \in SchemaIds /\ Live(id)
    PROVE  \E id \in C : {x \in C : \A other \in C \ {x} : Outranks(x, other)} = {id}
<1> DEFINE Upto(n) == {id \in C : Position(id) <= n}
           Best(n, x) == x \in Upto(n) /\ \A other \in Upto(n) \ {x} : Outranks(x, other)
           Good == {n \in Nat : Upto(n) # {} => \E x \in C : Best(n, x)}
<1>1. \A id \in C : Position(id) \in 1..Len(SeedOrder) /\ SeedOrder[Position(id)] = id
  BY PositionHolds
<1>2. Len(SeedOrder) \in Nat
  BY SchemaAssumption, LenProperties
<1>3. 0 \in Good
  BY <1>1, <1>2
<1>4. ASSUME NEW n \in Nat, n \in Good PROVE n + 1 \in Good
  <2>1. SUFFICES ASSUME Upto(n + 1) # {} PROVE \E x \in C : Best(n + 1, x)
    OBVIOUS
  <2>2. CASE Upto(n + 1) = Upto(n)
    BY <1>4, <2>1, <2>2
  <2>3. CASE Upto(n + 1) # Upto(n)
    <3>1. PICK new \in C : Position(new) = n + 1
      BY <1>1, <1>2, <2>3
    <3>2. \A id \in C : Position(id) = n + 1 => id = new
      BY <1>1, <3>1
    <3>3. \A id \in Upto(n + 1) : id = new \/ id \in Upto(n)
      BY <1>1, <1>2, <3>2
    <3>4. new \in Upto(n + 1)
      BY <3>1
    <3>5. \A id \in Upto(n) : id \in Upto(n + 1) /\ id # new
      BY <1>1, <1>2, <3>1
    <3>6. CASE Upto(n) = {}
      BY <3>3, <3>4, <3>6
    <3>7. CASE Upto(n) # {}
      <4>1. PICK x \in C : Best(n, x)
        BY <1>4, <3>7
      <4>2. x \in Upto(n) /\ x # new
        BY <3>5, <4>1
      <4>3. CASE Outranks(x, new)
        <5>1. Best(n + 1, x)
          BY <3>3, <3>5, <4>1, <4>3
        <5> QED
          BY <5>1
      <4>4. CASE ~Outranks(x, new)
        <5>1. Outranks(new, x)
          BY <4>2, <4>4, OutranksOrders
        <5>2. ASSUME NEW other \in Upto(n + 1) \ {new} PROVE Outranks(new, other)
          <6>1. other \in Upto(n) /\ other \in C
            BY <3>3
          <6>2. other = x \/ Outranks(x, other)
            BY <4>1, <6>1
          <6> QED
            BY <5>1, <6>1, <6>2, OutranksOrders
        <5> QED
          BY <3>4, <5>2
      <4> QED
        BY <4>3, <4>4
    <3> QED
      BY <3>6, <3>7
  <2> QED
    BY <2>2, <2>3
<1> HIDE DEF Good
<1>5. Len(SeedOrder) \in Good
  BY <1>2, <1>3, <1>4, SetInduction
<1>6. Upto(Len(SeedOrder)) = C
  BY <1>1, <1>2
<1>7. PICK x \in C : \A other \in C \ {x} : Outranks(x, other)
  <2>1. \E x \in C : Best(Len(SeedOrder), x)
    BY <1>5, <1>6 DEF Good
  <2> QED
    BY <1>6, <2>1
<1>8. \A y \in C : y # x => ~Outranks(y, x)
  BY <1>7, OutranksOrders
<1> QED
  BY <1>7, <1>8

-----------------------------------------------------------------------------
(* The stored types: the theorems *)

\* The schema store's inductive invariant holds over every launch, kill and
\* update.
THEOREM SchemaInvariant == SchemaSpec => []SchemaInv
BY SchemaInvInit, SchemaInvStep, PTL DEF SchemaSpec

\* No launch, seeding, migration, save or removal leaves a row that is not one,
\* and what is queued for seeding is a type of the release.
THEOREM SchemasStayTyped == SchemaSpec => []SchemaTypeOK
<1>1. SchemaInv => SchemaTypeOK
  BY DEF SchemaInv
<1> QED
  BY <1>1, SchemaInvariant, PTL

\* What the operator removed no launch, seeding, migration or release brings
\* back.
THEOREM RemovalIsForever == SchemaSpec => []RemovedStaysRemoved
<1>1. SchemaInv => RemovedStaysRemoved
  BY DEF SchemaInv, KeepsWord, RemovedStaysRemoved, Live
<1> QED
  BY <1>1, SchemaInvariant, PTL

\* What the operator saved keeps its kind and its sections over all of them.
THEOREM EditsOutrankUpdates == SchemaSpec => []OperatorsEditStands
<1>1. SchemaInv => OperatorsEditStands
  BY DEF SchemaInv, KeepsWord, SameButTrade, OperatorsEditStands, Live
<1> QED
  BY <1>1, SchemaInvariant, PTL

\* What he never touched is that of the release which runs, however many
\* seedings a kill cut short.
THEOREM UpdatesReachTheUntouched == SchemaSpec => []UntouchedFollowRelease
<1>1. ASSUME SchemaInv, launch = "open", NEW id \in DOMAIN Builtins, theirs[id] = Absent
      PROVE  Live(id) /\ schemas[id].shape = Builtins[id]
  <2>1. unseeded = <<>>
    BY <1>1 DEF SchemaInv
  <2>2. ~Queued(id)
    <3>1. Len(unseeded) = 0
      BY ONLY <2>1, EmptySeq
    <3> QED
      BY <3>1 DEF Queued
  <2> QED
    BY <1>1, <2>2 DEF SchemaInv, SeedingReaches, IsReleased, Live
<1>2. SchemaInv => UntouchedFollowRelease
  BY <1>1 DEF UntouchedFollowRelease
<1> QED
  BY <1>2, SchemaInvariant, PTL

\* What a trade is offered is legal for it and resolves to one row: the
\* candidates hold it, and the ORDER BY leaves no tie among them.
THEOREM OffersCanBeBuilt == SchemaSpec => []OfferedCanBeBuilt
<1>1. ASSUME SchemaTypeOK, NEW t \in Templates, NEW id \in Listed(t)
      PROVE  /\ LegalKind(schemas[id].shape.kind, t)
             /\ Cardinality(Resolved(schemas[id].shape.kind, t)) = 1
  <2> DEFINE kind == schemas[id].shape.kind
             C == Candidates(kind, t)
  <2>1. id \in C /\ \A x \in C : x \in SchemaIds /\ Live(x)
    BY DEF Candidates, Listed
  <2>2. PICK x \in C : {y \in C : \A other \in C \ {y} : Outranks(y, other)} = {x}
    <3> HIDE DEF C
    <3> QED
      BY <1>1, <2>1, OneAnswers
  <2>3. Resolved(kind, t) = {x}
    BY <2>2 DEF Resolved
  <2> QED
    BY <2>3, FS_Singleton DEF LegalKind
<1>2. SchemaInv => OfferedCanBeBuilt
  BY <1>1 DEF SchemaInv, OfferedCanBeBuilt
<1> QED
  BY <1>2, SchemaInvariant, PTL
=============================================================================
