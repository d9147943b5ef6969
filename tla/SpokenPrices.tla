---------------------------- MODULE SpokenPrices ----------------------------
(***************************************************************************)
(* The pass that folds spoken prices onto the work they describe, before a *)
(* priced document is rendered (murmur-core/src/pipeline/spoken_price.rs). *)
(*                                                                         *)
(* An item's text is abstracted to what it says beside the amount that is  *)
(* read off it: its content words in order, as the tokenizer leaves them   *)
(* (lowercase, plurals undone, stopwords gone), the numbers, which the     *)
(* tokenizer drops, and the amounts it names.  One action is one turn of   *)
(* the loop over the items; the board does not change during the pass.     *)
(***************************************************************************)
EXTENDS SpokenAmounts, FiniteSets

CONSTANTS
    Texts,          \* what an item may say
    MaxItems,       \* bound on the length of a board
    MaxLabelWords   \* a longer label describes work (3 in the code)

ASSUME PriceAssumption ==
    /\ MaxItems \in Nat
    /\ MaxLabelWords \in Nat
    /\ \A t \in Texts :
          /\ t.words \in Seq(STRING)
          /\ t.numbers \subseteq STRING
          /\ t.money \in Money

VARIABLES
    said,       \* the items, in spoken order
    next,       \* the item the loop is at
    paid,       \* amounts: the line l shows the amount spoken in item paid[l],
                \* 0 when it has none
    away,       \* folded_away: items that are no line of their own
    claimed     \* lines another item's price, or the item itself, went to

priceVars == <<said, next, paid, away, claimed>>

Lines == 1..Len(said)

-----------------------------------------------------------------------------
(* Reading one item *)

\* has_quantity, or more words than a name has.
DescribesWork(t) == Len(t.words) > MaxLabelWords \/ t.numbers # {}

\* read: a quantity or many words make it a line that states its own price,
\* a bare label makes it a price for something else.
Reading(t) ==
    IF ~HasAmount(t) THEN "plain"
    ELSE IF DescribesWork(t) THEN "self_priced"
    ELSE "statement"

Words(i) == {said[i].words[k] : k \in DOMAIN said[i].words}

\* How many words of line l the label of item s accounts for.
Shared(s, l) ==
    Cardinality({k \in DOMAIN said[l].words : said[l].words[k] \in Words(s)})

\* The lines a price may land on, or a richer line may absorb.
Bare ==
    {l \in Lines :
        /\ Reading(said[l]) = "plain"
        /\ l \notin claimed
        /\ said[l].words # <<>>}

\* A price that goes to the next bare line, named by it or not.
TargetsUnnamed(s) == Bare

Targets(s) == {l \in Bare : Shared(s, l) > 0}

\* Line l is more about the label of s than line m: a larger share of its own
\* words, and the earlier of two lines that are equally about it.
MoreAbout(s, l, m) ==
    LET mine == Shared(s, l) * Len(said[m].words)
        its  == Shared(s, m) * Len(said[l].words)
    IN  mine > its \/ (mine = its /\ l < m)

\* target_for: l is the line the price s goes to.
Target(s, l) ==
    /\ l \in Targets(s)
    /\ \A m \in Targets(s) \ {l} : MoreAbout(s, l, m)

\* Absorbing on a partial overlap would delete words only the bare line has.
CoveredInPart(s) == {l \in Bare : Words(l) \cap Words(s) # {}}

\* fully_covered_by: bare lines that have no content word the line s has not.
Covered(s) == {l \in Bare : Words(l) \subseteq Words(s)}

First(l, S) == l \in S /\ \A m \in S : l <= m

-----------------------------------------------------------------------------
(* fold_spoken_prices *)

PriceInit ==
    /\ said \in UNION {[1..n -> Texts] : n \in 0..MaxItems}
    /\ next = 1
    /\ paid = [l \in Lines |-> 0]
    /\ away = {}
    /\ claimed = {}

At(reading) ==
    /\ next \in Lines
    /\ Reading(said[next]) = reading
    /\ next' = next + 1
    /\ UNCHANGED said

ReadPlain == At("plain") /\ UNCHANGED <<paid, away, claimed>>

\* A self-priced line keeps its line, takes its amount into the column, and
\* absorbs the first bare line that would add nothing to it.
TakeOwnPrice ==
    /\ At("self_priced")
    /\ paid' = [paid EXCEPT ![next] = next]
    /\ IF Covered(next) = {}
       THEN UNCHANGED <<away, claimed>>
       ELSE \E l \in Lines :
               /\ First(l, Covered(next))
               /\ claimed' = claimed \cup {l}
               /\ away' = away \cup {l}

\* A price statement moves onto the line it is most about...
FoldPrice ==
    /\ At("statement")
    /\ \E l \in Lines :
          /\ Target(next, l)
          /\ claimed' = claimed \cup {l}
          /\ paid' = [paid EXCEPT ![l] = next]
    /\ away' = away \cup {next}

\* The slip that tidies the paper: a price nobody asked for is dropped.
DropPrice ==
    /\ At("statement")
    /\ Targets(next) = {}
    /\ away' = away \cup {next}
    /\ UNCHANGED <<paid, claimed>>

\* ...and stays a line of its own when nothing on the board answers to it.
KeepPrice ==
    /\ At("statement")
    /\ Targets(next) = {}
    /\ paid' = [paid EXCEPT ![next] = next]
    /\ UNCHANGED <<away, claimed>>

\* The items that are rendered.
Kept == Lines \ away

PriceNext == ReadPlain \/ TakeOwnPrice \/ FoldPrice \/ KeepPrice

PriceSpec == PriceInit /\ [][PriceNext]_priceVars

-----------------------------------------------------------------------------
(* What the pass promises *)

PriceTypeOK ==
    /\ said \in Seq(Texts)
    /\ next \in 1..Len(said) + 1
    /\ paid \in [Lines -> 0..Len(said)]
    /\ away \subseteq Lines
    /\ claimed \subseteq Lines

\* "Dropping it to keep the paper tidy would delete money from an estimate",
\* and "at most one price onto any line": every amount read so far is in the
\* column of exactly one line that is still rendered, and the column holds no
\* amount that was not read (fold_spoken_prices).
MoneyConserved ==
    /\ \A i \in 1..next - 1 :
          HasAmount(said[i]) =>
              \E l \in Kept :
                  paid[l] = i /\ \A m \in Lines : paid[m] = i => m = l
    /\ \A l \in Lines :
          paid[l] # 0 => paid[l] < next /\ HasAmount(said[paid[l]])

\* A price moves only onto a line no price is read from that it shares a word
\* with: it is never "silently attached to the wrong item" (target_for).
FoldsAreNamed ==
    \A l \in Lines :
        paid[l] \notin {0, l} =>
            /\ Reading(said[l]) = "plain"
            /\ Words(l) \cap Words(paid[l]) # {}

\* An item that is no line any more is a price that moved, or work of which
\* every content word is on a line that shows its own price and stays: an
\* absorbed line never lands on one that is itself folded away later
\* (fully_covered_by).
AbsorbedWordsStay ==
    \A i \in away :
        \/ Reading(said[i]) = "statement"
        \/ \E l \in Kept : paid[l] = l /\ Words(i) \subseteq Words(l)

-----------------------------------------------------------------------------
(* Claims of the comments that the code does not keep (section 7 of the      *)
(* README).  No run checks them: as invariants TLC refutes both.             *)

\* "Absorption must never delete detail" (test at spoken_price.rs:506), "only
\* when the bare line adds NOTHING the priced one lacks" (130): a line that is
\* absorbed states no number the line it goes to does not state.
AbsorptionDeletesNoDetail ==
    \A i \in away :
        \/ Reading(said[i]) = "statement"
        \/ \E l \in Kept :
              /\ paid[l] = l
              /\ Words(i) \subseteq Words(l)
              /\ said[i].numbers \subseteq said[l].numbers

\* "Everything it declines to fold stays visible as its own line" (37): so
\* does an item whose money it declines to read, a rate or two amounts.
DeclinedStaysVisible ==
    \A i \in Lines :
        said[i].money # <<>> /\ ~HasAmount(said[i]) => i \in Kept

=============================================================================
