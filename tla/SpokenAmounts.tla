---------------------------- MODULE SpokenAmounts ---------------------------
(***************************************************************************)
(* What an item's text says about money, and when the app reads it as the  *)
(* total of a line (find_amount, murmur-core/src/pipeline/spoken_price.rs).*)
(* An amount may be zero: "$0" is read like any other number.              *)
(***************************************************************************)
EXTENDS Naturals, Sequences

\* The amounts of a text in order, each a total or a rate ("$95/yd").
Money == Seq([cents : Nat, rate : BOOLEAN])

\* find_amount: exactly one amount, and a total.  With two the pass keeps its
\* hands off, and a rate times an unknown quantity is not a line total.
HasAmount(t) == Len(t.money) = 1 /\ ~t.money[1].rate

=============================================================================
