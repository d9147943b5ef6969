------------------------------- MODULE SeqFolds -------------------------------
(***************************************************************************)
(* Two folds over a sequence, written as recursive functions over its      *)
(* prefixes: what a filter keeps, and a sum.  They compute what SelectSeq  *)
(* and FoldLeft compute, in a form that can be unfolded in a proof.        *)
(***************************************************************************)
EXTENDS Naturals, Sequences

\* The elements of s that are in T, in their order.
Keep(s, T) ==
    LET upTo[n \in 0..Len(s)] ==
            IF n = 0 THEN <<>>
            ELSE IF s[n] \in T THEN Append(upTo[n - 1], s[n]) ELSE upTo[n - 1]
    IN upTo[Len(s)]

\* The sum of a sequence of numbers.
SumOf(s) ==
    LET upTo[n \in 0..Len(s)] == IF n = 0 THEN 0 ELSE upTo[n - 1] + s[n]
    IN upTo[Len(s)]
=============================================================================
