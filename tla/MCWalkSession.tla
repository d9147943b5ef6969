--------------------------- MODULE MCWalkSession ---------------------------
(* TLC instances of WalkSession; the .cfg files choose the bounds.         *)
EXTENDS WalkSession, TLC

\* Item ids and process() calls are interchangeable; sessions are ordered.
WalkSymmetry == Permutations(Items) \cup Permutations(Runs)

=============================================================================
