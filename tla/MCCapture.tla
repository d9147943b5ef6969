----------------------------- MODULE MCCapture ------------------------------
(* Five words over nine units of audio, windows of five that overlap by two:  *)
(* words that touch, one that straddles a window's start, and two that meet   *)
(* inside an overlap and cross one each of its edges (the under-commit), of   *)
(* which the short last window alone hears the second whole.                  *)
EXTENDS Capture

McSpoken == << [from |-> 0, to |-> 1], [from |-> 2, to |-> 4],
               [from |-> 4, to |-> 5], [from |-> 5, to |-> 7],
               [from |-> 7, to |-> 9] >>
=============================================================================
