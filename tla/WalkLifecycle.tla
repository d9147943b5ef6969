--------------------------- MODULE WalkLifecycle ---------------------------
(***************************************************************************)
(* What a walk promises its operator, with nothing of how it is done:      *)
(*                                                                         *)
(*   - what was heard stays until the walk is delivered or thrown away;    *)
(*   - the draft board (the live items) only grows, survives every failed  *)
(*     attempt and every restart, and leaves in one step, the delivery;    *)
(*   - what is delivered is the work of a single attempt, never a mixture; *)
(*   - a walk that was ended cannot be thrown away any more.               *)
(*                                                                         *)
(* WalkSession implements this module.                                     *)
(***************************************************************************)
EXTENDS Naturals, FiniteSets

CONSTANTS
    Sessions,   \* the walks
    Items,      \* the lines a draft board may hold
    Runs,       \* the attempts at turning a walk into notes
    MaxChunks   \* how many chunks of speech a walk may hold

VARIABLES
    stage,      \* of each walk
    transcript,      \* how many chunks of speech its transcript holds
    draft,      \* the lines of its live board
    authors     \* the attempts whose work is on show

vars == <<stage, transcript, draft, authors>>

Stages == {"none", "capturing", "pending", "delivered", "discarded"}

TypeOK ==
    /\ stage \in [Sessions -> Stages]
    /\ transcript \in [Sessions -> Nat]
    /\ draft \in [Sessions -> SUBSET Items]
    /\ authors \in [Sessions -> SUBSET Runs]

Init ==
    /\ stage = [s \in Sessions |-> "none"]
    /\ transcript = [s \in Sessions |-> 0]
    /\ draft = [s \in Sessions |-> {}]
    /\ authors = [s \in Sessions |-> {}]

-----------------------------------------------------------------------------

Begin(s) ==
    /\ stage[s] = "none"
    /\ stage' = [stage EXCEPT ![s] = "capturing"]
    /\ UNCHANGED <<transcript, draft, authors>>

\* A chunk is committed, or the whole tail at once when the walk ends.
Hear(s) ==
    /\ stage[s] = "capturing"
    /\ \E n \in 1..MaxChunks : transcript' = [transcript EXCEPT ![s] = @ + n]
    /\ UNCHANGED <<stage, draft, authors>>

Jot(s, i) ==
    /\ stage[s] = "capturing"
    /\ draft' = [draft EXCEPT ![s] = @ \cup {i}]
    /\ UNCHANGED <<stage, transcript, authors>>

\* The operator ends one walk; a relaunch ends all those it finds open.
Close(S) ==
    /\ \A s \in S : stage[s] = "capturing"
    /\ stage' = [s \in Sessions |-> IF s \in S THEN "pending" ELSE stage[s]]
    /\ UNCHANGED <<transcript, draft, authors>>

\* A new attempt starts from nothing.
Restart(s) ==
    /\ stage[s] = "pending"
    /\ authors' = [authors EXCEPT ![s] = {}]
    /\ UNCHANGED <<stage, transcript, draft>>

\* An attempt adds to its own work, not to another's.
Contribute(s, r) ==
    /\ stage[s] = "pending"
    /\ authors[s] \subseteq {r}
    /\ authors' = [authors EXCEPT ![s] = {r}]
    /\ UNCHANGED <<stage, transcript, draft>>

Deliver(s) ==
    /\ stage[s] = "pending"
    /\ stage' = [stage EXCEPT ![s] = "delivered"]
    /\ draft' = [draft EXCEPT ![s] = {}]
    /\ UNCHANGED <<transcript, authors>>

\* The operator removes the last delivered line.
Strike(s) ==
    /\ stage[s] = "delivered"
    /\ authors' = [authors EXCEPT ![s] = {}]
    /\ UNCHANGED <<stage, transcript, draft>>

Discard(s) ==
    /\ stage[s] = "capturing"
    /\ stage' = [stage EXCEPT ![s] = "discarded"]
    /\ draft' = [draft EXCEPT ![s] = {}]
    /\ UNCHANGED <<transcript, authors>>

Next ==
    \/ \E S \in SUBSET Sessions : Close(S)
    \/ \E s \in Sessions :
          \/ Begin(s) \/ Hear(s) \/ Restart(s) \/ Deliver(s) \/ Strike(s) \/ Discard(s)
          \/ \E i \in Items : Jot(s, i)
          \/ \E r \in Runs : Contribute(s, r)

Spec == Init /\ [][Next]_vars

-----------------------------------------------------------------------------
(* What follows from the promise alone *)

\* One attempt's work on show, and a draft board only while it is needed.
OneAuthor == \A s \in Sessions : \A q, r \in authors[s] : q = r

DraftUntilDelivered ==
    \A s \in Sessions : draft[s] # {} => stage[s] \in {"capturing", "pending"}

=============================================================================
