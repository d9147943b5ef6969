------------------------ MODULE WalkLifecycle_proofs ------------------------
(***************************************************************************)
(* What follows from WalkLifecycle alone.                                  *)
(***************************************************************************)
EXTENDS WalkLifecycle, TLAPS

LEMMA TypeStep ==
    ASSUME TypeOK, [Next]_vars
    PROVE  TypeOK'
<1> USE DEF TypeOK, Stages
<1>1. ASSUME NEW S \in SUBSET Sessions, Close(S) PROVE TypeOK'
  BY <1>1 DEF Close
<1>2. ASSUME NEW s \in Sessions, Begin(s) \/ Hear(s) \/ Restart(s) \/ Deliver(s) \/ Strike(s)
                                 \/ Discard(s)
      PROVE  TypeOK'
  BY <1>2 DEF Begin, Hear, Restart, Deliver, Strike, Discard
<1>3. ASSUME NEW s \in Sessions, NEW i \in Items, Jot(s, i) PROVE TypeOK'
  BY <1>3 DEF Jot
<1>4. ASSUME NEW s \in Sessions, NEW r \in Runs, Contribute(s, r) PROVE TypeOK'
  BY <1>4 DEF Contribute
<1> QED
  BY <1>1, <1>2, <1>3, <1>4 DEF Next, vars

LEMMA LifecycleIsTyped == Spec => []TypeOK
<1>1. Init => TypeOK
  BY DEF Init, TypeOK, Stages
<1> QED
  BY <1>1, TypeStep, PTL DEF Spec

\* Whatever the order of attempts, what is on show is the work of one of them.
THEOREM OneAuthorAlways == Spec => []OneAuthor
<1>1. Init => OneAuthor
  BY DEF Init, OneAuthor
<1>2. ASSUME TypeOK, OneAuthor, [Next]_vars PROVE OneAuthor'
  BY <1>2 DEF TypeOK, OneAuthor, Next, vars, Close, Begin, Hear, Restart, Deliver, Strike,
              Discard, Jot, Contribute
<1> QED
  BY <1>1, <1>2, LifecycleIsTyped, PTL DEF Spec

\* A draft board is left on no walk that was delivered or thrown away.
THEOREM DraftGoesWithDelivery == Spec => []DraftUntilDelivered
<1>1. Init => DraftUntilDelivered
  BY DEF Init, DraftUntilDelivered
<1>2. ASSUME TypeOK, DraftUntilDelivered, [Next]_vars PROVE DraftUntilDelivered'
  BY <1>2 DEF TypeOK, DraftUntilDelivered, Next, vars, Close, Begin, Hear, Restart, Deliver,
              Strike, Discard, Jot, Contribute
<1> QED
  BY <1>1, <1>2, LifecycleIsTyped, PTL DEF Spec

=============================================================================
