-------------------------- MODULE MCSessionStore --------------------------
(* TLC instance of SessionStore: two sessions, two items, one photo.        *)
EXTENDS SessionStore, TLC

\* Sessions, items, photos and runs are interchangeable in SessionStore.
StoreSymmetry ==
    Permutations(Sessions) \cup Permutations(Items)
        \cup Permutations(Photos) \cup Permutations(Runs)

=============================================================================
