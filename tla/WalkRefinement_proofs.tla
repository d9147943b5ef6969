------------------------ MODULE WalkRefinement_proofs ------------------------
(***************************************************************************)
(* WalkSession implements WalkLifecycle, for any number of walks, items,   *)
(* attempts and crashes.  Three parts: how each store transaction reads as *)
(* stages, drafts and authors; the invariant on authors that the lifecycle *)
(* needs to see one attempt at a time; one abstract step per step.         *)
(***************************************************************************)
EXTENDS WalkSession_proofs

-----------------------------------------------------------------------------
(* How the transactions read *)

LiveOn(s, i) == item[i].of = s /\ ~item[i].dead /\ item[i].source = "live"

AuthoritativeOn(s, i) == item[i].of = s /\ ~item[i].dead /\ item[i].source = "authoritative"

\* The two views element by element, before and after a step.
LEMMA DraftIs ==
    ASSUME NEW s, NEW i
    PROVE  /\ i \in DraftOf(s) <=> i \in Items /\ LiveOn(s, i)
           /\ i \in DraftOf(s)' <=> i \in Items /\ LiveOn(s, i)'
  BY DEF DraftOf, FromSource, Board, LiveOn

LEMMA AuthorsAre ==
    ASSUME NEW s, NEW a
    PROVE  /\ a \in AuthorsOf(s) <=>
                 \/ a \in artifact[s]
                 \/ \E i \in Items : AuthoritativeOn(s, i) /\ item[i].by = a
           /\ a \in AuthorsOf(s)' <=>
                 \/ a \in artifact'[s]
                 \/ \E i \in Items : AuthoritativeOn(s, i)' /\ item'[i].by = a
  BY DEF AuthorsOf, FromSource, Board, AuthoritativeOn

\* An insert adds to the draft or to the authors of its session, by its source.
LEMMA InsertReads ==
    ASSUME StoreTypeOK, NEW s \in Sessions, NEW i \in Items, NEW src \in Sources, NEW r,
           InsertItem(s, i, src, r), NEW t \in Sessions
    PROVE  /\ DraftOf(t)' = IF t = s /\ src = "live" THEN DraftOf(t) \cup {i} ELSE DraftOf(t)
           /\ AuthorsOf(t)' = IF t = s /\ src = "authoritative"
                              THEN AuthorsOf(t) \cup {r} ELSE AuthorsOf(t)
<1> USE StoreAssumption
<1>1. \A j \in Items : j # i => item'[j] = item[j]
  BY DEF InsertItem, StoreTypeOK
<1>2. /\ item[i].of = Nobody
      /\ item'[i] = [of |-> s, source |-> src, by |-> r, dead |-> FALSE]
      /\ artifact' = artifact
  BY DEF InsertItem, StoreTypeOK
<1>3. \A j \in Items :
         /\ LiveOn(t, j)' <=> LiveOn(t, j) \/ (j = i /\ t = s /\ src = "live")
         /\ AuthoritativeOn(t, j)' <=>
               AuthoritativeOn(t, j) \/ (j = i /\ t = s /\ src = "authoritative")
  BY <1>1, <1>2 DEF LiveOn, AuthoritativeOn
<1>4. \A j \in Items : AuthoritativeOn(t, j) => j # i
  BY <1>2 DEF AuthoritativeOn
<1>5. \A j : j \in DraftOf(t)' <=> j \in DraftOf(t) \/ (j = i /\ t = s /\ src = "live")
  BY <1>3, DraftIs
<1>6. \A a : a \in AuthorsOf(t)' <=>
               a \in AuthorsOf(t) \/ (a = r /\ t = s /\ src = "authoritative")
  BY <1>1, <1>2, <1>3, <1>4, AuthorsAre
<1> QED
  BY <1>5, <1>6

LEMMA ArtifactReads ==
    ASSUME StoreTypeOK, NEW s \in Sessions, NEW r, AddArtifact(s, r), NEW t \in Sessions
    PROVE  /\ DraftOf(t)' = DraftOf(t)
           /\ AuthorsOf(t)' = IF t = s THEN AuthorsOf(t) \cup {r} ELSE AuthorsOf(t)
  BY DEF AddArtifact, DraftOf, AuthorsOf, FromSource, Board, StoreTypeOK

\* A sweep takes what it names from both views.
LEMMA SweepReads ==
    ASSUME StoreTypeOK, NEW S, TombstoneItems(S), NEW t \in Sessions
    PROVE  /\ DraftOf(t)' = DraftOf(t) \ S
           /\ \A a : a \in AuthorsOf(t)' <=>
                 \/ a \in artifact'[t]
                 \/ \E i \in Items : AuthoritativeOn(t, i) /\ i \notin S /\ item[i].by = a
<1>1. \A i \in Items : /\ LiveOn(t, i)' <=> LiveOn(t, i) /\ i \notin S
                       /\ AuthoritativeOn(t, i)' <=> AuthoritativeOn(t, i) /\ i \notin S
                       /\ item'[i].by = item[i].by
  BY TombstoneKeepsRows DEF LiveOn, AuthoritativeOn, StoreTypeOK
<1>2. \A i : i \in DraftOf(t)' <=> i \in DraftOf(t) \ S
  BY <1>1, DraftIs
<1> QED
  BY <1>1, <1>2, AuthorsAre

LEMMA ClearReads ==
    ASSUME StoreTypeOK, NEW s \in Sessions, ClearAuthoritative(s), NEW t \in Sessions
    PROVE  /\ DraftOf(t)' = DraftOf(t)
           /\ AuthorsOf(t)' = IF t = s THEN {} ELSE AuthorsOf(t)
<1> DEFINE S == FromSource(Board(s), {"authoritative"})
<1>1. TombstoneItems(S) /\ artifact' = [artifact EXCEPT ![s] = {}]
  BY DEF ClearAuthoritative
<1>2. S = {i \in Items : AuthoritativeOn(s, i)}
  BY DEF FromSource, Board, AuthoritativeOn
<1>3. \A i \in Items : (LiveOn(t, i) => i \notin S)
                       /\ (AuthoritativeOn(t, i) => (i \in S <=> t = s))
  BY <1>2 DEF LiveOn, AuthoritativeOn
<1> HIDE DEF S
<1>4. \A i : i \in DraftOf(t)' <=> i \in DraftOf(t)
  BY <1>1, <1>3, SweepReads, DraftIs
<1>5. \A a : a \in AuthorsOf(t)' <=> a \in AuthorsOf(t) /\ t # s
  BY <1>1, <1>3, SweepReads, AuthorsAre DEF StoreTypeOK
<1> QED
  BY <1>4, <1>5

LEMMA DeleteReads ==
    ASSUME StoreTypeOK, NEW s \in Sessions, DeleteSession(s), NEW t \in Sessions
    PROVE  /\ DraftOf(t)' = IF t = s THEN {} ELSE DraftOf(t)
           /\ AuthorsOf(t)' = IF t = s THEN {} ELSE AuthorsOf(t)
<1>1. TombstoneItems(Board(s)) /\ artifact' = [artifact EXCEPT ![s] = {}]
  BY DEF DeleteSession
<1>2. \A i \in Items : LiveOn(t, i) \/ AuthoritativeOn(t, i) => (i \in Board(s) <=> t = s)
  BY DEF LiveOn, AuthoritativeOn, Board
<1>3. \A i : i \in DraftOf(t)' <=> i \in DraftOf(t) /\ t # s
  BY <1>1, <1>2, SweepReads, DraftIs
<1>4. \A a : a \in AuthorsOf(t)' <=> a \in AuthorsOf(t) /\ t # s
  BY <1>1, <1>2, SweepReads, AuthorsAre DEF StoreTypeOK
<1> QED
  BY <1>3, <1>4

\* The swap of a run that is the only author delivers its work and nothing else.
LEMMA SwapReads ==
    ASSUME StoreTypeOK, LiveIsUnsigned, NEW s \in Sessions, NEW r \in Runs,
           FinishProcessed(s, RunIds(r)), AuthorsOf(s) \subseteq {r}, NEW t \in Sessions
    PROVE  /\ DraftOf(t)' = IF t = s THEN {} ELSE DraftOf(t)
           /\ AuthorsOf(t)' = AuthorsOf(t)
<1> DEFINE S == FromSource(Board(s), {"live", "authoritative"}) \ RunIds(r)
<1>1. TombstoneItems(S) /\ artifact' = artifact
  BY DEF FinishProcessed
<1>2. \A i \in Items : LiveOn(t, i) => (i \in S <=> t = s)
  BY StoreAssumption DEF LiveOn, FromSource, Board, RunIds, LiveIsUnsigned
<1>3. \A i \in Items : AuthoritativeOn(t, i) => i \notin S
  <2> SUFFICES ASSUME NEW i \in Items, AuthoritativeOn(t, i), i \in S PROVE FALSE
    OBVIOUS
  <2>1. AuthoritativeOn(s, i) /\ item[i].by # r
    BY DEF AuthoritativeOn, FromSource, Board, RunIds
  <2> QED
    BY <2>1, AuthorsAre
<1> HIDE DEF S
<1>4. \A i : i \in DraftOf(t)' <=> i \in DraftOf(t) /\ t # s
  BY <1>1, <1>2, SweepReads, DraftIs
<1>5. \A a : a \in AuthorsOf(t)' <=> a \in AuthorsOf(t)
  BY <1>1, <1>3, SweepReads, AuthorsAre
<1> QED
  BY <1>4, <1>5

\* On a Processed session a removal strikes at most the work of its author.
LEMMA RemoveReads ==
    ASSUME StoreTypeOK, NoLiveRowsOnceProcessed, NEW s \in Sessions, NEW i \in Items,
           item[i].of = s, RemoveItem(s, i), NEW t \in Sessions
    PROVE  /\ DraftOf(t)' = DraftOf(t)
           /\ AuthorsOf(t)' \subseteq AuthorsOf(t)
           /\ t # s => AuthorsOf(t)' = AuthorsOf(t)
<1>1. TombstoneItems({i}) /\ artifact' = artifact
  BY DEF RemoveItem
<1>2. ~LiveOn(t, i)
  BY DEF RemoveItem, NoLiveRowsOnceProcessed, FromSource, Board, LiveOn
<1>3. t # s => ~AuthoritativeOn(t, i)
  BY DEF AuthoritativeOn
<1>4. \A j : j \in DraftOf(t)' <=> j \in DraftOf(t)
  BY <1>1, <1>2, SweepReads, DraftIs
<1>5. \A a : a \in AuthorsOf(t)' => a \in AuthorsOf(t)
  BY <1>1, SweepReads, AuthorsAre
<1>6. t # s => \A a : a \in AuthorsOf(t) => a \in AuthorsOf(t)'
  BY <1>1, <1>3, SweepReads, AuthorsAre
<1> QED
  BY <1>4, <1>5, <1>6

-----------------------------------------------------------------------------
(* How the views make an abstract step *)

SameStages == \A t \in Sessions : StageOf(t)' = StageOf(t)
SameDrafts == \A t \in Sessions : DraftOf(t)' = DraftOf(t)
SameAuthors == \A t \in Sessions : AuthorsOf(t)' = AuthorsOf(t)

\* The stage of one session goes from one to another, every other stays.
Moves(s, from, to) ==
    /\ StageOf(s) = from
    /\ \A t \in Sessions : StageOf(t)' = IF t = s THEN to ELSE StageOf(t)

LEMMA Stutters ==
    ASSUME SameStages, SameDrafts, SameAuthors, UNCHANGED transcript
    PROVE  UNCHANGED Lifecycle!vars
  BY DEF SameStages, SameDrafts, SameAuthors, Lifecycle!vars

LEMMA Begins ==
    ASSUME NEW s \in Sessions, Moves(s, "none", "capturing"), SameDrafts, SameAuthors,
           UNCHANGED transcript
    PROVE  Lifecycle!Next
<1>1. Lifecycle!Begin(s)
  BY DEF Moves, SameDrafts, SameAuthors, Lifecycle!Begin
<1> QED
  BY <1>1 DEF Lifecycle!Next

LEMMA Hears ==
    ASSUME NEW s \in Sessions, StageOf(s) = "capturing", NEW n \in 1..MaxChunks,
           transcript' = [transcript EXCEPT ![s] = @ + n],
           SameStages, SameDrafts, SameAuthors
    PROVE  Lifecycle!Next
<1>1. Lifecycle!Hear(s)
  BY DEF SameStages, SameDrafts, SameAuthors, Lifecycle!Hear
<1> QED
  BY <1>1 DEF Lifecycle!Next

LEMMA Jots ==
    ASSUME NEW s \in Sessions, NEW i \in Items, StageOf(s) = "capturing",
           \A t \in Sessions : DraftOf(t)' = IF t = s THEN DraftOf(t) \cup {i} ELSE DraftOf(t),
           SameStages, SameAuthors, UNCHANGED transcript
    PROVE  Lifecycle!Next
<1>1. Lifecycle!Jot(s, i)
  BY DEF SameStages, SameAuthors, Lifecycle!Jot
<1> QED
  BY <1>1 DEF Lifecycle!Next

LEMMA Closes ==
    ASSUME NEW S \in SUBSET Sessions,
           \A s \in S : StageOf(s) = "capturing",
           \A t \in Sessions : StageOf(t)' = IF t \in S THEN "pending" ELSE StageOf(t),
           SameDrafts, SameAuthors, UNCHANGED transcript
    PROVE  Lifecycle!Next
<1>1. Lifecycle!Close(S)
  BY DEF SameDrafts, SameAuthors, Lifecycle!Close
<1> QED
  BY <1>1 DEF Lifecycle!Next

LEMMA Restarts ==
    ASSUME NEW s \in Sessions, StageOf(s) = "pending",
           \A t \in Sessions : AuthorsOf(t)' = IF t = s THEN {} ELSE AuthorsOf(t),
           SameStages, SameDrafts, UNCHANGED transcript
    PROVE  Lifecycle!Next
<1>1. Lifecycle!Restart(s)
  BY DEF SameStages, SameDrafts, Lifecycle!Restart
<1> QED
  BY <1>1 DEF Lifecycle!Next

LEMMA Contributes ==
    ASSUME NEW s \in Sessions, NEW r \in Runs, StageOf(s) = "pending",
           AuthorsOf(s) \subseteq {r},
           \A t \in Sessions : AuthorsOf(t)' = IF t = s THEN AuthorsOf(t) \cup {r} ELSE AuthorsOf(t),
           SameStages, SameDrafts, UNCHANGED transcript
    PROVE  Lifecycle!Next
<1>1. AuthorsOf(s)' = {r}
  OBVIOUS
<1>2. Lifecycle!Contribute(s, r)
  BY <1>1 DEF SameStages, SameDrafts, Lifecycle!Contribute
<1> QED
  BY <1>2 DEF Lifecycle!Next

LEMMA Delivers ==
    ASSUME NEW s \in Sessions, Moves(s, "pending", "delivered"),
           \A t \in Sessions : DraftOf(t)' = IF t = s THEN {} ELSE DraftOf(t),
           SameAuthors, UNCHANGED transcript
    PROVE  Lifecycle!Next
<1>1. Lifecycle!Deliver(s)
  BY DEF Moves, SameAuthors, Lifecycle!Deliver
<1> QED
  BY <1>1 DEF Lifecycle!Next

LEMMA Strikes ==
    ASSUME NEW s \in Sessions, StageOf(s) = "delivered",
           \A t \in Sessions : AuthorsOf(t)' = IF t = s THEN {} ELSE AuthorsOf(t),
           SameStages, SameDrafts, UNCHANGED transcript
    PROVE  Lifecycle!Next
<1>1. Lifecycle!Strike(s)
  BY DEF SameStages, SameDrafts, Lifecycle!Strike
<1> QED
  BY <1>1 DEF Lifecycle!Next

LEMMA Discards ==
    ASSUME NEW s \in Sessions, Moves(s, "capturing", "discarded"),
           \A t \in Sessions : DraftOf(t)' = IF t = s THEN {} ELSE DraftOf(t),
           SameAuthors, UNCHANGED transcript
    PROVE  Lifecycle!Next
<1>1. Lifecycle!Discard(s)
  BY DEF Moves, SameAuthors, Lifecycle!Discard
<1> QED
  BY <1>1 DEF Lifecycle!Next

-----------------------------------------------------------------------------
(* One attempt at a time *)

\* Nothing is on show before a walk has ended; while a call is under way on a
\* session only its own work is on show there; and it stays one call's work.
Authorship ==
    /\ \A s \in Sessions : status[s] \in {"absent", "recording"} => AuthorsOf(s) = {}
    /\ \A r \in Runs, s \in Sessions : Active(r) /\ run[r].of = s => AuthorsOf(s) \subseteq {r}
    /\ \A s \in Sessions : \A q, r \in AuthorsOf(s) : q = r

\* No call starts, nor moves to another session.
NoRunStarts == \A r \in Runs : Active(r)' => Active(r) /\ run'[r].of = run[r].of

\* A step that reads as one of the lifecycle and keeps the authors in order.
Faithful == [Lifecycle!Next]_(Lifecycle!vars) /\ Authorship'

\* The invariant the refinement rests on.
RefInv ==
    /\ Base /\ Exits /\ Turns
    /\ LiveIsUnsigned /\ NoLiveRowsOnceProcessed
    /\ Authorship

LEMMA AuthorsShrink ==
    ASSUME Base, Authorship, NoRunStarts,
           \A t \in Sessions : AuthorsOf(t)' \subseteq AuthorsOf(t),
           \A t \in Sessions : status'[t] \in {"absent", "recording"}
                                  => status[t] \in {"absent", "recording"}
    PROVE  Authorship'
<1>1. \A t \in Sessions : status'[t] \in {"absent", "recording"} => AuthorsOf(t)' = {}
  BY DEF Authorship
<1>2. \A r \in Runs, s \in Sessions : Active(r)' /\ run'[r].of = s => AuthorsOf(s)' \subseteq {r}
  BY DEF Authorship, NoRunStarts
<1>3. \A s \in Sessions : \A q, r \in AuthorsOf(s)' : q = r
  BY DEF Authorship
<1> QED
  BY <1>1, <1>2, <1>3 DEF Authorship

\* A step that changes no item, no artifact and no transcript reads by what it does
\* to the stages alone.
LEMMA RowsAlone ==
    ASSUME UNCHANGED <<item, artifact>>
    PROVE  SameDrafts /\ SameAuthors
  BY DEF SameDrafts, SameAuthors, DraftOf, AuthorsOf, FromSource, Board

LEMMA StatusAlone ==
    ASSUME UNCHANGED status
    PROVE  SameStages
  BY DEF SameStages, StageOf

LEMMA NothingReads ==
    ASSUME RefInv, UNCHANGED <<status, transcript, item, artifact>>, NoRunStarts
    PROVE  Faithful
<1>1. SameStages /\ SameDrafts /\ SameAuthors
  BY RowsAlone, StatusAlone
<1>2. Authorship'
  BY <1>1, AuthorsShrink DEF RefInv, SameAuthors
<1> QED
  BY <1>1, <1>2, Stutters DEF Faithful

LEMMA StartReads ==
    ASSUME RefInv, NEW s \in Sessions, StartSession(s), NoRunStarts
    PROVE  Faithful
<1> USE DEF RefInv, Base, TypeOK, StoreTypeOK
<1>1. Moves(s, "none", "capturing") /\ UNCHANGED <<transcript, item, artifact>>
  <2>1. StageOf(s) = "none" /\ StageOf(s)' = "capturing"
    BY DEF StartSession, StageOf
  <2>2. \A t \in Sessions : t # s => StageOf(t)' = StageOf(t)
    BY DEF StartSession, StageOf
  <2> QED
    BY <2>1, <2>2 DEF StartSession, Moves
<1>2. SameDrafts /\ SameAuthors
  BY <1>1, RowsAlone
<1>3. \A t \in Sessions : status'[t] \in {"absent", "recording"}
                              => status[t] \in {"absent", "recording"}
  BY DEF StartSession
<1>4. Authorship'
  <2>1. \A t \in Sessions : AuthorsOf(t)' \subseteq AuthorsOf(t)
    BY <1>2 DEF SameAuthors
  <2> QED
    BY <1>3, <2>1, AuthorsShrink
<1> QED
  BY <1>1, <1>2, <1>4, Begins DEF Faithful

LEMMA AppendReads ==
    ASSUME RefInv, NEW s \in Sessions, NEW n \in Nat, AppendIfRecording(s, n),
           transcript[s] + n <= MaxChunks, NoRunStarts
    PROVE  Faithful
<1> USE StoreAssumption DEF RefInv, Base, TypeOK, StoreTypeOK
<1>0. UNCHANGED <<status, item, artifact>>
  BY DEF AppendIfRecording
<1>1. PICK k \in 0..n :
         transcript' = IF status[s] = "recording"
                       THEN [transcript EXCEPT ![s] = @ + k] ELSE transcript
  BY DEF AppendIfRecording
<1>2. CASE status[s] = "recording" /\ k > 0
  <2>1. /\ StageOf(s) = "capturing" /\ k \in 1..MaxChunks
        /\ transcript' = [transcript EXCEPT ![s] = @ + k]
    BY <1>1, <1>2 DEF StageOf
  <2>2. SameStages /\ SameDrafts /\ SameAuthors
    BY <1>0, RowsAlone, StatusAlone
  <2>3. Authorship'
    BY <1>0, <2>2, AuthorsShrink DEF SameAuthors
  <2> QED
    BY <2>1, <2>2, <2>3, Hears DEF Faithful
<1>3. CASE ~(status[s] = "recording" /\ k > 0)
  <2>1. UNCHANGED <<status, transcript, item, artifact>>
    BY <1>0, <1>1, <1>3
  <2> QED
    BY <2>1, NothingReads
<1> QED
  BY <1>2, <1>3

\* finish()'s end_and_record_session, and the sweep of a launch.
LEMMA EndReads ==
    ASSUME RefInv, NEW s \in Sessions, EndSession(s), NoRunStarts
    PROVE  Faithful
<1> USE DEF RefInv, Base, TypeOK, StoreTypeOK
<1>1. /\ StageOf(s) = "capturing"
      /\ \A t \in Sessions : StageOf(t)' = IF t \in {s} THEN "pending" ELSE StageOf(t)
      /\ UNCHANGED <<transcript, item, artifact>>
  <2>1. StageOf(s) = "capturing" /\ StageOf(s)' = "pending"
    BY DEF EndSession, StageOf
  <2>2. \A t \in Sessions : t # s => StageOf(t)' = StageOf(t)
    BY DEF EndSession, StageOf
  <2> QED
    BY <2>1, <2>2 DEF EndSession
<1>2. SameDrafts /\ SameAuthors
  BY <1>1, RowsAlone
<1>3. \A t \in Sessions : status'[t] \in {"absent", "recording"}
                              => status[t] \in {"absent", "recording"}
  BY DEF EndSession
<1>4. Authorship'
  <2>1. \A t \in Sessions : AuthorsOf(t)' \subseteq AuthorsOf(t)
    BY <1>2 DEF SameAuthors
  <2> QED
    BY <1>3, <2>1, AuthorsShrink
<1>5. {s} \in SUBSET Sessions /\ \A t \in {s} : StageOf(t) = "capturing"
  BY <1>1
<1> QED
  BY <1>1, <1>2, <1>4, <1>5, Closes DEF Faithful

LEMMA ZombiesRead ==
    ASSUME RefInv, SweepZombies, NoRunStarts
    PROVE  Faithful
<1> USE DEF RefInv, Base, TypeOK, StoreTypeOK
<1> DEFINE S == {s \in Sessions : status[s] = "recording"}
<1>1. /\ \A s \in S : StageOf(s) = "capturing"
      /\ \A t \in Sessions : StageOf(t)' = IF t \in S THEN "pending" ELSE StageOf(t)
      /\ UNCHANGED <<transcript, item, artifact>>
  <2>1. \A t \in S : StageOf(t) = "capturing" /\ StageOf(t)' = "pending"
    BY DEF SweepZombies, StageOf
  <2>2. \A t \in Sessions \ S : StageOf(t)' = StageOf(t)
    BY DEF SweepZombies, StageOf
  <2> QED
    BY <2>1, <2>2 DEF SweepZombies
<1>2. SameDrafts /\ SameAuthors
  BY <1>1, RowsAlone
<1>3. \A t \in Sessions : status'[t] \in {"absent", "recording"}
                              => status[t] \in {"absent", "recording"}
  BY DEF SweepZombies
<1>4. Authorship'
  <2>1. \A t \in Sessions : AuthorsOf(t)' \subseteq AuthorsOf(t)
    BY <1>2 DEF SameAuthors
  <2> QED
    BY <1>3, <2>1, AuthorsShrink
<1>5. S \in SUBSET Sessions
  OBVIOUS
<1> HIDE DEF S
<1> QED
  BY <1>1, <1>2, <1>4, <1>5, Closes DEF Faithful

LEMMA FailReads ==
    ASSUME RefInv, NEW s \in Sessions, FinishFailed(s), NoRunStarts
    PROVE  Faithful
<1> USE DEF RefInv, Base, TypeOK, StoreTypeOK
<1>1. SameStages /\ UNCHANGED <<transcript, item, artifact>>
  BY DEF FinishFailed, Ended, SameStages, StageOf
<1>2. SameDrafts /\ SameAuthors
  BY <1>1, RowsAlone
<1>3. Authorship'
  BY <1>2, AuthorsShrink DEF FinishFailed, SameAuthors
<1> QED
  BY <1>1, <1>2, <1>3, Stutters DEF Faithful

\* A live or a manual item: the authors stay.
LEMMA JotReads ==
    ASSUME RefInv, NEW s \in Sessions, NEW i \in Items, NoRunStarts,
           AddLiveItem(s, i) \/ AddManualItem(s, i)
    PROVE  Faithful
<1> USE DEF RefInv, Base, TypeOK
<1>1. SameStages /\ UNCHANGED <<status, transcript>>
  BY StatusAlone DEF AddLiveItem, AddManualItem, InsertItem
<1>2. CASE AddLiveItem(s, i)
  <2>1. /\ SameAuthors
        /\ \A t \in Sessions : DraftOf(t)' = IF t = s THEN DraftOf(t) \cup {i} ELSE DraftOf(t)
    BY <1>2, InsertReads DEF AddLiveItem, Sources, SameAuthors
  <2>2. Authorship'
    BY <1>1, <2>1, AuthorsShrink DEF SameAuthors
  <2>3. StageOf(s) = "capturing"
    BY <1>2 DEF AddLiveItem, StageOf
  <2> QED
    BY <1>1, <2>1, <2>2, <2>3, Jots DEF Faithful
<1>3. CASE AddManualItem(s, i)
  <2>1. SameAuthors /\ SameDrafts
    BY <1>3, InsertReads DEF AddManualItem, Sources, SameAuthors, SameDrafts
  <2>2. Authorship'
    BY <1>1, <2>1, AuthorsShrink DEF SameAuthors
  <2> QED
    BY <1>1, <2>1, <2>2, Stutters DEF Faithful
<1> QED
  BY <1>2, <1>3

\* A call's own tools add to its own work: nobody else has a call on the session,
\* and what an earlier attempt left was cleared when this one started.
LEMMA WorkReads ==
    ASSUME RefInv, NEW r \in Runs, Active(r), NoRunStarts,
           \/ AddArtifact(run[r].of, r)
           \/ \E i \in Items : AddAuthoritativeItem(run[r].of, i, r)
    PROVE  Faithful
<1> USE StoreAssumption
<1> PICK s \in Sessions : s = run[r].of
  BY DEF RefInv, Base, RunsPlaced
<1>0. StoreTypeOK
  BY DEF RefInv, Base, TypeOK
<1>1. status[s] \in {"awaiting", "failed"}
  BY DEF RefInv, Base, RunsPlaced, Turns, FinishRuns, RetryRuns
<1>2. StageOf(s) = "pending"
  BY <1>1 DEF StageOf
<1>3. AuthorsOf(s) \subseteq {r}
  BY <1>0 DEF RefInv, Authorship
<1>4. UNCHANGED <<status, transcript>>
  BY DEF AddArtifact, AddAuthoritativeItem, InsertItem
<1>5. \A t \in Sessions : /\ DraftOf(t)' = DraftOf(t)
                          /\ AuthorsOf(t)' = IF t = s THEN AuthorsOf(t) \cup {r} ELSE AuthorsOf(t)
  <2>1. CASE AddArtifact(s, r)
    BY <1>0, <2>1, ArtifactReads
  <2>2. ASSUME NEW i \in Items, AddAuthoritativeItem(s, i, r)
        PROVE  \A t \in Sessions :
                  /\ DraftOf(t)' = DraftOf(t)
                  /\ AuthorsOf(t)' = IF t = s THEN AuthorsOf(t) \cup {r} ELSE AuthorsOf(t)
    BY <1>0, <2>2, InsertReads DEF AddAuthoritativeItem, Sources
  <2> QED
    BY <2>1, <2>2
<1>6. Lifecycle!Next
  BY <1>0, <1>2, <1>3, <1>4, <1>5, Contributes, StatusAlone DEF SameDrafts
<1>7. Authorship'
  <2>1. \A t \in Sessions : status'[t] \in {"absent", "recording"} => AuthorsOf(t)' = {}
    BY <1>1, <1>4, <1>5 DEF RefInv, Authorship
  <2>2. ASSUME NEW q \in Runs, NEW t \in Sessions, Active(q)', run'[q].of = t
        PROVE  AuthorsOf(t)' \subseteq {q}
    <3>1. Active(q) /\ run[q].of = t
      BY <2>2 DEF NoRunStarts
    <3>2. CASE t = s
      <4>1. q = r
        BY <3>1, <3>2, TurnsMeanOne DEF OneRunAtATime, RefInv
      <4> QED
        BY <1>3, <1>5, <3>2, <4>1
    <3>3. CASE t # s
      BY <1>5, <3>1, <3>3 DEF RefInv, Authorship
    <3> QED
      BY <3>2, <3>3
  <2>3. \A t \in Sessions : \A p, q \in AuthorsOf(t)' : p = q
    BY <1>3, <1>5 DEF RefInv, Authorship
  <2> QED
    BY <2>1, <2>2, <2>3 DEF Authorship
<1> QED
  BY <1>6, <1>7 DEF Faithful

\* Phase 0 reads as a restart, and is what lets the new call be the only author.
LEMMA StartRunReads ==
    ASSUME RefInv, NEW r \in Runs, NEW s \in Sessions, NEW c, StartRun(r, s, c)
    PROVE  Faithful
<1>0. StoreTypeOK /\ run \in [Runs -> RunRow]
  BY DEF RefInv, Base, TypeOK
<1>1. /\ UNCHANGED <<status, transcript>> /\ StageOf(s) = "pending"
      /\ \A t \in Sessions : /\ DraftOf(t)' = DraftOf(t)
                             /\ AuthorsOf(t)' = IF t = s THEN {} ELSE AuthorsOf(t)
  BY <1>0, ClearReads DEF StartRun, ClearAuthoritative, Ended, StageOf
<1>2. /\ \A q \in Runs : q # r => run'[q] = run[q]
      /\ run'[r].of = s
  BY <1>0 DEF StartRun
<1>3. Lifecycle!Next
  BY <1>1, Restarts, StatusAlone DEF SameDrafts
<1>4. Authorship'
  <2>1. \A q \in Runs, t \in Sessions : Active(q)' /\ run'[q].of = t => AuthorsOf(t)' \subseteq {q}
    BY <1>1, <1>2 DEF RefInv, Authorship, Active
  <2> QED
    BY <1>1, <2>1 DEF RefInv, Authorship
<1> QED
  BY <1>3, <1>4 DEF Faithful

\* finish_session_processed reads as the delivery.
LEMMA CommitReads ==
    ASSUME RefInv, NEW r \in Runs, Active(r), FinishProcessed(run[r].of, RunIds(r)), NoRunStarts
    PROVE  Faithful
<1> PICK s \in Sessions : s = run[r].of
  BY DEF RefInv, Base, RunsPlaced
<1>0. StoreTypeOK /\ LiveIsUnsigned /\ AuthorsOf(s) \subseteq {r}
  BY DEF RefInv, Base, TypeOK, Authorship
<1>1. \A t \in Sessions : /\ DraftOf(t)' = IF t = s THEN {} ELSE DraftOf(t)
                          /\ AuthorsOf(t)' = AuthorsOf(t)
  BY <1>0, SwapReads
<1>2. Ended(s) /\ status' = [status EXCEPT ![s] = "processed"] /\ UNCHANGED transcript
  BY DEF FinishProcessed
<1>3. Moves(s, "pending", "delivered")
  <2>1. StageOf(s) = "pending" /\ StageOf(s)' = "delivered"
    BY <1>0, <1>2 DEF Ended, StageOf, StoreTypeOK
  <2>2. \A t \in Sessions : t # s => StageOf(t)' = StageOf(t)
    BY <1>0, <1>2 DEF StageOf, StoreTypeOK
  <2> QED
    BY <2>1, <2>2 DEF Moves
<1>4. Authorship'
  <2>1. \A t \in Sessions : status'[t] \in {"absent", "recording"}
                               => status[t] \in {"absent", "recording"}
    BY <1>0, <1>2 DEF StoreTypeOK
  <2> QED
    BY <1>1, <2>1, AuthorsShrink DEF RefInv
<1> QED
  BY <1>0, <1>1, <1>2, <1>3, <1>4, Delivers DEF Faithful, SameAuthors

\* cancel()'s delete finds the walk still capturing, so nothing was on show.
LEMMA DiscardReads ==
    ASSUME RefInv, NEW s \in Sessions, status[s] = "recording", DeleteSession(s), NoRunStarts
    PROVE  Faithful
<1>0. StoreTypeOK /\ AuthorsOf(s) = {}
  BY DEF RefInv, Base, TypeOK, Authorship
<1>1. \A t \in Sessions : /\ DraftOf(t)' = IF t = s THEN {} ELSE DraftOf(t)
                          /\ AuthorsOf(t)' = AuthorsOf(t)
  BY <1>0, DeleteReads
<1>2. status' = [status EXCEPT ![s] = "deleted"] /\ UNCHANGED transcript
  BY DEF DeleteSession
<1>3. Moves(s, "capturing", "discarded")
  <2>1. StageOf(s) = "capturing" /\ StageOf(s)' = "discarded"
    BY <1>0, <1>2 DEF StageOf, StoreTypeOK
  <2>2. \A t \in Sessions : t # s => StageOf(t)' = StageOf(t)
    BY <1>0, <1>2 DEF StageOf, StoreTypeOK
  <2> QED
    BY <2>1, <2>2 DEF Moves
<1>4. Authorship'
  <2>1. \A t \in Sessions : status'[t] \in {"absent", "recording"}
                               => status[t] \in {"absent", "recording"}
    BY <1>0, <1>2 DEF StoreTypeOK
  <2> QED
    BY <1>1, <2>1, AuthorsShrink DEF RefInv
<1> QED
  BY <1>1, <1>2, <1>3, <1>4, Discards DEF Faithful, SameAuthors

\* A removal on the review screen strikes the work of the one author, or none of it.
LEMMA StrikeReads ==
    ASSUME RefInv, NEW s \in Sessions, NEW i \in Items, item[i].of = s, RemoveItem(s, i),
           NoRunStarts
    PROVE  Faithful
<1>0. StoreTypeOK /\ NoLiveRowsOnceProcessed
  BY DEF RefInv, Base, TypeOK
<1>1. \A t \in Sessions : /\ DraftOf(t)' = DraftOf(t)
                          /\ AuthorsOf(t)' \subseteq AuthorsOf(t)
                          /\ t # s => AuthorsOf(t)' = AuthorsOf(t)
  BY <1>0, RemoveReads
<1>2. UNCHANGED <<status, transcript>> /\ StageOf(s) = "delivered"
  BY DEF RemoveItem, StageOf
<1>3. AuthorsOf(s)' \in {AuthorsOf(s), {}}
  BY <1>1 DEF RefInv, Authorship
<1>4. Authorship'
  BY <1>1, <1>2, AuthorsShrink DEF RefInv
<1>5. CASE AuthorsOf(s)' = AuthorsOf(s)
  BY <1>1, <1>2, <1>4, <1>5, Stutters, StatusAlone DEF Faithful, SameDrafts, SameAuthors
<1>6. CASE AuthorsOf(s)' = {}
  BY <1>1, <1>2, <1>4, <1>6, Strikes, StatusAlone DEF Faithful, SameDrafts
<1> QED
  BY <1>3, <1>5, <1>6

-----------------------------------------------------------------------------
(* One abstract step per step *)

\* Steps of the walks that call no store, or read it only.
LEMMA QuietStepReads ==
    ASSUME RefInv, UNCHANGED <<status, transcript, item, artifact, run>>
    PROVE  Faithful
<1>1. NoRunStarts
  BY DEF NoRunStarts, Active
<1> QED
  BY <1>1, NothingReads

LEMMA ShellReads ==
    ASSUME RefInv, NEW s \in Sessions, Shell(s)
    PROVE  Faithful
<1> USE DEF walkVars, procVars, storeVars
<1>1. CASE BeginWalk(s) \/ BeginFails(s)
  <2>1. StartSession(s) /\ UNCHANGED run
    BY <1>1 DEF BeginWalk, BeginFails
  <2> QED
    BY <2>1, StartReads DEF NoRunStarts, Active
<1>2. CASE AppendText(s)
  <2>1. AppendIfRecording(s, 1) /\ UNCHANGED run
    BY <1>2 DEF AppendText
  <2>2. transcript[s] + 1 <= MaxChunks
    BY <1>2, StoreAssumption
    DEF AppendText, RefInv, Base, Bounded, Live, TypeOK, StoreTypeOK
  <2> QED
    BY <2>1, <2>2, AppendReads DEF NoRunStarts, Active
<1>3. ASSUME NEW i \in Items, EditAdds(s, i) \/ EditRemoves(s, i) PROVE Faithful
  <2>1. UNCHANGED run
    BY <1>3 DEF EditAdds, EditRemoves
  <2>2. NoRunStarts
    BY <2>1 DEF NoRunStarts, Active
  <2> QED
    BY <1>3, <2>2, JotReads, StrikeReads DEF EditAdds, EditRemoves
<1>4. CASE PushAudio(s) \/ FinishCalls(s) \/ CancelCalls(s) \/ HostDrops(s)
  BY <1>4, QuietStepReads DEF PushAudio, FinishCalls, CancelCalls, HostDrops
<1> QED
  BY <1>1, <1>2, <1>3, <1>4 DEF Shell

LEMMA PumpReads ==
    ASSUME RefInv, NEW s \in Sessions, Pump(s)
    PROVE  Faithful
<1> USE DEF walkVars, procVars, storeVars
<1>1. CASE PumpFeeds(s)
  <2>1. AppendIfRecording(s, 1) /\ UNCHANGED run
    BY <1>1 DEF PumpFeeds
  <2>2. transcript[s] + 1 <= MaxChunks
    BY <1>1, StoreAssumption
    DEF PumpFeeds, RefInv, Base, Bounded, Fed, Live, TypeOK, StoreTypeOK
  <2> QED
    BY <2>1, <2>2, AppendReads DEF NoRunStarts, Active
<1> QED
  BY <1>1, QuietStepReads DEF Pump, PumpPolls, PumpExits, PumpDecodes, PumpDecodeFails

LEMMA TickReads ==
    ASSUME RefInv, NEW s \in Sessions, Tick(s)
    PROVE  Faithful
<1> USE DEF walkVars, procVars, storeVars
<1>1. ASSUME NEW i \in Items, TickAdds(s, i) PROVE Faithful
  <2>1. AddLiveItem(s, i) /\ NoRunStarts
    BY <1>1 DEF TickAdds, NoRunStarts, Active
  <2> QED
    BY <2>1, JotReads
<1> QED
  BY <1>1, QuietStepReads DEF Tick, TickStarts, TickSkips, TickEnds

LEMMA FinishReads ==
    ASSUME RefInv, NEW s \in Sessions, Finish(s)
    PROVE  Faithful
<1> USE DEF walkVars, procVars, storeVars
<1>1. CASE FinishFlushes(s)
  <2>1. AppendIfRecording(s, pending[s]) /\ UNCHANGED run
    BY <1>1 DEF FinishFlushes
  <2>2. pending[s] \in Nat /\ transcript[s] + pending[s] <= MaxChunks
    BY <1>1, StoreAssumption
    DEF FinishFlushes, RefInv, Base, Bounded, Live, TypeOK, StoreTypeOK
  <2> QED
    BY <2>1, <2>2, AppendReads DEF NoRunStarts, Active
<1>2. CASE FinishEnds(s)
  <2>1. EndSession(s) /\ NoRunStarts
    BY <1>2 DEF FinishEnds, NoRunStarts, Active
  <2> QED
    BY <2>1, EndReads
<1>3. CASE \E r \in Runs : FinishProcesses(s, r)
  BY <1>3, StartRunReads DEF FinishProcesses
<1> QED
  BY <1>1, <1>2, <1>3, QuietStepReads
  DEF Finish, FinishLocks, FinishJoins, FinishFlushFails, FinishEndFails, FinishRefused,
      FinishReturns

LEMMA CancelReads ==
    ASSUME RefInv, NEW s \in Sessions, Cancel(s)
    PROVE  Faithful
<1> USE DEF walkVars, procVars, storeVars
<1>1. CASE CancelDeletes(s)
  <2>1. status[s] = "recording"
    BY <1>1 DEF CancelDeletes, RefInv, Exits, ExitsOf, Live, FinBeforeEnd
  <2>2. DeleteSession(s) /\ NoRunStarts
    BY <1>1 DEF CancelDeletes, NoRunStarts, Active
  <2> QED
    BY <2>1, <2>2, DiscardReads
<1> QED
  BY <1>1, QuietStepReads DEF Cancel, CancelLocks, CancelJoins, CancelDeleteFails

\* A call that goes on, or ends, starts no other.
LEMMA ProcessStartsNone ==
    ASSUME Base, NEW r \in Runs, Process(r)
    PROVE  Active(r) /\ NoRunStarts
<1>1. Active(r)
  BY DEF Process, RunWritesReport, RunSucceeds, RunCommits, RunExitFaults, RunFails,
         RunAddsItem, Active
<1>2. CASE UNCHANGED run
  BY <1>1, <1>2 DEF NoRunStarts, Active
<1>3. CASE \E there \in {"exit", "over"} : RunGoesTo(r, there)
  <2>1. \A q \in Runs : /\ run'[q].of = run[q].of
                        /\ q # r => run'[q] = run[q]
    BY <1>3 DEF RunGoesTo, Base, TypeOK, RunRow
  <2> QED
    BY <1>1, <2>1 DEF NoRunStarts, Active
<1> QED
  BY <1>1, <1>2, <1>3
  DEF Process, RunWritesReport, RunSucceeds, RunCommits, RunExitFaults, RunFails, RunAddsItem,
      walkVars, procVars

LEMMA ProcessReads ==
    ASSUME RefInv, NEW r \in Runs, Process(r)
    PROVE  Faithful
<1> USE DEF walkVars, procVars, storeVars
<1>0. Active(r) /\ NoRunStarts
  BY ProcessStartsNone DEF RefInv
<1>1. CASE RunWritesReport(r) \/ \E i \in Items : RunAddsItem(r, i)
  BY <1>0, <1>1, WorkReads DEF RunWritesReport, RunAddsItem
<1>2. CASE RunSucceeds(r)
  BY <1>0, <1>2, WorkReads, NothingReads DEF RunSucceeds
<1>3. CASE RunCommits(r)
  BY <1>0, <1>3, CommitReads DEF RunCommits
<1>4. CASE RunExitFaults(r)
  BY <1>0, <1>4, NothingReads DEF RunExitFaults
<1>5. CASE RunFails(r)
  <2>1. PICK s \in Sessions : s = run[r].of
    BY <1>0 DEF RefInv, Base, RunsPlaced
  <2>2. FinishFailed(s)
    BY <1>5, <2>1 DEF RunFails
  <2> QED
    BY <1>0, <2>2, FailReads
<1> QED
  BY <1>1, <1>2, <1>3, <1>4, <1>5 DEF Process

LEMMA LifecycleStep ==
    ASSUME RefInv, [Next]_vars
    PROVE  Faithful
<1> USE DEF walkVars, procVars, storeVars
<1>1. ASSUME NEW s \in Sessions, DropRuns(s) PROVE Faithful
  BY <1>1, QuietStepReads DEF DropRuns
<1>2. CASE AppOpen
  <2>1. NoRunStarts
    BY <1>2 DEF AppOpen, NoRunStarts, Active
  <2> QED
    BY <1>2, <2>1, ZombiesRead, NothingReads DEF AppOpen
<1>3. CASE Retry
  <2>1. ASSUME NEW s \in Sessions, NEW r \in Runs, RetryNext(s, r) PROVE Faithful
    BY <2>1, StartRunReads DEF RetryNext
  <2> QED
    BY <1>3, <2>1, QuietStepReads DEF Retry, RetryLists, RetryListFails, RetryEnds, RetryRefused
<1>4. CASE Crash
  <2>1. \A r \in Runs : ~Active(r)'
    BY <1>4 DEF Crash, Active, RefInv, Base, TypeOK, RunRow
  <2> QED
    BY <1>4, <2>1, NothingReads DEF Crash, NoRunStarts
<1>5. CASE UNCHANGED vars
  BY <1>5, QuietStepReads DEF vars
<1> QED
  BY <1>1, <1>2, <1>3, <1>4, <1>5, ShellReads, PumpReads, TickReads, FinishReads, CancelReads,
     ProcessReads DEF Next

\* The invariant holds, layer by layer.
LEMMA RefInvariant == Spec => []RefInv
<1>1. Init => RefInv
  <2>1. Init => Exits /\ Turns /\ LiveIsUnsigned /\ NoLiveRowsOnceProcessed /\ Authorship
    BY StoreAssumption
    DEF Init, StoreInit, Exits, ExitsOf, SweepIsFirst, Live, FinHolds, FinPastJoin, FinBeforeEnd,
        Turns, FinishRuns, RetryRuns, Active, LiveIsUnsigned, NoLiveRowsOnceProcessed,
        FromSource, Board, Authorship, AuthorsOf
  <2> QED
    BY <2>1, BaseInit DEF RefInv
<1>2. RefInv /\ [Next]_vars => RefInv'
  <2>1. RefInv /\ [Next]_vars => Base' /\ Exits' /\ Turns'
    BY BaseStep, ExitsStep, TurnsStep DEF RefInv
  <2>2. RefInv /\ [Next]_vars => (LiveIsUnsigned /\ NoLiveRowsOnceProcessed)'
    BY StepsAreStoreSteps, SwapStep DEF RefInv, Base, TypeOK
  <2>3. RefInv /\ [Next]_vars => Authorship'
    BY LifecycleStep DEF Faithful
  <2> QED
    BY <2>1, <2>2, <2>3 DEF RefInv
<1> QED
  BY <1>1, <1>2, PTL DEF Spec

\* The walk keeps the promises of WalkLifecycle: what was heard and drafted survives
\* every race, failed attempt and relaunch until one attempt's work replaces it.
THEOREM WalkImplementsLifecycle == Spec => ImplementsLifecycle
<1>1. Init => Lifecycle!Init
  BY StoreAssumption
  DEF Init, StoreInit, Lifecycle!Init, StageOf, DraftOf, AuthorsOf, FromSource, Board
<1>2. RefInv /\ [Next]_vars => [Lifecycle!Next]_(Lifecycle!vars)
  BY LifecycleStep DEF Faithful
<1> QED
  BY <1>1, <1>2, RefInvariant, PTL DEF Spec, ImplementsLifecycle, Lifecycle!Spec

=============================================================================
