-------------------------- MODULE WalkSession_proofs --------------------------
(***************************************************************************)
(* Theorems about SessionStore and WalkSession, for any number of          *)
(* sessions, items, photos, process() calls, chunks and crashes.           *)
(*                                                                         *)
(* First what the store promises to any client.  Every promise is the      *)
(* theorem of one step lemma; the step lemmas are about StoreNext alone,   *)
(* so that a client whose steps are store steps may cite them.             *)
(*                                                                         *)
(* Then the client.  Its inductive invariant is built in layers, each      *)
(* proved on top of the one before:                                        *)
(*   Base    types, and the counters that keep the transcript in bounds;   *)
(*           enough to show that every step is a step of the store         *)
(*   Exits   where finish(), cancel(), the guard, the pump and the status  *)
(*           of the row stand relative to each other                       *)
(*   Turns   who may have a process() call under way, and on what status   *)
(***************************************************************************)
EXTENDS WalkSession, TLAPS

-----------------------------------------------------------------------------
(* Rows keep their types *)

\* A tombstone keeps every other field of a row, and leaves the rest alone.
LEMMA TombstoneKeepsRows ==
    ASSUME item \in [Items -> ItemRow], NEW S, TombstoneItems(S)
    PROVE  /\ item' \in [Items -> ItemRow]
           /\ \A i \in Items :
                 /\ item'[i].of = item[i].of
                 /\ item'[i].source = item[i].source
                 /\ item'[i].by = item[i].by
                 /\ item'[i].dead <=> item[i].dead \/ i \in S
  BY DEF TombstoneItems, ItemRow

\* The demotion keeps photo rows photo rows.
LEMMA DemoteKeepsRows ==
    ASSUME photo \in [Photos -> PhotoRow], NEW s, DemotePhotosOf(s)
    PROVE  photo' \in [Photos -> PhotoRow]
  BY DEF DemotePhotosOf, PhotoRow

\* Every transaction leaves the tables well typed (the schema's columns).
LEMMA StoreTypeStep ==
    ASSUME StoreTypeOK, [StoreNext]_storeVars
    PROVE  StoreTypeOK'
<1> USE StoreAssumption DEF StoreTypeOK
<1>1. CASE UNCHANGED storeVars
  BY <1>1 DEF storeVars
<1>2. CASE SweepZombies
  BY <1>2 DEF SweepZombies, Statuses
<1>3. ASSUME NEW s \in Sessions, StartSession(s) PROVE StoreTypeOK'
  BY <1>3 DEF StartSession, Statuses
<1>4. ASSUME NEW s \in Sessions, NEW n \in 1..MaxChunks - transcript[s],
             AppendTranscript(s, n)
      PROVE  StoreTypeOK'
  BY <1>4 DEF AppendTranscript
<1>5. ASSUME NEW s \in Sessions, EndSession(s) PROVE StoreTypeOK'
  BY <1>5 DEF EndSession, Statuses
<1>6. ASSUME NEW s \in Sessions, DeleteSession(s) PROVE StoreTypeOK'
  <2>1. item' \in [Items -> ItemRow]
    BY <1>6, TombstoneKeepsRows DEF DeleteSession
  <2>2. photo' \in [Photos -> PhotoRow]
    BY <1>6 DEF DeleteSession, PhotoRow
  <2> QED
    BY <1>6, <2>1, <2>2 DEF DeleteSession, Statuses
<1>7. ASSUME NEW s \in Sessions, ClearAuthoritative(s) PROVE StoreTypeOK'
  <2>1. item' \in [Items -> ItemRow] /\ photo' \in [Photos -> PhotoRow]
    BY <1>7, TombstoneKeepsRows, DemoteKeepsRows DEF ClearAuthoritative
  <2> QED
    BY <1>7, <2>1 DEF ClearAuthoritative
<1>8. ASSUME NEW s \in Sessions, FinishFailed(s) PROVE StoreTypeOK'
  BY <1>8 DEF FinishFailed, Statuses
<1>9. ASSUME NEW s \in Sessions, NEW ids, FinishProcessed(s, ids) PROVE StoreTypeOK'
  <2>1. item' \in [Items -> ItemRow] /\ photo' \in [Photos -> PhotoRow]
    BY <1>9, TombstoneKeepsRows, DemoteKeepsRows DEF FinishProcessed
  <2> QED
    BY <1>9, <2>1 DEF FinishProcessed, Statuses
<1>10. ASSUME NEW s \in Sessions, NEW i \in Items, NEW src \in Sources,
              NEW r \in Runs \cup {Nobody}, InsertItem(s, i, src, r)
       PROVE  StoreTypeOK'
  BY <1>10 DEF InsertItem, ItemRow
<1>11. ASSUME NEW s \in Sessions, NEW i \in Items, RemoveItem(s, i) PROVE StoreTypeOK'
  <2>1. item' \in [Items -> ItemRow]
    BY <1>11, TombstoneKeepsRows DEF RemoveItem
  <2>2. photo' \in [Photos -> PhotoRow]
    BY <1>11 DEF RemoveItem, PhotoRow
  <2> QED
    BY <1>11, <2>1, <2>2 DEF RemoveItem
<1>12. ASSUME NEW s \in Sessions, NEW r \in Runs, AddArtifact(s, r) PROVE StoreTypeOK'
  BY <1>12 DEF AddArtifact
<1>13. ASSUME NEW s \in Sessions, NEW p \in Photos, NEW i \in Items \cup {Nobody},
              AddPhoto(s, p, i)
       PROVE  StoreTypeOK'
  BY <1>13 DEF AddPhoto, PhotoRow
<1>14. ASSUME NEW p \in Photos, RemovePhoto(p) PROVE StoreTypeOK'
  BY <1>14 DEF RemovePhoto, PhotoRow
<1> QED
  BY <1>1, <1>2, <1>3, <1>4, <1>5, <1>6, <1>7, <1>8, <1>9, <1>10, <1>11, <1>12,
     <1>13, <1>14
  DEF StoreNext, AddLiveItem, AddManualItem, AddAuthoritativeItem, Sources

\* The tables are well typed under any client (schema of store/mod.rs).
THEOREM StoreIsTyped == StoreSpec => []StoreTypeOK
<1>1. StoreInit => StoreTypeOK
  BY StoreAssumption DEF StoreInit, StoreTypeOK, Statuses, ItemRow, PhotoRow, Sources
<1> QED
  BY <1>1, StoreTypeStep, PTL DEF StoreSpec

-----------------------------------------------------------------------------
(* Photos *)

Placed(p) == OnABoard(photo[p].on) /\ item[photo[p].on].of = photo[p].of

\* What every transaction does to a photo that stays live: it keeps its session,
\* and its item, unless the transaction demotes it.
LEMMA DemotedOrKept ==
    ASSUME StoreTypeOK, NEW s \in Sessions, DemotePhotosOf(s), NEW p \in Photos
    PROVE  /\ photo'[p].of = photo[p].of
           /\ photo'[p].dead = photo[p].dead
           /\ photo'[p].on \in {photo[p].on, Nobody}
           /\ (/\ photo[p].of = s /\ ~photo[p].dead
               /\ photo[p].on \in {i \in Items : item'[i].of = s /\ item'[i].dead})
              => photo'[p].on = Nobody
  BY DEF DemotePhotosOf, StoreTypeOK, PhotoRow

\* A sweep of items of s and the demotion of s in one transaction keep the photos
\* where live items are.
LEMMA SweepAndDemoteStep ==
    ASSUME StoreTypeOK, PhotosNeverDangle, NEW s \in Sessions,
           NEW S \in SUBSET Board(s), TombstoneItems(S), DemotePhotosOf(s)
    PROVE  PhotosNeverDangle'
<1> SUFFICES ASSUME NEW p \in Photos, Attached(p)', (photo[p].on # Nobody)'
             PROVE  Placed(p)'
  BY DEF PhotosNeverDangle, Placed
<1> DEFINE i == photo[p].on
<1>1. /\ photo'[p].of = photo[p].of /\ photo'[p].dead = photo[p].dead
      /\ photo'[p].on = i /\ i # Nobody
      /\ photo[p].of = s => ~(item'[i].of = s /\ item'[i].dead)
  BY DemotedOrKept DEF Attached, StoreTypeOK, PhotoRow
<1>2. i \in Items /\ OnABoard(i) /\ item[i].of = photo[p].of
  BY <1>1 DEF PhotosNeverDangle, Attached, StoreTypeOK, PhotoRow
<1>3. /\ item'[i].of = item[i].of
      /\ item'[i].dead <=> item[i].dead \/ i \in S
  BY <1>2, TombstoneKeepsRows DEF StoreTypeOK
<1>4. ~item'[i].dead
  <2>1. CASE photo[p].of = s
    BY <2>1, <1>1, <1>2, <1>3
  <2>2. CASE photo[p].of # s
    BY <2>2, <1>2, <1>3 DEF Board, OnABoard
  <2> QED
    BY <2>1, <2>2
<1> QED
  BY <1>1, <1>2, <1>3, <1>4 DEF OnABoard, Placed

LEMMA PhotosStep ==
    ASSUME StoreTypeOK, PhotosNeverDangle, [StoreNext]_storeVars
    PROVE  PhotosNeverDangle'
<1> USE StoreAssumption
<1>1. ASSUME UNCHANGED <<item, photo>> PROVE PhotosNeverDangle'
  BY <1>1 DEF PhotosNeverDangle, Attached, OnABoard
<1>2. ASSUME NEW s \in Sessions, DeleteSession(s) PROVE PhotosNeverDangle'
  <2> SUFFICES ASSUME NEW p \in Photos, Attached(p)', (photo[p].on # Nobody)'
               PROVE  Placed(p)'
    BY DEF PhotosNeverDangle, Placed
  <2>1. photo[p].of # s /\ photo'[p] = photo[p]
    BY <1>2 DEF DeleteSession, Attached, StoreTypeOK, PhotoRow
  <2>2. /\ photo[p].on \in Items /\ OnABoard(photo[p].on)
        /\ item[photo[p].on].of = photo[p].of
    BY <2>1 DEF PhotosNeverDangle, Attached, StoreTypeOK, PhotoRow
  <2>3. item'[photo[p].on] = item[photo[p].on]
    BY <1>2, <2>1, <2>2 DEF DeleteSession, TombstoneItems, Board
  <2> QED
    BY <2>1, <2>2, <2>3 DEF OnABoard, Placed
<1>3. ASSUME NEW s \in Sessions, ClearAuthoritative(s) PROVE PhotosNeverDangle'
  BY <1>3, SweepAndDemoteStep DEF ClearAuthoritative, FromSource, Board
<1>4. ASSUME NEW s \in Sessions, NEW ids, FinishProcessed(s, ids)
      PROVE  PhotosNeverDangle'
  BY <1>4, SweepAndDemoteStep DEF FinishProcessed, FromSource, Board
<1>5. ASSUME NEW s \in Sessions, NEW i \in Items, NEW src, NEW r, InsertItem(s, i, src, r)
      PROVE  PhotosNeverDangle'
  \* The row was not in use, so no photo is on it.
  BY <1>5 DEF InsertItem, PhotosNeverDangle, Attached, OnABoard, StoreTypeOK,
              PhotoRow, ItemRow
<1>6. ASSUME NEW s \in Sessions, NEW i \in Items, RemoveItem(s, i)
      PROVE  PhotosNeverDangle'
  <2> SUFFICES ASSUME NEW p \in Photos, Attached(p)', (photo[p].on # Nobody)'
               PROVE  Placed(p)'
    BY DEF PhotosNeverDangle, Placed
  <2>1. photo[p].on # i /\ photo'[p] = photo[p]
    BY <1>6 DEF RemoveItem, Attached, StoreTypeOK, PhotoRow
  <2>2. /\ photo[p].on \in Items /\ OnABoard(photo[p].on)
        /\ item[photo[p].on].of = photo[p].of
    BY <2>1 DEF PhotosNeverDangle, Attached, StoreTypeOK, PhotoRow
  <2>3. item'[photo[p].on] = item[photo[p].on]
    BY <1>6, <2>1, <2>2 DEF RemoveItem, TombstoneItems
  <2> QED
    BY <2>1, <2>2, <2>3 DEF OnABoard, Placed
<1>7. ASSUME NEW s \in Sessions, NEW p \in Photos, NEW i \in Items \cup {Nobody},
             AddPhoto(s, p, i)
      PROVE  PhotosNeverDangle'
  BY <1>7 DEF AddPhoto, PhotosNeverDangle, Attached, OnABoard, StoreTypeOK, PhotoRow
<1>8. ASSUME NEW p \in Photos, RemovePhoto(p) PROVE PhotosNeverDangle'
  BY <1>8 DEF RemovePhoto, PhotosNeverDangle, Attached, OnABoard, StoreTypeOK, PhotoRow
<1> QED
  BY <1>1, <1>2, <1>3, <1>4, <1>5, <1>6, <1>7, <1>8
  DEF storeVars, StoreNext, SweepZombies, StartSession, AppendTranscript, EndSession,
      FinishFailed, AddArtifact, AddLiveItem, AddManualItem, AddAuthoritativeItem

\* Plan 11 D3 for any client: every path that tombstones an item takes the photos
\* off it in the same transaction, and a photo is only ever put on a live item of
\* its own session.
THEOREM PhotosAreSafe == StoreSpec => []PhotosNeverDangle
<1>1. StoreInit => PhotosNeverDangle
  BY DEF StoreInit, PhotosNeverDangle, Attached
<1> QED
  BY <1>1, StoreIsTyped, PhotosStep, PTL DEF StoreSpec

\* delete_item's promise for any client: what happens to items never takes a photo.
THEOREM PhotosOutlive == StoreSpec => PhotosOutliveItems
<1> DEFINE Kept == \A p \in Photos :
                     Attached(p) /\ ~Attached(p)' =>
                        \/ status'[photo[p].of] = "deleted"
                        \/ UNCHANGED <<status, transcript, item, artifact>>
<1>1. ASSUME StoreTypeOK, [StoreNext]_storeVars PROVE Kept
  <2> SUFFICES ASSUME NEW p \in Photos, Attached(p), ~Attached(p)'
               PROVE  \/ status'[photo[p].of] = "deleted"
                      \/ UNCHANGED <<status, transcript, item, artifact>>
    OBVIOUS
  <2> USE StoreAssumption
  <2>1. ASSUME NEW s \in Sessions, DemotePhotosOf(s) PROVE FALSE
    BY <1>1, <2>1, DemotedOrKept DEF Attached
  <2>2. ASSUME NEW s \in Sessions, DeleteSession(s)
        PROVE  status'[photo[p].of] = "deleted"
    BY <1>1, <2>2 DEF DeleteSession, Attached, StoreTypeOK, PhotoRow
  <2>3. ASSUME NEW s \in Sessions, NEW i \in Items, RemoveItem(s, i) PROVE FALSE
    BY <1>1, <2>3 DEF RemoveItem, Attached, StoreTypeOK, PhotoRow
  <2>4. ASSUME NEW s \in Sessions, NEW q \in Photos, NEW i \in Items \cup {Nobody},
               AddPhoto(s, q, i)
        PROVE  FALSE
    BY <1>1, <2>4 DEF AddPhoto, Attached, StoreTypeOK, PhotoRow
  <2>5. ASSUME NEW q \in Photos, RemovePhoto(q)
        PROVE  UNCHANGED <<status, transcript, item, artifact>>
    BY <2>5 DEF RemovePhoto
  <2>6. ASSUME UNCHANGED photo PROVE FALSE
    BY <2>6 DEF Attached
  <2> QED
    BY <1>1, <2>1, <2>2, <2>3, <2>4, <2>5, <2>6
    DEF storeVars, StoreNext, SweepZombies, StartSession, AppendTranscript, EndSession,
        ClearAuthoritative, FinishProcessed, FinishFailed, InsertItem, AddArtifact,
        AddLiveItem, AddManualItem, AddAuthoritativeItem
<1>2. ASSUME StoreTypeOK, [StoreNext]_storeVars PROVE [Kept]_storeVars
  BY <1>1, <1>2
<1> QED
  BY <1>2, StoreIsTyped, PTL DEF StoreSpec, PhotosOutliveItems

-----------------------------------------------------------------------------
(* Deleted sessions *)

Gone(s) ==
    /\ Board(s) = {}
    /\ artifact[s] = {}
    /\ \A p \in Photos : photo[p].of = s => photo[p].dead

\* Nothing is left of s after a transaction that added nothing to s.
LEMMA GoneStays ==
    ASSUME NEW s \in Sessions, Gone(s),
           \A i \in Items : i \in Board(s)' => i \in Board(s),
           artifact'[s] \subseteq artifact[s],
           \A p \in Photos : photo'[p].of = s /\ ~photo'[p].dead
                                => photo[p].of = s /\ ~photo[p].dead
    PROVE  Gone(s)'
  BY DEF Gone, Board

\* A sweep shrinks every board.
LEMMA SweepShrinks ==
    ASSUME StoreTypeOK, NEW S, TombstoneItems(S), NEW s \in Sessions
    PROVE  Board(s)' = Board(s) \ S
  BY TombstoneKeepsRows DEF Board, StoreTypeOK

LEMMA DeletedStep ==
    ASSUME StoreTypeOK, DeletedIsGone, [StoreNext]_storeVars
    PROVE  DeletedIsGone'
<1> USE StoreAssumption
<1> SUFFICES ASSUME NEW t \in Sessions, (status[t] \in {"absent", "deleted"})'
             PROVE  Gone(t)'
  BY DEF DeletedIsGone, Gone
<1>0. status[t] \in {"absent", "deleted"} => Gone(t)
  BY DEF DeletedIsGone, Gone
<1>1. ASSUME UNCHANGED <<item, photo, artifact>>, status[t] \in {"absent", "deleted"}
      PROVE  Gone(t)'
  BY <1>0, <1>1 DEF Gone, Board
<1>2. ASSUME NEW s \in Sessions, DeleteSession(s) PROVE Gone(t)'
  <2>1. CASE t = s
    BY <1>2, <2>1, SweepShrinks DEF DeleteSession, Gone, StoreTypeOK, PhotoRow
  <2>2. CASE t # s
    <3>1. Gone(t)
      BY <1>0, <1>2, <2>2 DEF DeleteSession, StoreTypeOK
    <3>2. Board(t)' \subseteq Board(t) /\ artifact'[t] = artifact[t]
      BY <1>2, <2>2, SweepShrinks DEF DeleteSession, StoreTypeOK
    <3>3. \A p \in Photos : photo'[p].of = photo[p].of
                            /\ (photo[p].dead => photo'[p].dead)
      BY <1>2 DEF DeleteSession, StoreTypeOK, PhotoRow
    <3> QED
      BY <3>1, <3>2, <3>3, GoneStays
  <2> QED
    BY <2>1, <2>2
<1>3. ASSUME NEW s \in Sessions, NEW S, TombstoneItems(S), DemotePhotosOf(s),
             artifact'[t] \subseteq artifact[t], status[t] \in {"absent", "deleted"}
      PROVE  Gone(t)'
  <2>1. \A p \in Photos : photo'[p].of = photo[p].of /\ photo'[p].dead = photo[p].dead
    BY <1>3, DemotedOrKept
  <2> QED
    BY <1>0, <1>3, <2>1, SweepShrinks, GoneStays
<1>4. ASSUME NEW s \in Sessions, ClearAuthoritative(s) PROVE Gone(t)'
  <2>1. artifact'[t] \subseteq artifact[t]
    BY <1>4 DEF ClearAuthoritative, StoreTypeOK
  <2> QED
    BY <1>3, <1>4, <2>1 DEF ClearAuthoritative
<1>5. ASSUME NEW s \in Sessions, NEW ids, FinishProcessed(s, ids) PROVE Gone(t)'
  <2>1. status[t] \in {"absent", "deleted"}
    BY <1>5 DEF FinishProcessed, StoreTypeOK
  <2> QED
    BY <1>3, <1>5, <2>1 DEF FinishProcessed
<1>6. ASSUME NEW s \in Sessions, status[s] \notin {"absent", "deleted"},
             NEW i \in Items, NEW src, NEW r, InsertItem(s, i, src, r)
      PROVE  Gone(t)'
  <2>1. t # s
    BY <1>6 DEF InsertItem
  <2> QED
    BY <1>0, <1>6, <2>1 DEF InsertItem, Gone, Board, StoreTypeOK, ItemRow
<1>7. ASSUME NEW s \in Sessions, NEW i \in Items, RemoveItem(s, i) PROVE Gone(t)'
  <2>1. Gone(t) /\ artifact'[t] = artifact[t]
    BY <1>0, <1>7 DEF RemoveItem
  <2>2. Board(t)' \subseteq Board(t)
    BY <1>7, SweepShrinks DEF RemoveItem
  <2>3. \A p \in Photos : photo'[p].of = photo[p].of /\ photo'[p].dead = photo[p].dead
    BY <1>7 DEF RemoveItem, StoreTypeOK, PhotoRow
  <2> QED
    BY <2>1, <2>2, <2>3, GoneStays
<1>8. ASSUME NEW s \in Sessions, NEW r \in Runs, AddArtifact(s, r) PROVE Gone(t)'
  BY <1>0, <1>8 DEF AddArtifact, Exists, Gone, Board, StoreTypeOK
<1>9. ASSUME NEW s \in Sessions, NEW p \in Photos, NEW i \in Items \cup {Nobody},
             AddPhoto(s, p, i)
      PROVE  Gone(t)'
  BY <1>0, <1>9 DEF AddPhoto, Exists, Gone, Board, StoreTypeOK, PhotoRow
<1>10. ASSUME NEW p \in Photos, RemovePhoto(p) PROVE Gone(t)'
  BY <1>0, <1>10 DEF RemovePhoto, Attached, Gone, Board, StoreTypeOK, PhotoRow
<1>11. CASE SweepZombies \/ \E s \in Sessions : StartSession(s) \/ EndSession(s) \/ FinishFailed(s)
  <2>1. status[t] \in {"absent", "deleted"}
    BY <1>11 DEF SweepZombies, StartSession, EndSession, FinishFailed, StoreTypeOK
  <2> QED
    BY <1>1, <1>11, <2>1 DEF SweepZombies, StartSession, EndSession, FinishFailed
<1>12. ASSUME NEW s \in Sessions, NEW n, AppendTranscript(s, n) PROVE Gone(t)'
  BY <1>1, <1>12 DEF AppendTranscript
<1>13. CASE UNCHANGED storeVars
  BY <1>1, <1>13 DEF storeVars
<1> QED
  BY <1>2, <1>4, <1>5, <1>6, <1>7, <1>8, <1>9, <1>10, <1>11, <1>12, <1>13
  DEF StoreNext, AddLiveItem, AddManualItem, AddAuthoritativeItem, Exists

\* delete_session's cascade is complete, and no operation of any client brings a
\* row of a deleted session back or adds one to it.
THEOREM DeletedStaysGone == StoreSpec => []DeletedIsGone
<1>1. StoreInit => DeletedIsGone
  BY StoreAssumption DEF StoreInit, DeletedIsGone, Board
<1> QED
  BY <1>1, StoreIsTyped, DeletedStep, PTL DEF StoreSpec

-----------------------------------------------------------------------------
(* The swap *)

\* No process() run has a live item in its created_ids sink.  Without it the swap
\* of FinishProcessed could spare one.
LiveIsUnsigned == \A i \in Items : item[i].source = "live" => item[i].by = Nobody

LEMMA SwapStep ==
    ASSUME StoreTypeOK, LiveIsUnsigned, NoLiveRowsOnceProcessed, [StoreNext]_storeVars
    PROVE  LiveIsUnsigned' /\ NoLiveRowsOnceProcessed'
<1> USE StoreAssumption
<1> DEFINE LiveOn(t, i) == item[i].of = t /\ ~item[i].dead /\ item[i].source = "live"
<1>0. /\ NoLiveRowsOnceProcessed
         <=> \A t \in Sessions, i \in Items : status[t] = "processed" => ~LiveOn(t, i)
      /\ NoLiveRowsOnceProcessed'
         <=> \A t \in Sessions, i \in Items : (status[t] = "processed" => ~LiveOn(t, i))'
  BY DEF NoLiveRowsOnceProcessed, FromSource, Board
<1>1. ASSUME UNCHANGED item, \A t \in Sessions : status'[t] = "processed"
                                                 => status[t] = "processed"
      PROVE  LiveIsUnsigned' /\ NoLiveRowsOnceProcessed'
  BY <1>0, <1>1 DEF LiveIsUnsigned
<1>2. ASSUME NEW S, TombstoneItems(S), \A t \in Sessions : status'[t] = "processed"
                                                 => status[t] = "processed"
      PROVE  LiveIsUnsigned' /\ NoLiveRowsOnceProcessed'
  BY <1>0, <1>2, TombstoneKeepsRows DEF LiveIsUnsigned, StoreTypeOK
<1>3. ASSUME NEW s \in Sessions, NEW r \in Runs, FinishProcessed(s, RunIds(r))
      PROVE  LiveIsUnsigned' /\ NoLiveRowsOnceProcessed'
  <2> DEFINE S == FromSource(Board(s), {"live", "authoritative"}) \ RunIds(r)
  <2>1. TombstoneItems(S)
    BY <1>3 DEF FinishProcessed
  <2>2. LiveIsUnsigned'
    BY <2>1, TombstoneKeepsRows DEF LiveIsUnsigned, StoreTypeOK
  <2>3. ASSUME NEW t \in Sessions, NEW i \in Items, status'[t] = "processed"
        PROVE  ~LiveOn(t, i)'
    <3>1. LiveOn(t, i)' => LiveOn(t, i) /\ i \notin S
      BY <2>1, TombstoneKeepsRows DEF StoreTypeOK
    <3>2. CASE t = s
      BY <3>1, <3>2 DEF LiveIsUnsigned, RunIds, FromSource, Board
    <3>3. CASE t # s
      BY <1>0, <1>3, <2>3, <3>1, <3>3 DEF FinishProcessed, StoreTypeOK
    <3> QED
      BY <3>2, <3>3
  <2> QED
    BY <1>0, <2>2, <2>3
<1>4. ASSUME NEW s \in Sessions, NEW i \in Items, NEW src, NEW r,
             InsertItem(s, i, src, r), src = "live" => r = Nobody /\ status[s] = "recording"
      PROVE  LiveIsUnsigned' /\ NoLiveRowsOnceProcessed'
  BY <1>0, <1>4 DEF InsertItem, LiveIsUnsigned, StoreTypeOK, ItemRow
<1>5. ASSUME NEW s \in Sessions, DeleteSession(s) \/ ClearAuthoritative(s)
                                 \/ \E i \in Items : RemoveItem(s, i)
      PROVE  LiveIsUnsigned' /\ NoLiveRowsOnceProcessed'
  BY <1>2, <1>5 DEF DeleteSession, ClearAuthoritative, RemoveItem, StoreTypeOK
<1>6. ASSUME NEW s \in Sessions, \/ StartSession(s) \/ EndSession(s) \/ FinishFailed(s)
                                 \/ \E n \in 1..MaxChunks - transcript[s] : AppendTranscript(s, n)
                                 \/ \E r \in Runs : AddArtifact(s, r)
                                 \/ \E p \in Photos, i \in Items \cup {Nobody} : AddPhoto(s, p, i)
      PROVE  LiveIsUnsigned' /\ NoLiveRowsOnceProcessed'
  BY <1>1, <1>6
  DEF StartSession, EndSession, FinishFailed, AppendTranscript, AddArtifact, AddPhoto,
      StoreTypeOK
<1>7. CASE SweepZombies \/ (\E p \in Photos : RemovePhoto(p)) \/ UNCHANGED storeVars
  BY <1>1, <1>7 DEF SweepZombies, RemovePhoto, storeVars
<1>8. ASSUME NEW s \in Sessions, NEW i \in Items,
             \/ AddLiveItem(s, i) \/ AddManualItem(s, i)
             \/ \E r \in Runs : AddAuthoritativeItem(s, i, r)
      PROVE  LiveIsUnsigned' /\ NoLiveRowsOnceProcessed'
  BY <1>4, <1>8 DEF AddLiveItem, AddManualItem, AddAuthoritativeItem
<1> QED
  BY <1>3, <1>5, <1>6, <1>7, <1>8 DEF StoreNext

\* Plan 06a for any client: finish_session_processed leaves no live item behind,
\* and the status gate of add_item_if_status lets none in afterwards.
THEOREM NoLiveRows == StoreSpec => []NoLiveRowsOnceProcessed
<1>1. StoreInit => LiveIsUnsigned /\ NoLiveRowsOnceProcessed
  BY DEF StoreInit, LiveIsUnsigned, NoLiveRowsOnceProcessed
<1> QED
  BY <1>1, StoreIsTyped, SwapStep, PTL DEF StoreSpec

-----------------------------------------------------------------------------
(* Base *)

\* Something of the WalkSession object of s is still around in this process.
Live(s) == open[s] \/ pump[s] # "none" \/ fin[s] # "no" \/ can[s] # "no"

\* A row that was never inserted has nothing around it.
Unbegun(s) ==
    status[s] = "absent" =>
        /\ ~Live(s) /\ ~term[s] /\ guard[s] = "free"
        /\ transcript[s] = 0 /\ heard[s] = 0 /\ pending[s] = 0 /\ segs[s] = 0
        /\ ~stop[s] /\ ticks[s] = 0

\* No chunk is counted twice on its way to the transcript.
Bounded(s) == Live(s) => transcript[s] + segs[s] + pending[s] <= heard[s]

\* The pump has segments in hand exactly while it feeds them.
Fed(s) == pump[s] = "feeding" <=> segs[s] > 0

\* A call under way is a call on a session.
RunsPlaced ==
    \A r \in Runs : Active(r) => run[r].of \in Sessions /\ run[r].caller \in {"finish", "retry"}

Base ==
    /\ TypeOK
    /\ RunsPlaced
    /\ \A s \in Sessions : Unbegun(s) /\ Bounded(s) /\ Fed(s)

\* A swallowed append is an append, of less when a write fails, or nothing.
LEMMA AppendIsStoreStep ==
    ASSUME Base, NEW s \in Sessions, NEW n \in Nat, AppendIfRecording(s, n),
           transcript[s] + n <= MaxChunks
    PROVE  [StoreNext]_storeVars
<1>1. PICK k \in 0..n :
         transcript' = IF status[s] = "recording"
                       THEN [transcript EXCEPT ![s] = @ + k] ELSE transcript
  BY DEF AppendIfRecording
<1>2. CASE status[s] = "recording" /\ k > 0
  <2>1. AppendTranscript(s, k)
    BY <1>1, <1>2 DEF AppendIfRecording, AppendTranscript
  <2>2. k \in 1..MaxChunks - transcript[s]
    BY <1>2, StoreAssumption DEF Base, TypeOK, StoreTypeOK
  <2> QED
    BY <2>1, <2>2 DEF StoreNext
<1>3. CASE ~(status[s] = "recording" /\ k > 0)
  <2>1. transcript' = transcript
    BY <1>1, <1>3 DEF Base, TypeOK, StoreTypeOK
  <2> QED
    BY <2>1 DEF AppendIfRecording, storeVars
<1> QED
  BY <1>2, <1>3

LEMMA StartRunIsStoreStep ==
    ASSUME NEW s \in Sessions, NEW r, NEW c, StartRun(r, s, c)
    PROVE  StoreNext
  BY DEF StartRun, StoreNext

\* Every step of the application is one call of the store, or none.
LEMMA StepsAreStoreSteps ==
    ASSUME Base, [Next]_vars
    PROVE  [StoreNext]_storeVars
<1> USE StoreAssumption, WalkAssumption
<1>1. ASSUME NEW s \in Sessions, Shell(s) PROVE [StoreNext]_storeVars
  <2>1. CASE BeginWalk(s) \/ BeginFails(s)
    BY <2>1 DEF BeginWalk, BeginFails, StoreNext
  <2>2. CASE AppendText(s)
    <3>1. transcript[s] + 1 <= MaxChunks
      BY <2>2 DEF AppendText, Base, Bounded, Live, TypeOK, StoreTypeOK
    <3> QED
      BY <2>2, <3>1, AppendIsStoreStep DEF AppendText
  <2>3. CASE \E i \in Items : EditAdds(s, i) \/ EditRemoves(s, i)
    BY <2>3 DEF EditAdds, EditRemoves, StoreNext
  <2>4. CASE PushAudio(s) \/ FinishCalls(s) \/ CancelCalls(s) \/ HostDrops(s)
    BY <2>4 DEF PushAudio, FinishCalls, CancelCalls, HostDrops
  <2> QED
    BY <1>1, <2>1, <2>2, <2>3, <2>4 DEF Shell
<1>2. ASSUME NEW s \in Sessions, Pump(s) PROVE [StoreNext]_storeVars
  <2>1. CASE PumpFeeds(s)
    <3>1. transcript[s] + 1 <= MaxChunks
      BY <2>1 DEF PumpFeeds, Base, Bounded, Fed, Live, TypeOK, StoreTypeOK
    <3> QED
      BY <2>1, <3>1, AppendIsStoreStep DEF PumpFeeds
  <2> QED
    BY <1>2, <2>1 DEF Pump, PumpPolls, PumpExits, PumpDecodes, PumpDecodeFails
<1>3. ASSUME NEW s \in Sessions, Tick(s) PROVE [StoreNext]_storeVars
  BY <1>3 DEF Tick, TickStarts, TickSkips, TickEnds, TickAdds, StoreNext
<1>4. ASSUME NEW s \in Sessions, Finish(s) PROVE [StoreNext]_storeVars
  <2>1. CASE FinishFlushes(s)
    <3>1. pending[s] \in Nat /\ transcript[s] + pending[s] <= MaxChunks
      BY <2>1 DEF FinishFlushes, Base, Bounded, Live, TypeOK, StoreTypeOK
    <3> QED
      BY <2>1, <3>1, AppendIsStoreStep DEF FinishFlushes
  <2>2. CASE FinishEnds(s)
    BY <2>2 DEF FinishEnds, StoreNext
  <2>3. CASE \E r \in Runs : FinishProcesses(s, r)
    BY <2>3, StartRunIsStoreStep DEF FinishProcesses
  <2> QED
    BY <1>4, <2>1, <2>2, <2>3
    DEF Finish, FinishLocks, FinishJoins, FinishFlushFails, FinishEndFails, FinishRefused,
        FinishReturns
<1>5. ASSUME NEW s \in Sessions, Cancel(s) PROVE [StoreNext]_storeVars
  BY <1>5 DEF Cancel, CancelLocks, CancelJoins, CancelDeletes, CancelDeleteFails, StoreNext
<1>6. ASSUME NEW r \in Runs, Process(r) PROVE [StoreNext]_storeVars
  <2>1. run[r].of \in Sessions
    BY <1>6 DEF Base, RunsPlaced, Active, Process, RunWritesReport, RunSucceeds,
                RunCommits, RunExitFaults, RunFails, RunAddsItem
  <2> QED
    BY <1>6, <2>1 DEF Process, RunWritesReport, RunSucceeds, RunCommits, RunExitFaults,
                      RunFails, RunAddsItem, StoreNext
<1>7. CASE AppOpen
  BY <1>7 DEF AppOpen, StoreNext
<1>8. CASE Retry
  <2>1. ASSUME NEW s \in Sessions, NEW r \in Runs, RetryNext(s, r) PROVE StoreNext
    BY <2>1, StartRunIsStoreStep DEF RetryNext, RetryTurn
  <2> QED
    BY <1>8, <2>1 DEF Retry, RetryLists, RetryListFails, RetryEnds, RetryRefused
<1>9. CASE Crash \/ \E s \in Sessions : DropRuns(s)
  BY <1>9 DEF Crash, DropRuns
<1>10. CASE UNCHANGED vars
  BY <1>10 DEF vars
<1> QED
  BY <1>1, <1>2, <1>3, <1>4, <1>5, <1>6, <1>7, <1>8, <1>9, <1>10 DEF Next

\* The shell keeps the types and the counts.
LEMMA BaseShell ==
    ASSUME Base, StoreTypeOK', NEW s \in Sessions, Shell(s)
    PROVE  Base'
<1> USE StoreAssumption, WalkAssumption
    DEF Base, TypeOK, RunsPlaced, Active, Unbegun, Bounded, Fed, Live, lifeVars, pumpVars, procVars,
        walkVars, storeVars, StoreTypeOK, FinPhases, CanPhases, GoTo
<1>1. CASE BeginWalk(s)
  BY <1>1 DEF BeginWalk, StartSession
<1>2. CASE BeginFails(s)
  BY <1>2 DEF BeginFails, StartSession
<1>3. CASE PushAudio(s)
  BY <1>3 DEF PushAudio
<1>4. CASE AppendText(s)
  BY <1>4 DEF AppendText, AppendIfRecording
<1>5. CASE FinishCalls(s)
  BY <1>5 DEF FinishCalls
<1>6. CASE CancelCalls(s)
  BY <1>6 DEF CancelCalls
<1>7. CASE HostDrops(s)
  BY <1>7 DEF HostDrops
<1>8. ASSUME NEW i \in Items, EditAdds(s, i) \/ EditRemoves(s, i) PROVE Base'
  BY <1>8 DEF EditAdds, EditRemoves, AddManualItem, InsertItem, RemoveItem
<1> QED
  BY <1>1, <1>2, <1>3, <1>4, <1>5, <1>6, <1>7, <1>8 DEF Shell

\* So does the pump: what it takes from pending it holds as segs, and gives to the
\* transcript one by one.
LEMMA BasePump ==
    ASSUME Base, StoreTypeOK', NEW s \in Sessions, Pump(s)
    PROVE  Base'
<1> USE StoreAssumption, WalkAssumption
    DEF Base, TypeOK, RunsPlaced, Active, Unbegun, Bounded, Fed, Live, lifeVars, pumpVars, procVars,
        walkVars, storeVars, StoreTypeOK, FinPhases, CanPhases, GoTo
<1>1. CASE PumpPolls(s)
  BY <1>1 DEF PumpPolls
<1>2. CASE PumpFeeds(s)
  BY <1>2 DEF PumpFeeds, AppendIfRecording
<1>3. CASE PumpExits(s)
  BY <1>3 DEF PumpExits
<1>4. ASSUME NEW k \in 0..MaxChunks, PumpDecodes(s, k) PROVE Base'
  BY <1>4 DEF PumpDecodes
<1>5. ASSUME NEW k \in 0..MaxChunks, PumpDecodeFails(s, k) PROVE Base'
  BY <1>5 DEF PumpDecodeFails
<1> QED
  BY <1>1, <1>2, <1>3, <1>4, <1>5 DEF Pump

\* So do the live-extraction tasks.
LEMMA BaseTick ==
    ASSUME Base, StoreTypeOK', NEW s \in Sessions, Tick(s)
    PROVE  Base'
<1> USE StoreAssumption, WalkAssumption
    DEF Base, TypeOK, RunsPlaced, Active, Unbegun, Bounded, Fed, Live, lifeVars, pumpVars, procVars,
        walkVars, storeVars, StoreTypeOK, FinPhases, CanPhases, GoTo
<1>1. CASE TickStarts(s)
  BY <1>1 DEF TickStarts
<1>2. CASE TickSkips(s)
  BY <1>2 DEF TickSkips
<1>3. CASE TickEnds(s)
  BY <1>3 DEF TickEnds
<1>4. ASSUME NEW i \in Items, TickAdds(s, i) PROVE Base'
  BY <1>4 DEF TickAdds, AddLiveItem, InsertItem
<1> QED
  BY <1>1, <1>2, <1>3, <1>4 DEF Tick

\* So does finish(), whose flush empties pending into the transcript.
LEMMA BaseFinish ==
    ASSUME Base, StoreTypeOK', NEW s \in Sessions, Finish(s)
    PROVE  Base'
<1> USE StoreAssumption, WalkAssumption
    DEF Base, TypeOK, RunsPlaced, Active, Unbegun, Bounded, Fed, Live, lifeVars, pumpVars, procVars,
        walkVars, storeVars, StoreTypeOK, FinPhases, CanPhases, GoTo
<1>1. CASE FinishLocks(s)
  BY <1>1 DEF FinishLocks
<1>2. CASE FinishJoins(s)
  BY <1>2 DEF FinishJoins
<1>3. CASE FinishFlushes(s)
  BY <1>3 DEF FinishFlushes, AppendIfRecording
<1>4. CASE FinishFlushFails(s)
  <2>1. /\ pending' = [pending EXCEPT ![s] = 0] /\ fin' = [fin EXCEPT ![s] = "ending"]
        /\ faulted' = [faulted EXCEPT ![s] = TRUE] /\ fin[s] # "no"
        /\ UNCHANGED <<storeVars, ticks, procVars, open, term, guard, can, pump, stop, wake,
                       heard, segs>>
    BY <1>4 DEF FinishFlushFails
  <2>2. TypeOK' /\ RunsPlaced'
    BY <2>1
  <2>3. ASSUME NEW t \in Sessions PROVE Unbegun(t)' /\ Bounded(t)' /\ Fed(t)'
    <3>1. pending'[t] \in {pending[t], 0} /\ (Live(t)' <=> Live(t))
      BY <2>1
    <3>2. status[s] # "absent"
      BY <2>1
    <3> QED
      BY <2>1, <3>1, <3>2
  <2> QED
    BY <2>2, <2>3
<1>5. CASE FinishEnds(s)
  BY <1>5 DEF FinishEnds, EndSession
<1>6. CASE FinishEndFails(s)
  BY <1>6 DEF FinishEndFails
<1>7. CASE FinishReturns(s)
  BY <1>7 DEF FinishReturns
<1>8. ASSUME NEW r \in Runs, FinishProcesses(s, r) PROVE Base'
  BY <1>8 DEF FinishProcesses, StartRun, ClearAuthoritative, RunRow, RunPhases
<1>9. CASE FinishRefused(s)
  BY <1>9 DEF FinishRefused
<1> QED
  BY <1>1, <1>2, <1>3, <1>4, <1>5, <1>6, <1>7, <1>8, <1>9 DEF Finish

\* So does cancel().
LEMMA BaseCancel ==
    ASSUME Base, StoreTypeOK', NEW s \in Sessions, Cancel(s)
    PROVE  Base'
<1> USE StoreAssumption, WalkAssumption
    DEF Base, TypeOK, RunsPlaced, Active, Unbegun, Bounded, Fed, Live, lifeVars, pumpVars, procVars,
        walkVars, storeVars, StoreTypeOK, FinPhases, CanPhases, GoTo
<1>1. CASE CancelLocks(s)
  BY <1>1 DEF CancelLocks
<1>2. CASE CancelJoins(s)
  BY <1>2 DEF CancelJoins
<1>3. CASE CancelDeletes(s)
  BY <1>3 DEF CancelDeletes, DeleteSession
<1>4. CASE CancelDeleteFails(s)
  BY <1>4 DEF CancelDeleteFails
<1> QED
  BY <1>1, <1>2, <1>3, <1>4 DEF Cancel

\* A call that ends is still a row, and not a call under way.
LEMMA RunGoesOver ==
    ASSUME Base, NEW r \in Runs, RunGoesTo(r, "over")
    PROVE  /\ run' \in [Runs -> RunRow]
           /\ RunsPlaced'
<1>1. run' = [run EXCEPT ![r].phase = "over"] /\ run \in [Runs -> RunRow]
  BY DEF RunGoesTo, Base, TypeOK
<1>2. run' \in [Runs -> RunRow]
  BY <1>1 DEF RunRow, RunPhases
<1>3. ASSUME NEW q \in Runs, Active(q)' PROVE run'[q] = run[q] /\ Active(q)
  <2>1. run'[r].phase = "over" /\ (q # r => run'[q] = run[q])
    BY <1>1 DEF RunRow
  <2> QED
    BY <1>3, <2>1 DEF Active
<1> QED
  BY <1>2, <1>3 DEF RunsPlaced, Base

\* No call outlives the process.
LEMMA CrashEndsRuns ==
    ASSUME Base, Crash
    PROVE  /\ run' \in [Runs -> RunRow]
           /\ \A r \in Runs : ~Active(r)'
<1>1. run' = [r \in Runs |-> IF Active(r) THEN [run[r] EXCEPT !.phase = "over"] ELSE run[r]]
  BY DEF Crash
<1>2. run \in [Runs -> RunRow]
  BY DEF Base, TypeOK
<1>3. ASSUME NEW r \in Runs PROVE run'[r] \in RunRow /\ ~Active(r)'
  <2>1. CASE Active(r)
    <3>1. run'[r] = [run[r] EXCEPT !.phase = "over"] /\ run[r] \in RunRow
      BY <1>1, <1>2, <2>1
    <3>2. run'[r] \in RunRow /\ run'[r].phase = "over"
      BY <3>1 DEF RunRow, RunPhases
    <3> QED
      BY <3>2 DEF Active
  <2>2. CASE ~Active(r)
    <3>1. run'[r] = run[r]
      BY <1>1, <2>2
    <3> QED
      BY <1>2, <2>2, <3>1 DEF Active
  <2> QED
    BY <2>1, <2>2
<1> QED
  BY <1>1, <1>3

\* So does a process() call.
LEMMA BaseProcess ==
    ASSUME Base, StoreTypeOK', NEW r \in Runs, Process(r)
    PROVE  Base'
<1> USE StoreAssumption, WalkAssumption
    DEF Base, TypeOK, RunsPlaced, Active, Unbegun, Bounded, Fed, Live, lifeVars, pumpVars, procVars,
        walkVars, storeVars, StoreTypeOK, FinPhases, CanPhases, GoTo
<1>1. CASE RunWritesReport(r)
  BY <1>1 DEF RunWritesReport, AddArtifact
<1>2. CASE RunSucceeds(r)
  BY <1>2 DEF RunSucceeds, RunGoesTo, RunRow, RunPhases, AddArtifact
<1>3. CASE RunCommits(r)
  <2>1. run' \in [Runs -> RunRow] /\ RunsPlaced'
    BY <1>3, RunGoesOver DEF RunCommits
  <2>2. \A s \in Sessions : status'[s] = "absent" => status[s] = "absent"
    BY <1>3 DEF RunCommits, FinishProcessed
  <2>3. UNCHANGED <<transcript, lifeVars, pumpVars, ticks, todo, proc, crashes>>
    BY <1>3 DEF RunCommits, FinishProcessed, RunGoesTo
  <2> QED
    BY <2>1, <2>2, <2>3
<1>4. CASE RunExitFaults(r)
  BY <1>4 DEF RunExitFaults, RunGoesTo, RunRow, RunPhases
<1>5. CASE RunFails(r)
  BY <1>5 DEF RunFails, RunGoesTo, RunRow, RunPhases, FinishFailed, Ended
<1>6. ASSUME NEW i \in Items, RunAddsItem(r, i) PROVE Base'
  BY <1>6 DEF RunAddsItem, AddAuthoritativeItem, InsertItem
<1> QED
  BY <1>1, <1>2, <1>3, <1>4, <1>5, <1>6 DEF Process

\* Every step of the application keeps them.
LEMMA BaseStep ==
    ASSUME Base, [Next]_vars
    PROVE  Base'
<1> USE StoreAssumption, WalkAssumption
    DEF Base, TypeOK, RunsPlaced, Active, Unbegun, Bounded, Fed, Live, lifeVars, pumpVars, procVars,
        walkVars, storeVars, StoreTypeOK, FinPhases, CanPhases, GoTo
<1>0. StoreTypeOK'
  BY StepsAreStoreSteps, StoreTypeStep DEF Base, TypeOK
<1>1. ASSUME NEW s \in Sessions, DropRuns(s) PROVE Base'
  BY <1>0, <1>1 DEF DropRuns, Unreferenced
<1>2. CASE AppOpen
  BY <1>0, <1>2 DEF AppOpen, SweepZombies
<1>3. CASE Retry
  <2>1. CASE RetryLists
    BY <1>0, <2>1 DEF RetryLists
  <2>2. ASSUME NEW s \in Sessions, NEW r \in Runs, RetryNext(s, r) PROVE Base'
    BY <1>0, <2>2 DEF RetryNext, RetryTurn, StartRun, ClearAuthoritative, RunRow, RunPhases
  <2>3. CASE RetryEnds
    BY <1>0, <2>3 DEF RetryEnds
  <2>4. ASSUME NEW s \in Sessions, RetryRefused(s) PROVE Base'
    BY <1>0, <2>4 DEF RetryRefused, RetryTurn
  <2>5. CASE RetryListFails
    BY <1>0, <2>5 DEF RetryListFails
  <2> QED
    BY <1>3, <2>1, <2>2, <2>3, <2>4, <2>5 DEF Retry
<1>4. CASE Crash
  <2>1. run' \in [Runs -> RunRow] /\ RunsPlaced'
    BY <1>4, CrashEndsRuns DEF RunsPlaced
  <2>2. \A s \in Sessions : Unbegun(s)' /\ Bounded(s)' /\ Fed(s)'
    BY <1>4 DEF Crash, Base, Unbegun, Bounded, Fed, Live, storeVars
  <2>3. TypeOK'
    BY <1>0, <1>4, <2>1 DEF Crash, Base, TypeOK, FinPhases, CanPhases
  <2> QED
    BY <2>1, <2>2, <2>3 DEF Base
<1>5. CASE UNCHANGED vars
  BY <1>0, <1>5 DEF vars
<1> QED
  BY <1>0, <1>1, <1>2, <1>3, <1>4, <1>5, BaseShell, BasePump, BaseTick, BaseFinish,
     BaseCancel, BaseProcess DEF Next

LEMMA BaseInit == Init => Base
  BY StoreAssumption, WalkAssumption
  DEF Init, StoreInit, Base, TypeOK, StoreTypeOK, RunsPlaced, Active, Unbegun, Bounded, Fed,
      Live, Statuses, ItemRow, PhotoRow, Sources, FinPhases, CanPhases, RunRow, RunPhases

LEMMA BaseInvariant == Spec => []Base
  BY BaseInit, BaseStep, PTL DEF Spec

\* Every variable of the walk stays in its type, the transcript within what was
\* heard and the pump's hands never below empty included.
THEOREM WalkIsTyped == Spec => []TypeOK
<1>1. Base => TypeOK
  BY DEF Base
<1> QED
  BY <1>1, BaseInvariant, PTL

\* The application is a client of the store: each of its steps is one store
\* transaction or leaves the rows alone.
THEOREM WalkUsesStore == Spec => ImplementsStore
<1>1. Init => StoreInit
  BY DEF Init
<1> QED
  BY <1>1, BaseInvariant, StepsAreStoreSteps, PTL DEF Spec, ImplementsStore, StoreSpec

\* So what the store promises to any client holds of every walk: photos, deleted
\* sessions and the live board are safe whatever crashes and races there are.
THEOREM WalkKeepsStorePromises ==
    Spec => [](PhotosNeverDangle /\ DeletedIsGone /\ NoLiveRowsOnceProcessed)
  BY WalkUsesStore, PhotosAreSafe, DeletedStaysGone, NoLiveRows, PTL DEF ImplementsStore

-----------------------------------------------------------------------------
(* Exits *)

FinHolds == {"joining", "flushing", "ending", "processing", "running"}
FinPastJoin == {"flushing", "ending", "processing", "running", "returned"}
FinBeforeEnd == {"no", "waiting", "joining", "flushing", "ending"}

\* How far finish() and cancel() of s have got tells who holds the guard, whether
\* the pump is gone and what the row says; the swap lets one of the two past "no".
ExitsOf(s) ==
    /\ guard[s] = "finish" <=> fin[s] \in FinHolds
    /\ guard[s] = "cancel" <=> can[s] \in {"joining", "deleting"}
    /\ fin[s] # "no" \/ can[s] # "no" => term[s]
    /\ fin[s] = "no" \/ can[s] = "no"
    /\ fin[s] \in FinPastJoin \/ can[s] \in {"deleting", "returned"}
          => pump[s] \in {"none", "exited"}
    /\ Live(s) /\ fin[s] \in FinBeforeEnd /\ can[s] # "returned" => status[s] = "recording"
    /\ fin[s] \in {"processing", "running"} => status[s] \in {"awaiting", "processed", "failed"}
    /\ fin[s] # "no" => status[s] # "deleted"
    /\ can[s] = "returned" => status[s] = "deleted" \/ (StoreFaults /\ status[s] = "recording")

\* The app-open sweep runs ahead of the first walk of a process.
SweepIsFirst == proc = "fresh" => \A s \in Sessions : ~Live(s)

Exits == SweepIsFirst /\ \A s \in Sessions : ExitsOf(s)

\* A new walk starts on neither exit; finish() and cancel() only go where the other
\* has not been.
LEMMA ExitsShell ==
    ASSUME Base, Exits, NEW s \in Sessions, Shell(s)
    PROVE  Exits'
<1> USE StoreAssumption, WalkAssumption
    DEF Base, TypeOK, StoreTypeOK, Unbegun, Exits, ExitsOf, SweepIsFirst, Live, FinHolds,
        FinPastJoin, FinBeforeEnd, FinPhases, CanPhases, GoTo, lifeVars, pumpVars, procVars,
        walkVars, storeVars
<1>1. CASE BeginWalk(s)
  BY <1>1 DEF BeginWalk, StartSession
<1>2. CASE BeginFails(s)
  BY <1>2 DEF BeginFails, StartSession
<1>3. CASE PushAudio(s)
  BY <1>3 DEF PushAudio
<1>4. CASE AppendText(s)
  BY <1>4 DEF AppendText, AppendIfRecording
<1>5. CASE FinishCalls(s)
  BY <1>5 DEF FinishCalls
<1>6. CASE CancelCalls(s)
  BY <1>6 DEF CancelCalls
<1>7. CASE HostDrops(s)
  BY <1>7 DEF HostDrops
<1>8. ASSUME NEW i \in Items, EditAdds(s, i) \/ EditRemoves(s, i) PROVE Exits'
  BY <1>8 DEF EditAdds, EditRemoves, AddManualItem, InsertItem, RemoveItem
<1> QED
  BY <1>1, <1>2, <1>3, <1>4, <1>5, <1>6, <1>7, <1>8 DEF Shell

\* A pump that is gone stays gone.
LEMMA ExitsPump ==
    ASSUME Base, Exits, NEW s \in Sessions, Pump(s)
    PROVE  Exits'
<1> USE StoreAssumption, WalkAssumption
    DEF Base, TypeOK, StoreTypeOK, Unbegun, Exits, ExitsOf, SweepIsFirst, Live, FinHolds,
        FinPastJoin, FinBeforeEnd, FinPhases, CanPhases, GoTo, lifeVars, pumpVars, procVars,
        walkVars, storeVars
<1>1. CASE PumpPolls(s)
  BY <1>1 DEF PumpPolls
<1>2. CASE PumpFeeds(s)
  BY <1>2 DEF PumpFeeds, AppendIfRecording
<1>3. CASE PumpExits(s)
  BY <1>3 DEF PumpExits
<1>4. ASSUME NEW k \in 0..MaxChunks, PumpDecodes(s, k) \/ PumpDecodeFails(s, k) PROVE Exits'
  BY <1>4 DEF PumpDecodes, PumpDecodeFails
<1> QED
  BY <1>1, <1>2, <1>3, <1>4 DEF Pump

\* A live pass takes the guard only when nobody has it.
LEMMA ExitsTick ==
    ASSUME Base, Exits, NEW s \in Sessions, Tick(s)
    PROVE  Exits'
<1> USE StoreAssumption, WalkAssumption
    DEF Base, TypeOK, StoreTypeOK, Unbegun, Exits, ExitsOf, SweepIsFirst, Live, FinHolds,
        FinPastJoin, FinBeforeEnd, FinPhases, CanPhases, GoTo, lifeVars, pumpVars, procVars,
        walkVars, storeVars
<1>1. CASE TickStarts(s)
  BY <1>1 DEF TickStarts
<1>2. CASE TickSkips(s)
  BY <1>2 DEF TickSkips
<1>3. CASE TickEnds(s)
  BY <1>3 DEF TickEnds
<1>4. ASSUME NEW i \in Items, TickAdds(s, i) PROVE Exits'
  BY <1>4 DEF TickAdds, AddLiveItem, InsertItem
<1> QED
  BY <1>1, <1>2, <1>3, <1>4 DEF Tick

\* finish() holds the guard from its lock to its return.
LEMMA ExitsFinish ==
    ASSUME Base, Exits, NEW s \in Sessions, Finish(s)
    PROVE  Exits'
<1> USE StoreAssumption, WalkAssumption
    DEF Base, TypeOK, StoreTypeOK, Unbegun, Exits, ExitsOf, SweepIsFirst, Live, FinHolds,
        FinPastJoin, FinBeforeEnd, FinPhases, CanPhases, GoTo, lifeVars, pumpVars, procVars,
        walkVars, storeVars
<1>1. CASE FinishLocks(s)
  BY <1>1 DEF FinishLocks
<1>2. CASE FinishJoins(s)
  BY <1>2 DEF FinishJoins
<1>3. CASE FinishFlushes(s)
  BY <1>3 DEF FinishFlushes, AppendIfRecording
<1>4. CASE FinishFlushFails(s)
  BY <1>4 DEF FinishFlushFails
<1>5. CASE FinishEnds(s)
  BY <1>5 DEF FinishEnds, EndSession
<1>6. CASE FinishEndFails(s)
  BY <1>6 DEF FinishEndFails
<1>7. CASE FinishReturns(s)
  BY <1>7 DEF FinishReturns
<1>8. ASSUME NEW r \in Runs, FinishProcesses(s, r) PROVE Exits'
  BY <1>8 DEF FinishProcesses, StartRun, ClearAuthoritative
<1>9. CASE FinishRefused(s)
  BY <1>9 DEF FinishRefused
<1> QED
  BY <1>1, <1>2, <1>3, <1>4, <1>5, <1>6, <1>7, <1>8, <1>9 DEF Finish

\* cancel() too, and the delete finds the row Recording.
LEMMA ExitsCancel ==
    ASSUME Base, Exits, NEW s \in Sessions, Cancel(s)
    PROVE  Exits'
<1> USE StoreAssumption, WalkAssumption
    DEF Base, TypeOK, StoreTypeOK, Unbegun, Exits, ExitsOf, SweepIsFirst, Live, FinHolds,
        FinPastJoin, FinBeforeEnd, FinPhases, CanPhases, GoTo, lifeVars, pumpVars, procVars,
        walkVars, storeVars
<1>1. CASE CancelLocks(s)
  BY <1>1 DEF CancelLocks
<1>2. CASE CancelJoins(s)
  BY <1>2 DEF CancelJoins
<1>3. CASE CancelDeletes(s)
  BY <1>3 DEF CancelDeletes, DeleteSession
<1>4. CASE CancelDeleteFails(s)
  BY <1>4 DEF CancelDeleteFails, Exists, Statuses
<1> QED
  BY <1>1, <1>2, <1>3, <1>4 DEF Cancel

\* A process() call moves a row only among the statuses an ended session has.
LEMMA ExitsProcess ==
    ASSUME Base, Exits, NEW r \in Runs, Process(r)
    PROVE  Exits'
<1> USE StoreAssumption, WalkAssumption
    DEF Base, TypeOK, StoreTypeOK, Unbegun, Exits, ExitsOf, SweepIsFirst, Live, FinHolds,
        FinPastJoin, FinBeforeEnd, FinPhases, CanPhases, GoTo, lifeVars, pumpVars, procVars,
        walkVars, storeVars
<1>1. CASE RunWritesReport(r)
  BY <1>1 DEF RunWritesReport, AddArtifact
<1>2. CASE RunSucceeds(r)
  BY <1>2 DEF RunSucceeds, RunGoesTo, AddArtifact
<1>3. CASE RunCommits(r)
  BY <1>3 DEF RunCommits, RunGoesTo, FinishProcessed, Ended
<1>4. CASE RunExitFaults(r)
  BY <1>4 DEF RunExitFaults, RunGoesTo
<1>5. CASE RunFails(r)
  BY <1>5 DEF RunFails, RunGoesTo, FinishFailed, Ended
<1>6. ASSUME NEW i \in Items, RunAddsItem(r, i) PROVE Exits'
  BY <1>6 DEF RunAddsItem, AddAuthoritativeItem, InsertItem
<1> QED
  BY <1>1, <1>2, <1>3, <1>4, <1>5, <1>6 DEF Process

LEMMA ExitsStep ==
    ASSUME Base, Exits, [Next]_vars
    PROVE  Exits'
<1> USE StoreAssumption, WalkAssumption
    DEF Base, TypeOK, StoreTypeOK, Unbegun, Exits, ExitsOf, SweepIsFirst, Live, FinHolds,
        FinPastJoin, FinBeforeEnd, FinPhases, CanPhases, GoTo, lifeVars, pumpVars, procVars,
        walkVars, storeVars
<1>1. ASSUME NEW s \in Sessions, DropRuns(s) PROVE Exits'
  BY <1>1 DEF DropRuns
<1>2. CASE AppOpen
  BY <1>2 DEF AppOpen, SweepZombies
<1>3. CASE Retry
  <2>1. CASE RetryLists \/ RetryListFails
    BY <2>1 DEF RetryLists, RetryListFails
  <2>2. ASSUME NEW s \in Sessions, NEW r \in Runs, RetryNext(s, r) PROVE Exits'
    BY <2>2 DEF RetryNext, RetryTurn, StartRun, ClearAuthoritative
  <2>3. CASE RetryEnds
    BY <2>3 DEF RetryEnds
  <2>4. ASSUME NEW s \in Sessions, RetryRefused(s) PROVE Exits'
    BY <2>4 DEF RetryRefused, RetryTurn
  <2> QED
    BY <1>3, <2>1, <2>2, <2>3, <2>4 DEF Retry
<1>4. CASE Crash
  BY <1>4 DEF Crash
<1>5. CASE UNCHANGED vars
  BY <1>5 DEF vars
<1> QED
  BY <1>1, <1>2, <1>3, <1>4, <1>5, ExitsShell, ExitsPump, ExitsTick, ExitsFinish,
     ExitsCancel, ExitsProcess DEF Next

LEMMA ExitsInvariant == Spec => [](Base /\ Exits)
<1>1. Init => Exits
  BY DEF Init, Exits, ExitsOf, SweepIsFirst, Live, FinHolds, FinPastJoin, FinBeforeEnd
<1> QED
  BY <1>1, BaseInvariant, ExitsStep, PTL DEF Spec

\* session.rs D3b and D6: nobody but finish() writes to a session it processes.
THEOREM ProcessingIsQuiet == Spec => []QuietProcessing
<1>1. Base /\ Exits => QuietProcessing
  BY DEF Base, Fed, TypeOK, Exits, ExitsOf, FinHolds, FinPastJoin, QuietProcessing
<1> QED
  BY <1>1, ExitsInvariant, PTL

\* finish() and cancel() resolve to one winner, whatever else is going on.
THEOREM OneExit == Spec => []OneExitWins
<1>1. Exits => OneExitWins
  BY DEF Exits, ExitsOf, OneExitWins
<1> QED
  BY <1>1, ExitsInvariant, PTL

-----------------------------------------------------------------------------
(* Capture *)

\* Only a push, a poll, a feed, a flush and a begin move a chunk.
LEMMA CaptureStep ==
    ASSUME Base, Exits, CaptureConserved, [Next]_vars
    PROVE  CaptureConserved'
<1> USE StoreAssumption, WalkAssumption
    DEF Base, TypeOK, StoreTypeOK, CaptureConserved, GoTo, lifeVars, pumpVars, procVars,
        walkVars, storeVars
<1>1. ASSUME UNCHANGED <<transcript, pumpVars>> PROVE CaptureConserved'
  BY <1>1
<1>2. ASSUME NEW s \in Sessions, Shell(s) PROVE CaptureConserved'
  <2>1. CASE BeginWalk(s)
    BY <2>1 DEF BeginWalk, StartSession, Unbegun
  <2>2. CASE PushAudio(s)
    BY <2>2 DEF PushAudio
  <2>3. CASE AppendText(s)
    BY <2>3 DEF AppendText, AppendIfRecording
  <2>4. CASE BeginFails(s) \/ FinishCalls(s) \/ CancelCalls(s) \/ HostDrops(s)
    BY <1>1, <2>4 DEF BeginFails, StartSession, FinishCalls, CancelCalls, HostDrops
  <2>5. CASE \E i \in Items : EditAdds(s, i) \/ EditRemoves(s, i)
    BY <1>1, <2>5 DEF EditAdds, EditRemoves, AddManualItem, InsertItem, RemoveItem
  <2> QED
    BY <1>2, <2>1, <2>2, <2>3, <2>4, <2>5 DEF Shell
<1>3. ASSUME NEW s \in Sessions, Pump(s) PROVE CaptureConserved'
  <2>1. CASE PumpPolls(s) \/ PumpExits(s)
    BY <2>1 DEF PumpPolls, PumpExits
  <2>2. CASE PumpFeeds(s)
    \* The thread is not joined yet, so the row is still Recording.
    <3>1. status[s] = "recording"
      BY <2>2 DEF PumpFeeds, Exits, ExitsOf, Live, FinPastJoin, FinBeforeEnd, FinPhases
    <3> QED
      BY <2>2, <3>1 DEF PumpFeeds, AppendIfRecording, Fed
  <2>3. ASSUME NEW k \in 0..MaxChunks, PumpDecodes(s, k) PROVE CaptureConserved'
    BY <2>3 DEF PumpDecodes, Fed
  <2>4. ASSUME NEW k \in 0..MaxChunks, PumpDecodeFails(s, k) PROVE CaptureConserved'
    BY <2>4 DEF PumpDecodeFails
  <2> QED
    BY <1>3, <2>1, <2>2, <2>3, <2>4 DEF Pump
<1>4. ASSUME NEW s \in Sessions, Finish(s) PROVE CaptureConserved'
  <2>1. CASE FinishFlushes(s)
    \* cancel() has not run, and finish() has not ended the session yet.
    <3>1. status[s] = "recording"
      BY <2>1 DEF FinishFlushes, Exits, ExitsOf, Live, FinBeforeEnd
    <3> QED
      BY <2>1, <3>1 DEF FinishFlushes, AppendIfRecording
  <2>2. CASE FinishFlushFails(s)
    BY <2>2 DEF FinishFlushFails
  <2>3. CASE FinishLocks(s) \/ FinishJoins(s) \/ FinishEnds(s) \/ FinishEndFails(s)
             \/ FinishRefused(s) \/ FinishReturns(s)
    BY <2>3 DEF FinishLocks, FinishJoins, FinishEnds, EndSession, FinishEndFails, FinishRefused,
                FinishReturns
  <2>4. CASE \E r \in Runs : FinishProcesses(s, r)
    BY <1>1, <2>4 DEF FinishProcesses, StartRun, ClearAuthoritative
  <2> QED
    BY <1>4, <2>1, <2>2, <2>3, <2>4 DEF Finish
<1>5. ASSUME NEW s \in Sessions, Tick(s) \/ Cancel(s) \/ DropRuns(s) PROVE CaptureConserved'
  BY <1>5 DEF Tick, TickStarts, TickSkips, TickEnds, TickAdds, AddLiveItem, InsertItem,
              Cancel, CancelLocks, CancelJoins, CancelDeletes, CancelDeleteFails, DeleteSession,
              DropRuns
<1>6. ASSUME NEW r \in Runs, Process(r) PROVE CaptureConserved'
  BY <1>1, <1>6
  DEF Process, RunWritesReport, RunSucceeds, RunCommits, RunExitFaults, RunFails, RunAddsItem,
      RunGoesTo, AddArtifact, FinishProcessed, FinishFailed, AddAuthoritativeItem, InsertItem
<1>7. CASE AppOpen \/ Retry
  BY <1>1, <1>7 DEF AppOpen, SweepZombies, Retry, RetryLists, RetryListFails,
                    RetryEnds, RetryRefused,
                    RetryNext, RetryTurn, StartRun,
                    ClearAuthoritative
<1>8. CASE Crash
  BY <1>8 DEF Crash
<1> QED
  BY <1>1, <1>2, <1>3, <1>4, <1>5, <1>6, <1>7, <1>8 DEF Next, vars

\* Capture is never lost: without a decode failure every pushed chunk is in the
\* transcript, in the pump's hands or in the SttStream, for any number of chunks.
THEOREM CaptureIsConserved == Spec => []CaptureConserved
<1>1. Init => CaptureConserved
  BY DEF Init, CaptureConserved
<1> QED
  BY <1>1, ExitsInvariant, CaptureStep, PTL DEF Spec

-----------------------------------------------------------------------------
(* Turns *)

FinishRuns(r) == Active(r) /\ run[r].caller = "finish"

\* finish() only processes what is awaiting, the retry only what is Failed and off
\* its list, and the two statuses keep them apart; each caller makes one call at a
\* time by itself.
Turns ==
    /\ \A r \in Runs : FinishRuns(r) =>
          fin[run[r].of] = "running" /\ status[run[r].of] = "awaiting"
    /\ \A r \in Runs : RetryRuns(r) =>
          status[run[r].of] = "failed" /\ run[r].of \notin todo /\ proc = "retrying"
    /\ \A q, r \in Runs : FinishRuns(q) /\ FinishRuns(r) /\ run[q].of = run[r].of => q = r
    /\ \A q, r \in Runs : RetryRuns(q) /\ RetryRuns(r) => q = r
    /\ \A s \in todo : status[s] = "failed"
    /\ \A s \in Sessions : fin[s] = "processing" => status[s] = "awaiting"

LEMMA TurnsMeanOne ==
    ASSUME Base, Turns
    PROVE  OneRunAtATime
  BY DEF Base, RunsPlaced, Turns, FinishRuns, RetryRuns, OneRunAtATime

\* Steps that neither start nor end a call and leave its session's status alone.
LEMMA TurnsKept ==
    ASSUME Base, Turns, UNCHANGED <<run, todo>>,
           proc = "retrying" => proc' = "retrying",
           \A s \in Sessions : status[s] \in {"awaiting", "failed"} => status'[s] = status[s],
           \A s \in Sessions : fin[s] = "running" => fin'[s] = "running",
           \A s \in Sessions : fin'[s] = "processing" => status'[s] = "awaiting"
    PROVE  Turns'
  BY DEF Turns, FinishRuns, RetryRuns, Active, Base, RunsPlaced, TypeOK

\* The end of a call frees its session from its caller, whatever the outcome.
LEMMA TurnsRunEnds ==
    ASSUME Base, Turns, NEW r \in Runs, Active(r), RunGoesTo(r, "over"),
           UNCHANGED fin,
           \A s \in Sessions : s # run[r].of => status'[s] = status[s]
    PROVE  Turns'
<1> USE DEF FinishRuns, RetryRuns, Active, Base, RunsPlaced, TypeOK
<1> DEFINE s == run[r].of
<1>1. s \in Sessions /\ (FinishRuns(r) \/ RetryRuns(r))
  OBVIOUS
<1>2. /\ run' = [run EXCEPT ![r].phase = "over"]
      /\ UNCHANGED <<todo, proc>>
  BY DEF RunGoesTo
<1>3. \A q \in Runs : Active(q)' => q # r /\ run'[q] = run[q] /\ Active(q)
  BY <1>2
<1>4. \A q \in Runs : Active(q)' => run[q].of # s
  BY <1>1, <1>3, TurnsMeanOne DEF OneRunAtATime
<1>5. fin[s] # "processing" /\ s \notin todo
  BY <1>1 DEF Turns
<1> HIDE DEF s
<1>6. \A q \in Runs : Active(q)' => status'[run[q].of] = status[run[q].of]
  BY <1>3, <1>4 DEF s
<1>7. /\ \A t \in todo : status'[t] = status[t]
      /\ \A t \in Sessions : fin[t] = "processing" => status'[t] = status[t]
  BY <1>5 DEF s
<1>8. \A q \in Runs : /\ FinishRuns(q)' => FinishRuns(q) /\ run'[q] = run[q]
                      /\ RetryRuns(q)' => RetryRuns(q) /\ run'[q] = run[q]
  BY <1>3
<1> QED
  BY <1>2, <1>3, <1>6, <1>7, <1>8 DEF Turns

\* A call starts on a session nobody has a call on.
LEMMA TurnsStep ==
    ASSUME Base, Exits, Turns, [Next]_vars
    PROVE  Turns'
<1> USE StoreAssumption, WalkAssumption
<1> USE DEF lifeVars, pumpVars, procVars, walkVars, storeVars, GoTo
<1>1. ASSUME UNCHANGED <<run, todo, proc, fin, status>> PROVE Turns'
  BY <1>1, TurnsKept DEF Turns
<1>2. ASSUME NEW s \in Sessions, Shell(s) PROVE Turns'
  <2>1. CASE BeginWalk(s) \/ BeginFails(s)
    BY <2>1, TurnsKept DEF Turns, BeginWalk, BeginFails, StartSession, Base, TypeOK, StoreTypeOK
  <2>2. CASE FinishCalls(s)
    BY <2>2, TurnsKept DEF Turns, FinishCalls, Base, TypeOK, Exits, ExitsOf
  <2> QED
    BY <1>1, <1>2, <2>1, <2>2
    DEF Shell, PushAudio, AppendText, AppendIfRecording, CancelCalls, HostDrops, EditAdds,
        EditRemoves, AddManualItem, InsertItem, RemoveItem
<1>3. ASSUME NEW s \in Sessions, Pump(s) \/ Tick(s) \/ DropRuns(s) PROVE Turns'
  BY <1>1, <1>3
  DEF Pump, PumpPolls, PumpFeeds, PumpExits, PumpDecodes, PumpDecodeFails, AppendIfRecording,
      Tick, TickStarts, TickSkips, TickEnds, TickAdds, AddLiveItem, InsertItem, DropRuns
<1>4. ASSUME NEW s \in Sessions, Finish(s) PROVE Turns'
  <2>1. CASE FinishLocks(s) \/ FinishJoins(s) \/ FinishFlushes(s) \/ FinishFlushFails(s)
             \/ FinishEndFails(s) \/ FinishRefused(s)
    BY <2>1, TurnsKept
    DEF Turns, FinishLocks, FinishJoins, FinishFlushes, AppendIfRecording, FinishFlushFails,
        FinishEndFails, FinishRefused, Base, TypeOK
  <2>2. CASE FinishEnds(s)
    BY <2>2, TurnsKept DEF Turns, FinishEnds, EndSession, Base, TypeOK, StoreTypeOK
  <2>3. CASE FinishReturns(s)
    BY <2>3 DEF Turns, FinishReturns, FinishRuns, RetryRuns, Active, Base, RunsPlaced, TypeOK
  <2>4. ASSUME NEW r \in Runs, FinishProcesses(s, r) PROVE Turns'
    <3>1. /\ status[s] = "awaiting" /\ fin[s] = "processing" /\ status' = status
          /\ fin' = [fin EXCEPT ![s] = "running"] /\ UNCHANGED <<todo, proc>>
      BY <2>4 DEF FinishProcesses, StartRun, ClearAuthoritative, Turns
    <3>2. ~Active(r) /\ \A q \in Runs : Active(q) => run[q].of # s
      BY <2>4, <3>1 DEF FinishProcesses, StartRun, Active, Turns, FinishRuns, RetryRuns, Base,
                        RunsPlaced
    <3>3. /\ run'[r].of = s /\ run'[r].caller = "finish"
          /\ \A q \in Runs : q # r => run'[q] = run[q]
      BY <2>4 DEF FinishProcesses, StartRun, Base, TypeOK
    <3> QED
      BY <3>1, <3>2, <3>3 DEF Turns, FinishRuns, RetryRuns, Active, Base, RunsPlaced, TypeOK
  <2> QED
    BY <1>4, <2>1, <2>2, <2>3, <2>4 DEF Finish
<1>5. ASSUME NEW s \in Sessions, Cancel(s) PROVE Turns'
  <2>1. CASE CancelDeletes(s)
    <3>1. status[s] = "recording" /\ fin[s] = "no"
      BY <2>1 DEF CancelDeletes, Exits, ExitsOf, Live, FinBeforeEnd
    <3> QED
      BY <2>1, <3>1, TurnsKept DEF Turns, CancelDeletes, DeleteSession, Base, TypeOK, StoreTypeOK
  <2> QED
    BY <1>1, <1>5, <2>1 DEF Cancel, CancelLocks, CancelJoins, CancelDeleteFails
<1>6. ASSUME NEW r \in Runs, Process(r) PROVE Turns'
  <2>1. CASE RunSucceeds(r)
    <3>1. UNCHANGED <<todo, proc, fin, status>>
      BY <2>1 DEF RunSucceeds, RunGoesTo, AddArtifact
    <3>2. \A q \in Runs : run'[q].of = run[q].of /\ run'[q].caller = run[q].caller
                          /\ (Active(q)' <=> Active(q))
      BY <2>1 DEF RunSucceeds, RunGoesTo, Active, Base, TypeOK, RunRow
    <3>3. \A q \in Runs : (FinishRuns(q)' <=> FinishRuns(q)) /\ (RetryRuns(q)' <=> RetryRuns(q))
      BY <3>2 DEF FinishRuns, RetryRuns
    <3> QED
      BY <3>1, <3>2, <3>3 DEF Turns
  <2>2. CASE RunCommits(r)
    BY <2>2, TurnsRunEnds DEF RunCommits, Active, FinishProcessed, Base, TypeOK, StoreTypeOK
  <2>3. CASE RunExitFaults(r)
    BY <2>3, TurnsRunEnds DEF RunExitFaults
  <2>4. CASE RunFails(r)
    BY <2>4, TurnsRunEnds DEF RunFails, Active, FinishFailed, Base, TypeOK, StoreTypeOK
  <2> QED
    BY <1>1, <1>6, <2>1, <2>2, <2>3, <2>4
    DEF Process, RunWritesReport, AddArtifact, RunAddsItem, AddAuthoritativeItem, InsertItem
<1>7. CASE AppOpen
  BY <1>7, TurnsKept
  DEF Turns, AppOpen, SweepZombies, Base, TypeOK, StoreTypeOK, Exits, SweepIsFirst, Live
<1>8. CASE Retry
  <2>1. CASE RetryLists
    BY <2>1 DEF RetryLists, Turns, FinishRuns, RetryRuns, Active
  <2>2. ASSUME NEW s \in Sessions, NEW r \in Runs, RetryNext(s, r) PROVE Turns'
    <3>1. /\ status[s] = "failed" /\ s \in todo /\ status' = status /\ proc = "retrying"
          /\ todo' = todo \ {s} /\ UNCHANGED <<proc, fin>>
      BY <2>2 DEF RetryNext, RetryTurn, StartRun, ClearAuthoritative, Turns
    <3>2. ~Active(r) /\ \A q \in Runs : ~RetryRuns(q)
      BY <2>2 DEF RetryNext, RetryTurn, StartRun, Active
    <3>3. /\ run'[r].of = s /\ run'[r].caller = "retry"
          /\ \A q \in Runs : q # r => run'[q] = run[q]
      BY <2>2 DEF RetryNext, RetryTurn, StartRun, Base, TypeOK
    <3>4. \A q \in Runs : RetryRuns(q)' => q = r
      BY <3>2, <3>3 DEF RetryRuns, Active
    <3>5. \A q \in Runs : FinishRuns(q)' => FinishRuns(q) /\ run'[q] = run[q]
      BY <3>3 DEF FinishRuns, Active
    <3>6. \A q \in Runs : RetryRuns(q)' => run'[q].of = s
      BY <3>3, <3>4
    <3>7. \A q \in Runs : FinishRuns(q)' =>
             fin'[run'[q].of] = "running" /\ status'[run'[q].of] = "awaiting"
      BY <3>1, <3>5 DEF Turns
    <3>8. \A q \in Runs : RetryRuns(q)' =>
             status'[run'[q].of] = "failed" /\ run'[q].of \notin todo' /\ proc' = "retrying"
      BY <3>1, <3>6
    <3>9. \A p, q \in Runs :
             FinishRuns(p)' /\ FinishRuns(q)' /\ run'[p].of = run'[q].of => p = q
      BY <3>5 DEF Turns
    <3>10. \A p, q \in Runs : RetryRuns(p)' /\ RetryRuns(q)' => p = q
      BY <3>4
    <3>11. /\ \A t \in todo' : status'[t] = "failed"
           /\ \A t \in Sessions : fin'[t] = "processing" => status'[t] = "awaiting"
      BY <3>1 DEF Turns
    <3> QED
      BY <3>7, <3>8, <3>9, <3>10, <3>11 DEF Turns
  <2>3. CASE RetryEnds
    BY <2>3 DEF RetryEnds, Turns, FinishRuns, RetryRuns, Active
  <2>4. ASSUME NEW s \in Sessions, RetryRefused(s) PROVE Turns'
    BY <2>4 DEF RetryRefused, RetryTurn, Turns, FinishRuns, RetryRuns, Active
  <2>5. CASE RetryListFails
    <3>1. ~\E r \in Runs : RetryRuns(r)
      BY <2>5 DEF RetryListFails, Turns
    <3> QED
      BY <2>5, <3>1 DEF RetryListFails, Turns, FinishRuns, RetryRuns, Active
  <2> QED
    BY <1>8, <2>1, <2>2, <2>3, <2>4, <2>5 DEF Retry
<1>9. CASE Crash
  <2>1. \A r \in Runs : ~Active(r)'
    BY <1>9, CrashEndsRuns
  <2>2. todo' = {} /\ \A s \in Sessions : fin'[s] = "no"
    BY <1>9 DEF Crash
  <2> QED
    BY <2>1, <2>2 DEF Turns, FinishRuns, RetryRuns
<1> QED
  BY <1>1, <1>2, <1>3, <1>4, <1>5, <1>6, <1>7, <1>8, <1>9 DEF Next, vars

\* pipeline/mod.rs process(): no session is ever processed by two calls at a time,
\* finish() and the retry task of any number of walks included.
THEOREM OneRun == Spec => []OneRunAtATime
<1>1. Init => Turns
  BY DEF Init, Turns, FinishRuns, RetryRuns, Active
<1>2. Base /\ Turns => OneRunAtATime
  BY TurnsMeanOne
<1> QED
  BY <1>1, <1>2, ExitsInvariant, TurnsStep, PTL DEF Spec
=============================================================================
