---------------------------- MODULE SessionStore ----------------------------
(***************************************************************************)
(* The durable half of a walk: the session, item, photo and artifact rows  *)
(* of murmur-core's SQLite store (crates/murmur-core/src/store/).          *)
(*                                                                         *)
(* Every operator below with a primed variable is ONE call of the store    *)
(* API, that is one transaction run while the caller holds the store       *)
(* mutex.  An operation whose code would return Err is not enabled: the    *)
(* caller decides what the error means for it.  Rows are never erased, a   *)
(* delete writes a tombstone (dead).                                       *)
(*                                                                         *)
(* StoreSpec is the store driven by any client whatsoever; WalkSession     *)
(* drives it the way the application does.                                 *)
(***************************************************************************)
EXTENDS Naturals, FiniteSets

CONSTANTS
    Sessions,   \* ids of the sessions that may ever be started
    Items,      \* ids of the item rows that may ever be inserted
    Photos,     \* ids of the photo rows that may ever be inserted
    Runs,       \* identities of SessionProcessor::process calls
    Nobody,     \* the NULL of a foreign key
    MaxChunks   \* bound on the transcript, in appended chunks

ASSUME StoreAssumption ==
    /\ Nobody \notin Sessions \cup Items \cup Runs
    /\ MaxChunks \in Nat

VARIABLES
    status,     \* sessions.status, with "absent" before the insert and
                \* "deleted" once deleted_at is set
    transcript, \* how many chunks sessions.transcript holds
    item,       \* the items table
    photo,      \* the photos table
    artifact    \* per session, the runs with a live artifact row on it

storeVars == <<status, transcript, item, photo, artifact>>

-----------------------------------------------------------------------------
(* Rows *)

Statuses ==
    {"absent", "recording", "awaiting", "processed", "failed", "deleted"}

\* ItemSource
Sources == {"live", "authoritative", "manual"}

\* of = Nobody: the id is not in use.  by: the process() run whose created_ids
\* sink holds the id, Nobody for a live or a manual item.
ItemRow == [of : Sessions \cup {Nobody}, source : Sources,
            by : Runs \cup {Nobody}, dead : BOOLEAN]

\* on = Nobody: item_id IS NULL, the photo belongs to the session as a whole.
PhotoRow == [of : Sessions \cup {Nobody}, on : Items \cup {Nobody},
             dead : BOOLEAN]

StoreTypeOK ==
    /\ status \in [Sessions -> Statuses]
    /\ transcript \in [Sessions -> 0..MaxChunks]
    /\ item \in [Items -> ItemRow]
    /\ photo \in [Photos -> PhotoRow]
    /\ artifact \in [Sessions -> SUBSET Runs]

StoreInit ==
    /\ status = [s \in Sessions |-> "absent"]
    /\ transcript = [s \in Sessions |-> 0]
    /\ item = [i \in Items |->
                 [of |-> Nobody, source |-> "live", by |-> Nobody, dead |-> FALSE]]
    /\ photo = [p \in Photos |->
                  [of |-> Nobody, on |-> Nobody, dead |-> FALSE]]
    /\ artifact = [s \in Sessions |-> {}]

-----------------------------------------------------------------------------
(* Reads *)

\* get_session returns the row: it was inserted and is not tombstoned.
Exists(s) == status[s] \in Statuses \ {"absent", "deleted"}

\* transition_ended's allowlist, and process()'s own entry check.
Ended(s) == status[s] \in {"awaiting", "failed"}

\* get_item returns the row.
OnABoard(i) == item[i].of # Nobody /\ ~item[i].dead

\* list_items_for_session
Board(s) == {i \in Items : item[i].of = s /\ ~item[i].dead}

FromSource(S, srcs) == {i \in S : item[i].source \in srcs}

Attached(p) == photo[p].of # Nobody /\ ~photo[p].dead

-----------------------------------------------------------------------------
(* Writes to one table, the parts the transactions are made of *)

TombstoneItems(S) ==
    item' = [i \in Items |->
               IF i \in S THEN [item[i] EXCEPT !.dead = TRUE] ELSE item[i]]

\* The plausible slip: the sweep's transaction without the demotion.
ForgetPhotosOf(s) == photo' = photo

\* A demotion that leaves the id of the session where the item's was.
DemotePhotosToSession(s) ==
    photo' = [p \in Photos |->
                IF /\ photo[p].of = s /\ ~photo[p].dead
                   /\ photo[p].on \in {i \in Items : item'[i].of = s /\ item'[i].dead}
                THEN [photo[p] EXCEPT !.on = s]
                ELSE photo[p]]

\* demote_photos_of_tombstoned_items, after the item sweep of the same
\* transaction: live photos of s on a tombstoned item of s go session-level.
DemotePhotosOf(s) ==
    photo' = [p \in Photos |->
                IF /\ photo[p].of = s /\ ~photo[p].dead
                   /\ photo[p].on \in {i \in Items : item'[i].of = s /\ item'[i].dead}
                THEN [photo[p] EXCEPT !.on = Nobody]
                ELSE photo[p]]

-----------------------------------------------------------------------------
(* Operations on sessions *)

\* start_session_with_template
StartSession(s) ==
    /\ status[s] = "absent"
    /\ status' = [status EXCEPT ![s] = "recording"]
    /\ UNCHANGED <<transcript, item, photo, artifact>>

\* append_transcript, n times in a row
AppendTranscript(s, n) ==
    /\ status[s] = "recording"
    /\ transcript' = [transcript EXCEPT ![s] = @ + n]
    /\ UNCHANGED <<status, item, photo, artifact>>

\* end_and_record_session
EndSession(s) ==
    /\ status[s] = "recording"
    /\ status' = [status EXCEPT ![s] = "awaiting"]
    /\ UNCHANGED <<transcript, item, photo, artifact>>

\* sweep_zombie_sessions: one UPDATE over every Recording row
SweepZombies ==
    /\ status' = [s \in Sessions |->
                    IF status[s] = "recording" THEN "failed" ELSE status[s]]
    /\ UNCHANGED <<transcript, item, photo, artifact>>

\* A cascade that stops at the items and the artifacts.
DeleteKeepingPhotos(s) ==
    /\ Exists(s)
    /\ status' = [status EXCEPT ![s] = "deleted"]
    /\ TombstoneItems(Board(s))
    /\ artifact' = [artifact EXCEPT ![s] = {}]
    /\ UNCHANGED <<transcript, photo>>

\* delete_session: the tombstone cascades to items, artifacts and photos
DeleteSession(s) ==
    /\ Exists(s)
    /\ status' = [status EXCEPT ![s] = "deleted"]
    /\ TombstoneItems(Board(s))
    /\ photo' = [p \in Photos |->
                   IF photo[p].of = s THEN [photo[p] EXCEPT !.dead = TRUE]
                                      ELSE photo[p]]
    /\ artifact' = [artifact EXCEPT ![s] = {}]
    /\ UNCHANGED transcript

\* A phase 0 that forgets the items of the failed attempt.
ClearArtifactsOnly(s) ==
    /\ Exists(s)
    /\ artifact' = [artifact EXCEPT ![s] = {}]
    /\ UNCHANGED <<status, transcript, item, photo>>

\* A phase 0 that clears the live board along with them.
ClearWholeBoard(s) ==
    /\ Exists(s)
    /\ TombstoneItems(Board(s))
    /\ DemotePhotosOf(s)
    /\ artifact' = [artifact EXCEPT ![s] = {}]
    /\ UNCHANGED <<status, transcript>>

\* clear_authoritative_outputs: phase 0 of a processing attempt
ClearAuthoritative(s) ==
    /\ Exists(s)
    /\ TombstoneItems(FromSource(Board(s), {"authoritative"}))
    /\ DemotePhotosOf(s)
    /\ artifact' = [artifact EXCEPT ![s] = {}]
    /\ UNCHANGED <<status, transcript>>

\* finish_session_processed: swap the board for what this run created, demote
\* the photos of what was swept, mark Processed.
FinishProcessed(s, ids) ==
    /\ Ended(s)
    /\ TombstoneItems(FromSource(Board(s), {"live", "authoritative"}) \ ids)
    /\ DemotePhotosOf(s)
    /\ status' = [status EXCEPT ![s] = "processed"]
    /\ UNCHANGED <<transcript, artifact>>

\* finish_session_failed
FinishFailed(s) ==
    /\ Ended(s)
    /\ status' = [status EXCEPT ![s] = "failed"]
    /\ UNCHANGED <<transcript, item, photo, artifact>>

-----------------------------------------------------------------------------
(* Operations on items, artifacts and photos *)

InsertItem(s, i, source, run) ==
    /\ item[i].of = Nobody
    /\ item' = [item EXCEPT ![i] =
                  [of |-> s, source |-> source, by |-> run, dead |-> FALSE]]
    /\ UNCHANGED <<status, transcript, photo, artifact>>

\* A live tool that writes without reading the status back.
AddLiveItemUngated(s, i) == Exists(s) /\ InsertItem(s, i, "live", Nobody)

\* add_item_if_status(Recording): AddItemTool::live
AddLiveItem(s, i) == status[s] = "recording" /\ InsertItem(s, i, "live", Nobody)

\* add_item_with_source: AddItemTool::authoritative, ungated
AddAuthoritativeItem(s, i, run) ==
    Exists(s) /\ InsertItem(s, i, "authoritative", run)

\* MurmurEngine::add_item, behind require_processed
AddManualItem(s, i) == status[s] = "processed" /\ InsertItem(s, i, "manual", Nobody)

\* A removal that takes the photos of the item with it.
RemoveItemWithPhotos(s, i) ==
    /\ status[s] = "processed"
    /\ OnABoard(i)
    /\ TombstoneItems({i})
    /\ photo' = [p \in Photos |->
                   IF photo[p].on = i THEN [photo[p] EXCEPT !.dead = TRUE] ELSE photo[p]]
    /\ UNCHANGED <<status, transcript, artifact>>

\* MurmurEngine::remove_item: the gate reads session s, the delete names item i
RemoveItem(s, i) ==
    /\ status[s] = "processed"
    /\ OnABoard(i)
    /\ TombstoneItems({i})
    /\ photo' = [p \in Photos |->
                   IF photo[p].on = i /\ ~photo[p].dead
                   THEN [photo[p] EXCEPT !.on = Nobody]
                   ELSE photo[p]]
    /\ UNCHANGED <<status, transcript, artifact>>

\* add_artifact
AddArtifact(s, run) ==
    /\ Exists(s)
    /\ artifact' = [artifact EXCEPT ![s] = @ \cup {run}]
    /\ UNCHANGED <<status, transcript, item, photo>>

\* add_photo: the item, when one is named, must be a live item of the session
AddPhoto(s, p, i) ==
    /\ Exists(s)
    /\ i # Nobody => OnABoard(i) /\ item[i].of = s
    /\ photo[p].of = Nobody
    /\ photo' = [photo EXCEPT ![p] = [of |-> s, on |-> i, dead |-> FALSE]]
    /\ UNCHANGED <<status, transcript, item, artifact>>

\* remove_photo
RemovePhoto(p) ==
    /\ Attached(p)
    /\ photo' = [photo EXCEPT ![p].dead = TRUE]
    /\ UNCHANGED <<status, transcript, item, artifact>>

-----------------------------------------------------------------------------
(* Any client at all *)

RunIds(r) == {i \in Items : item[i].by = r}

StoreNext ==
    \/ SweepZombies
    \/ \E s \in Sessions :
          \/ StartSession(s)
          \/ \E n \in 1..MaxChunks - transcript[s] : AppendTranscript(s, n)
          \/ EndSession(s)
          \/ DeleteSession(s)
          \/ ClearAuthoritative(s)
          \/ FinishFailed(s)
          \/ \E i \in Items : AddLiveItem(s, i) \/ AddManualItem(s, i) \/ RemoveItem(s, i)
          \/ \E r \in Runs :
                \/ FinishProcessed(s, RunIds(r))
                \/ AddArtifact(s, r)
                \/ \E i \in Items : AddAuthoritativeItem(s, i, r)
          \/ \E p \in Photos, i \in Items \cup {Nobody} : AddPhoto(s, p, i)
    \/ \E p \in Photos : RemovePhoto(p)

StoreSpec == StoreInit /\ [][StoreNext]_storeVars

-----------------------------------------------------------------------------
(* What the store promises to every client *)

\* Plan 11 D3: a live photo never references a tombstoned item, nor an item of
\* another session.  Every path that tombstones items has to demote or delete
\* their photos in the same transaction (clear, swap, remove, delete_session).
PhotosNeverDangle ==
    \A p \in Photos :
        Attached(p) /\ photo[p].on # Nobody
            => OnABoard(photo[p].on) /\ item[photo[p].on].of = photo[p].of

\* delete_session is one logical delete: nothing of a deleted session is live,
\* and no later call of any client brings a row of it back.
DeletedIsGone ==
    \A s \in Sessions :
        status[s] \in {"absent", "deleted"} =>
            /\ Board(s) = {}
            /\ artifact[s] = {}
            /\ \A p \in Photos : photo[p].of = s => photo[p].dead

\* Plan 06a: once a session is Processed none of the live board is left on it,
\* whatever a late live pass, a second run or an edit does afterwards.
NoLiveRowsOnceProcessed ==
    \A s \in Sessions :
        status[s] = "processed" => FromSource(Board(s), {"live"}) = {}

\* items.rs delete_item: "deleting a wrongly-extracted item must not destroy a
\* real photo".  A live photo goes only with its session or by its own removal,
\* never as a side effect of what happens to items.
PhotosOutliveItems ==
    [][\A p \in Photos :
          Attached(p) /\ ~Attached(p)' =>
              \/ status'[photo[p].of] = "deleted"
              \/ UNCHANGED <<status, transcript, item, artifact>>]_storeVars

=============================================================================
