---------------------------- MODULE WalkSession ----------------------------
(***************************************************************************)
(* A walk from START to its notes: the WalkSession object that murmur-ffi   *)
(* hands the shell (crates/ffi/src/session.rs), the threads and tasks that *)
(* run behind it, the SessionProcessor::process calls it and the app-open  *)
(* retry make (crates/murmur-core/src/pipeline/mod.rs), and the crash and  *)
(* relaunch of the process around them.                                    *)
(*                                                                         *)
(* Actors, per session unless said otherwise:                              *)
(*   the shell            BeginWalk, PushAudio, AppendText, FinishCalls,   *)
(*                        CancelCalls, HostDrops, the edits, AppOpen       *)
(*   the pump OS thread   Pump*                                            *)
(*   live-extraction      Tick*: one task per appended chunk, one at a     *)
(*   tasks                time behind the extractor mutex (guard)          *)
(*   finish() / cancel()  Finish*, Cancel*: they hold the guard throughout *)
(*   a process() call     Run*, one identity of Runs per call              *)
(*   the retry task       Retry*, one per process                          *)
(*                                                                         *)
(* One action is the code between two points where another actor can run:  *)
(* an await, a lock, or a return to the shell.                             *)
(***************************************************************************)
EXTENDS SessionStore

CONSTANTS
    TextOnly,       \* sessions begun without an SttStream (stt: None)
    FlushOnFinish,  \* EngineConfig.stt_flush_on_finish
    StoreFaults,    \* whether a SQLite call may fail
    MaxRetries,     \* MAX_RETRIES_PER_CALL
    MaxCrashes      \* bound on crashes

\* Session ids are UUIDv7: their order is the order of started_at.
ASSUME WalkAssumption ==
    /\ Sessions \subseteq Nat
    /\ TextOnly \subseteq Sessions
    /\ FlushOnFinish \in BOOLEAN
    /\ StoreFaults \in BOOLEAN
    /\ MaxRetries \in Nat
    /\ MaxCrashes \in Nat

VARIABLES
    open,       \* the shell holds the WalkSession
    term,       \* WalkSession.terminated
    guard,      \* who holds the extractor mutex
    fin,        \* where the finish() that won the terminal transition is
    can,        \* where the cancel() that won it is
    pump,       \* the pump thread
    stop, wake, \* PumpState
    heard,      \* how many chunks the shell has pushed or appended
    pending,    \* pushed, and not finalized by the SttStream yet
    segs,       \* finalized by a poll, in the pump's hands
    faulted,    \* an error nobody reads dropped words of this walk
    ticks,      \* spawned live-extraction tasks waiting for the guard
    run,        \* the process() calls
    todo,       \* what the retry task has still to attempt
    proc,       \* the OS process: how far app-open has got
    crashes

lifeVars == <<open, term, guard, fin, can>>
pumpVars == <<pump, stop, wake, heard, pending, segs, faulted>>
procVars == <<run, todo, proc, crashes>>
walkVars == <<lifeVars, pumpVars, ticks, procVars>>
vars == <<storeVars, walkVars>>

-----------------------------------------------------------------------------

FinPhases == {"no", "waiting", "joining", "flushing", "ending",
              "processing", "running", "returned"}

CanPhases == {"no", "waiting", "joining", "deleting", "returned"}

\* "empty": the short circuit for an empty transcript.  "exit": the LLM phases
\* succeeded and the store mutex is held until the outcome is written.
RunPhases == {"unused", "llm", "empty", "exit", "over"}

RunRow == [phase : RunPhases, of : Sessions \cup {Nobody},
           caller : {"none", "finish", "retry"}]

TypeOK ==
    /\ StoreTypeOK
    /\ open \in [Sessions -> BOOLEAN]
    /\ term \in [Sessions -> BOOLEAN]
    /\ guard \in [Sessions -> {"free", "tick", "finish", "cancel"}]
    /\ fin \in [Sessions -> FinPhases]
    /\ can \in [Sessions -> CanPhases]
    /\ pump \in [Sessions -> {"none", "parked", "decoding", "feeding", "exited"}]
    /\ stop \in [Sessions -> BOOLEAN]
    /\ wake \in [Sessions -> BOOLEAN]
    /\ heard \in [Sessions -> 0..MaxChunks]
    /\ pending \in [Sessions -> Nat]
    /\ segs \in [Sessions -> Nat]
    /\ faulted \in [Sessions -> BOOLEAN]
    /\ ticks \in [Sessions -> Nat]
    /\ run \in [Runs -> RunRow]
    /\ todo \in SUBSET Sessions
    /\ proc \in {"fresh", "swept", "retrying", "idle"}
    /\ crashes \in 0..MaxCrashes

Init ==
    /\ StoreInit
    /\ open = [s \in Sessions |-> FALSE]
    /\ term = [s \in Sessions |-> FALSE]
    /\ guard = [s \in Sessions |-> "free"]
    /\ fin = [s \in Sessions |-> "no"]
    /\ can = [s \in Sessions |-> "no"]
    /\ pump = [s \in Sessions |-> "none"]
    /\ stop = [s \in Sessions |-> FALSE]
    /\ wake = [s \in Sessions |-> FALSE]
    /\ heard = [s \in Sessions |-> 0]
    /\ pending = [s \in Sessions |-> 0]
    /\ segs = [s \in Sessions |-> 0]
    /\ faulted = [s \in Sessions |-> FALSE]
    /\ ticks = [s \in Sessions |-> 0]
    /\ run = [r \in Runs |-> [phase |-> "unused", of |-> Nobody, caller |-> "none"]]
    /\ todo = {}
    /\ proc = "fresh"
    /\ crashes = 0

-----------------------------------------------------------------------------
(* Helpers *)

\* process() keeps the std Mutex of the store across its last transactions;
\* everything else takes and releases it within one action.
StoreFree == \A r \in Runs : run[r].phase # "exit"

Active(r) == run[r].phase \in {"llm", "empty", "exit"}

\* `let _ = store.append_transcript(..)`, n times: an append to a session that is
\* not recording is an error nobody reads, and so is a write that fails.
AppendIfRecording(s, n) ==
    /\ StoreFree
    /\ \E k \in 0..n :
          /\ k < n => StoreFaults
          /\ transcript' = IF status[s] = "recording"
                           THEN [transcript EXCEPT ![s] = @ + k] ELSE transcript
          /\ faulted' = [faulted EXCEPT ![s] = @ \/ k < n]
    /\ UNCHANGED <<status, item, photo, artifact>>

GoTo(pc, s, there) == pc' = [pc EXCEPT ![s] = there]

RunGoesTo(r, there) ==
    /\ run' = [run EXCEPT ![r].phase = there]
    /\ UNCHANGED <<todo, proc, crashes>>

-----------------------------------------------------------------------------
(* The shell opens, feeds and drops a walk *)

\* begin_walk: the row, then the object, then the pump thread.
BeginWalk(s) ==
    /\ proc # "fresh" /\ StoreFree
    /\ \A t \in Sessions : t < s => status[t] # "absent"
    /\ StartSession(s)
    /\ open' = [open EXCEPT ![s] = TRUE]
    /\ pump' = [pump EXCEPT ![s] = IF s \in TextOnly THEN "none" ELSE "parked"]
    /\ UNCHANGED <<term, guard, fin, can, stop, wake, heard, pending, segs, faulted>>
    /\ UNCHANGED <<ticks, procVars>>

\* begin_walk whose model load or memory lock fails after the row is written:
\* no object, and the row stays Recording until the next app open.
BeginFails(s) ==
    /\ proc # "fresh" /\ StoreFree
    /\ \A t \in Sessions : t < s => status[t] # "absent"
    /\ StartSession(s)
    /\ UNCHANGED walkVars

\* push_audio
PushAudio(s) ==
    /\ open[s] /\ s \notin TextOnly /\ heard[s] < MaxChunks
    /\ heard' = [heard EXCEPT ![s] = @ + 1]
    /\ pending' = [pending EXCEPT ![s] = @ + 1]
    /\ wake' = [wake EXCEPT ![s] = TRUE]
    /\ UNCHANGED <<pump, stop, segs, faulted>>
    /\ UNCHANGED <<storeVars, lifeVars, ticks, procVars>>

\* append_transcript called by the shell, the text-only path
AppendText(s) ==
    /\ open[s] /\ s \in TextOnly /\ heard[s] < MaxChunks
    /\ heard' = [heard EXCEPT ![s] = @ + 1]
    /\ AppendIfRecording(s, 1)
    /\ ticks' = [ticks EXCEPT ![s] = @ + 1]
    /\ UNCHANGED <<pump, stop, wake, pending, segs>>
    /\ UNCHANGED <<lifeVars, procVars>>

\* The shell lets go of its handle, whatever else still holds the object.
HostDrops(s) ==
    /\ open[s]
    /\ open' = [open EXCEPT ![s] = FALSE]
    /\ UNCHANGED <<term, guard, fin, can>>
    /\ UNCHANGED <<storeVars, pumpVars, ticks, procVars>>

\* No Arc is left: the pump holds one during a pass, every live-extraction task
\* holds one, and so do finish() and cancel() while they run.
Unreferenced(s) ==
    /\ ~open[s] /\ pump[s] = "parked"
    /\ ticks[s] = 0 /\ guard[s] = "free"
    /\ fin[s] \in {"no", "returned"} /\ can[s] \in {"no", "returned"}

\* A Drop that detaches the thread without telling it to stop.
DropDetaches(s) == Unreferenced(s) /\ UNCHANGED vars

\* Drop for WalkSession: signals the pump, never joins it
DropRuns(s) ==
    /\ Unreferenced(s) /\ ~stop[s]
    /\ stop' = [stop EXCEPT ![s] = TRUE]
    /\ UNCHANGED <<pump, wake, heard, pending, segs, faulted>>
    /\ UNCHANGED <<storeVars, lifeVars, ticks, procVars>>

-----------------------------------------------------------------------------
(* The pump thread: park, poll, feed.  pause_pump()/resume_pump() only delay  *)
(* PumpPolls and are left out here.                                          *)

PumpPolls(s) ==
    /\ pump[s] = "parked" /\ ~stop[s] /\ wake[s]
    /\ GoTo(pump, s, "decoding")
    /\ wake' = [wake EXCEPT ![s] = FALSE]
    /\ UNCHANGED <<stop, heard, pending, segs, faulted>>
    /\ UNCHANGED <<storeVars, lifeVars, ticks, procVars>>

\* poll() finalizes k of the chunks it was given; the rest wait in the chunker
\* or behind the finalizer's horizon.
PumpDecodes(s, k) ==
    /\ pump[s] = "decoding" /\ k \in 0..pending[s]
    /\ GoTo(pump, s, IF k = 0 THEN "parked" ELSE "feeding")
    /\ pending' = [pending EXCEPT ![s] = @ - k]
    /\ segs' = [segs EXCEPT ![s] = k]
    /\ UNCHANGED <<stop, wake, heard, faulted>>
    /\ UNCHANGED <<storeVars, lifeVars, ticks, procVars>>

\* poll() fails: the window it was decoding and what it had finalized before
\* are gone, the thread goes on.
PumpDecodeFails(s, k) ==
    /\ pump[s] = "decoding" /\ k \in 1..pending[s]
    /\ GoTo(pump, s, "parked")
    /\ pending' = [pending EXCEPT ![s] = @ - k]
    /\ faulted' = [faulted EXCEPT ![s] = TRUE]
    /\ UNCHANGED <<stop, wake, heard, segs>>
    /\ UNCHANGED <<storeVars, lifeVars, ticks, procVars>>

\* A feed loop that goes one past the last segment.
PumpFeedsPastEnd(s) ==
    /\ pump[s] = "feeding"
    /\ AppendIfRecording(s, 1)
    /\ segs' = [segs EXCEPT ![s] = @ - 1]
    /\ GoTo(pump, s, IF segs[s] = 0 THEN "parked" ELSE "feeding")
    /\ ticks' = [ticks EXCEPT ![s] = @ + 1]
    /\ UNCHANGED <<stop, wake, heard, pending>>
    /\ UNCHANGED <<lifeVars, procVars>>

\* feed_segments, one append_transcript with its live tick at a time
PumpFeeds(s) ==
    /\ pump[s] = "feeding"
    /\ AppendIfRecording(s, 1)
    /\ segs' = [segs EXCEPT ![s] = @ - 1]
    /\ GoTo(pump, s, IF segs[s] = 1 THEN "parked" ELSE "feeding")
    /\ ticks' = [ticks EXCEPT ![s] = @ + 1]
    /\ UNCHANGED <<stop, wake, heard, pending>>
    /\ UNCHANGED <<lifeVars, procVars>>

PumpExits(s) ==
    /\ pump[s] = "parked" /\ stop[s]
    /\ GoTo(pump, s, "exited")
    /\ UNCHANGED <<stop, wake, heard, pending, segs, faulted>>
    /\ UNCHANGED <<storeVars, lifeVars, ticks, procVars>>

-----------------------------------------------------------------------------
(* Live extraction: the task spawned by append_transcript.  Whether a pass    *)
(* is worth making (the cursor) and what the model answers are left open.     *)

\* maybe_extract passes its gates
TickStarts(s) ==
    /\ ticks[s] > 0 /\ guard[s] = "free" /\ StoreFree
    /\ status[s] = "recording" /\ transcript[s] > 0
    /\ ticks' = [ticks EXCEPT ![s] = @ - 1]
    /\ guard' = [guard EXCEPT ![s] = "tick"]
    /\ UNCHANGED <<open, term, fin, can>>
    /\ UNCHANGED <<storeVars, pumpVars, procVars>>

\* It returns Skipped, or Err on a session that is gone
TickSkips(s) ==
    /\ ticks[s] > 0 /\ guard[s] = "free" /\ StoreFree
    /\ ticks' = [ticks EXCEPT ![s] = @ - 1]
    /\ UNCHANGED <<storeVars, lifeVars, pumpVars, procVars>>

\* The agent calls add_item
TickAdds(s, i) ==
    /\ guard[s] = "tick" /\ StoreFree
    /\ AddLiveItem(s, i)
    /\ UNCHANGED walkVars

\* Extracted or Failed: what was written stays either way
TickEnds(s) ==
    /\ guard[s] = "tick"
    /\ guard' = [guard EXCEPT ![s] = "free"]
    /\ UNCHANGED <<open, term, fin, can>>
    /\ UNCHANGED <<storeVars, pumpVars, ticks, procVars>>

-----------------------------------------------------------------------------
(* finish() and cancel(): terminal swap, guard, pump, then their own tail *)

\* The caller that wins try_enter_terminal; a finish() that loses it returns
\* the notes already known and changes nothing.
FinishCalls(s) ==
    /\ open[s] /\ ~term[s]
    /\ term' = [term EXCEPT ![s] = TRUE]
    /\ GoTo(fin, s, "waiting")
    /\ UNCHANGED <<open, guard, can>>
    /\ UNCHANGED <<storeVars, pumpVars, ticks, procVars>>

\* `let _ = self.extractor.lock().await`: the lock is let go at once.
FinishLocksUnheld(s) ==
    /\ fin[s] = "waiting" /\ guard[s] = "free"
    /\ GoTo(fin, s, "joining")
    /\ stop' = [stop EXCEPT ![s] = TRUE]
    /\ UNCHANGED <<open, term, guard, can>>
    /\ UNCHANGED <<pump, wake, heard, pending, segs, faulted>>
    /\ UNCHANGED <<storeVars, ticks, procVars>>

\* A stop_pump that joins a thread nobody told to stop.
FinishLocksUnsignalled(s) ==
    /\ fin[s] = "waiting" /\ guard[s] = "free"
    /\ guard' = [guard EXCEPT ![s] = "finish"]
    /\ GoTo(fin, s, "joining")
    /\ UNCHANGED <<open, term, can>>
    /\ UNCHANGED <<storeVars, pumpVars, ticks, procVars>>

\* extractor.lock().await, then stop_pump sets stop
FinishLocks(s) ==
    /\ fin[s] = "waiting" /\ guard[s] = "free"
    /\ guard' = [guard EXCEPT ![s] = "finish"]
    /\ GoTo(fin, s, "joining")
    /\ stop' = [stop EXCEPT ![s] = TRUE]
    /\ UNCHANGED <<open, term, can>>
    /\ UNCHANGED <<pump, wake, heard, pending, segs, faulted>>
    /\ UNCHANGED <<storeVars, ticks, procVars>>

\* A stop_pump that signals the thread and goes on without joining it.
FinishSignalsOnly(s) ==
    /\ fin[s] = "joining"
    /\ GoTo(fin, s, IF FlushOnFinish THEN "flushing" ELSE "ending")
    /\ UNCHANGED <<open, term, guard, can>>
    /\ UNCHANGED <<storeVars, pumpVars, ticks, procVars>>

\* stop_pump's join of the thread, if there is one
FinishJoins(s) ==
    /\ fin[s] = "joining" /\ pump[s] \in {"none", "exited"}
    /\ GoTo(fin, s, IF FlushOnFinish THEN "flushing" ELSE "ending")
    /\ UNCHANGED <<open, term, guard, can>>
    /\ UNCHANGED <<storeVars, pumpVars, ticks, procVars>>

\* flush_stt: what the SttStream still holds goes straight to the transcript
FinishFlushes(s) ==
    /\ fin[s] = "flushing"
    /\ AppendIfRecording(s, pending[s])
    /\ pending' = [pending EXCEPT ![s] = 0]
    /\ GoTo(fin, s, "ending")
    /\ UNCHANGED <<open, term, guard, can>>
    /\ UNCHANGED <<pump, stop, wake, heard, segs>>
    /\ UNCHANGED <<ticks, procVars>>

\* flush_stt whose end() fails: logged, and the tail is lost
FinishFlushFails(s) ==
    /\ fin[s] = "flushing" /\ pending[s] > 0
    /\ pending' = [pending EXCEPT ![s] = 0]
    /\ faulted' = [faulted EXCEPT ![s] = TRUE]
    /\ GoTo(fin, s, "ending")
    /\ UNCHANGED <<open, term, guard, can>>
    /\ UNCHANGED <<pump, stop, wake, heard, segs>>
    /\ UNCHANGED <<storeVars, ticks, procVars>>

\* end_and_record_session
FinishEnds(s) ==
    /\ fin[s] = "ending" /\ StoreFree
    /\ EndSession(s)
    /\ GoTo(fin, s, "processing")
    /\ UNCHANGED <<open, term, guard, can>>
    /\ UNCHANGED <<pumpVars, ticks, procVars>>

\* end_and_record_session fails: degraded notes, the row stays Recording
FinishEndFails(s) ==
    /\ fin[s] = "ending" /\ StoreFree
    /\ StoreFaults \/ status[s] # "recording"
    /\ GoTo(fin, s, "returned")
    /\ guard' = [guard EXCEPT ![s] = "free"]
    /\ UNCHANGED <<open, term, can>>
    /\ UNCHANGED <<storeVars, pumpVars, ticks, procVars>>

\* Phase 0 of process(s), called by finish() or by the retry task: validate,
\* sweep what a failed attempt left, choose between the LLM and the short
\* circuit.
StartRun(r, s, caller) ==
    /\ run[r].phase = "unused" /\ StoreFree
    /\ Ended(s)
    /\ ClearAuthoritative(s)
    /\ run' = [run EXCEPT ![r] =
                 [phase |-> IF transcript[s] = 0 THEN "empty" ELSE "llm",
                  of |-> s, caller |-> caller]]

FinishProcesses(s, r) ==
    /\ fin[s] = "processing"
    /\ StartRun(r, s, "finish")
    /\ GoTo(fin, s, "running")
    /\ UNCHANGED <<open, term, guard, can>>
    /\ UNCHANGED <<pumpVars, ticks, todo, proc, crashes>>

\* process() fails in phase 0, before it changed anything
FinishRefused(s) ==
    /\ fin[s] = "processing" /\ StoreFree
    /\ StoreFaults \/ ~Ended(s)
    /\ GoTo(fin, s, "running")
    /\ UNCHANGED <<open, term, guard, can>>
    /\ UNCHANGED <<storeVars, pumpVars, ticks, procVars>>

\* process() returned to finish(), which returns its notes and the guard
FinishReturns(s) ==
    /\ fin[s] = "running"
    /\ \A r \in Runs : run[r].of = s /\ run[r].caller = "finish" => ~Active(r)
    /\ GoTo(fin, s, "returned")
    /\ guard' = [guard EXCEPT ![s] = "free"]
    /\ UNCHANGED <<open, term, can>>
    /\ UNCHANGED <<storeVars, pumpVars, ticks, procVars>>

\* A cancel() that only remembers its own earlier calls.
CancelCallsUnswapped(s) ==
    /\ open[s] /\ can[s] = "no"
    /\ term' = [term EXCEPT ![s] = TRUE]
    /\ GoTo(can, s, "waiting")
    /\ UNCHANGED <<open, guard, fin>>
    /\ UNCHANGED <<storeVars, pumpVars, ticks, procVars>>

CancelCalls(s) ==
    /\ open[s] /\ ~term[s]
    /\ term' = [term EXCEPT ![s] = TRUE]
    /\ GoTo(can, s, "waiting")
    /\ UNCHANGED <<open, guard, fin>>
    /\ UNCHANGED <<storeVars, pumpVars, ticks, procVars>>

CancelLocks(s) ==
    /\ can[s] = "waiting" /\ guard[s] = "free"
    /\ guard' = [guard EXCEPT ![s] = "cancel"]
    /\ GoTo(can, s, "joining")
    /\ stop' = [stop EXCEPT ![s] = TRUE]
    /\ UNCHANGED <<open, term, fin>>
    /\ UNCHANGED <<pump, wake, heard, pending, segs, faulted>>
    /\ UNCHANGED <<storeVars, ticks, procVars>>

CancelJoins(s) ==
    /\ can[s] = "joining" /\ pump[s] \in {"none", "exited"}
    /\ GoTo(can, s, "deleting")
    /\ UNCHANGED <<open, term, guard, fin>>
    /\ UNCHANGED <<storeVars, pumpVars, ticks, procVars>>

CancelDeletes(s) ==
    /\ can[s] = "deleting" /\ StoreFree
    /\ DeleteSession(s)
    /\ GoTo(can, s, "returned")
    /\ guard' = [guard EXCEPT ![s] = "free"]
    /\ UNCHANGED <<open, term, fin>>
    /\ UNCHANGED <<pumpVars, ticks, procVars>>

\* `let _ = store.delete_session(..)` fails: the walk stays as it is, Recording,
\* and nobody is told.
CancelDeleteFails(s) ==
    /\ can[s] = "deleting" /\ StoreFree
    /\ StoreFaults \/ ~Exists(s)
    /\ GoTo(can, s, "returned")
    /\ guard' = [guard EXCEPT ![s] = "free"]
    /\ UNCHANGED <<open, term, fin>>
    /\ UNCHANGED <<storeVars, pumpVars, ticks, procVars>>

-----------------------------------------------------------------------------
(* A process() call: the agent's tools, then the exit                         *)

RunAddsItem(r, i) ==
    /\ run[r].phase = "llm" /\ StoreFree
    /\ AddAuthoritativeItem(run[r].of, i, r)
    /\ UNCHANGED walkVars

\* write_report
RunWritesReport(r) ==
    /\ run[r].phase = "llm" /\ StoreFree
    /\ AddArtifact(run[r].of, r)
    /\ UNCHANGED walkVars

\* Both LLM phases succeeded.  The store is locked, and the spoken total and
\* the notes, where the model found any, are written ahead of the swap.
RunSucceeds(r) ==
    /\ run[r].phase = "llm" /\ StoreFree
    /\ \/ AddArtifact(run[r].of, r)
       \/ UNCHANGED storeVars
    /\ RunGoesTo(r, "exit")
    /\ UNCHANGED <<lifeVars, pumpVars, ticks>>

\* An exit that marks the session and leaves the swap for later.
RunCommitsUnswapped(r) ==
    /\ run[r].phase \in {"empty", "exit"}
    /\ run[r].phase = "empty" => StoreFree
    /\ Ended(run[r].of)
    /\ status' = [status EXCEPT ![run[r].of] = "processed"]
    /\ RunGoesTo(r, "over")
    /\ UNCHANGED <<transcript, item, photo, artifact, lifeVars, pumpVars, ticks>>

\* finish_session_processed, with the ids in this run's sink
RunCommits(r) ==
    /\ run[r].phase \in {"empty", "exit"}
    /\ run[r].phase = "empty" => StoreFree
    /\ FinishProcessed(run[r].of, RunIds(r))
    /\ RunGoesTo(r, "over")
    /\ UNCHANGED <<lifeVars, pumpVars, ticks>>

\* A write of either exit fails: the transaction rolls back, the caller gets an
\* error, and the status stays what it was.
RunExitFaults(r) ==
    /\ Active(r)
    /\ run[r].phase # "exit" => StoreFree
    /\ StoreFaults \/ ~Ended(run[r].of)
    /\ RunGoesTo(r, "over")
    /\ UNCHANGED <<storeVars, lifeVars, pumpVars, ticks>>

\* The LLM failed or could not be reached; finish_session_failed, best effort
RunFails(r) ==
    /\ run[r].phase = "llm" /\ StoreFree
    /\ FinishFailed(run[r].of)
    /\ RunGoesTo(r, "over")
    /\ UNCHANGED <<lifeVars, pumpVars, ticks>>

-----------------------------------------------------------------------------
(* App open, the retry task, the crash                                        *)

\* An app open that sweeps again when its view reappears.
AppOpenAgain ==
    /\ proc \in {"fresh", "idle"} /\ StoreFree
    /\ SweepZombies \/ (StoreFaults /\ UNCHANGED storeVars)
    /\ proc' = "swept"
    /\ UNCHANGED <<run, todo, crashes>>
    /\ UNCHANGED <<lifeVars, pumpVars, ticks>>

\* runAppOpenSweeps: the sweep is synchronous and ahead of any walk; the retry
\* is spawned and not awaited.  A sweep that fails is logged.
AppOpen ==
    /\ proc = "fresh" /\ StoreFree
    /\ SweepZombies \/ (StoreFaults /\ UNCHANGED storeVars)
    /\ proc' = "swept"
    /\ UNCHANGED <<run, todo, crashes>>
    /\ UNCHANGED <<lifeVars, pumpVars, ticks>>

\* A retry that also drains the awaiting_processing queue.
RetryListsEnded ==
    /\ proc = "swept" /\ StoreFree
    /\ todo' = {s \in Sessions : Ended(s)}
    /\ proc' = "retrying"
    /\ UNCHANGED <<run, crashes>>
    /\ UNCHANGED <<storeVars, lifeVars, pumpVars, ticks>>

\* A cap that is one short.
RetryListsShort ==
    LET failed == {s \in Sessions : status[s] = "failed"}
    IN  /\ proc = "swept" /\ StoreFree
        /\ todo' = {s \in failed : Cardinality({t \in failed : t < s}) + 1 < MaxRetries}
        /\ proc' = "retrying"
        /\ UNCHANGED <<run, crashes>>
        /\ UNCHANGED <<storeVars, lifeVars, pumpVars, ticks>>

\* retry_failed_sessions: the oldest MaxRetries of the Failed ones
RetryLists ==
    LET failed == {s \in Sessions : status[s] = "failed"}
    IN  /\ proc = "swept" /\ StoreFree
        /\ todo' = {s \in failed : Cardinality({t \in failed : t < s}) < MaxRetries}
        /\ proc' = "retrying"
        /\ UNCHANGED <<run, crashes>>
        /\ UNCHANGED <<storeVars, lifeVars, pumpVars, ticks>>

\* The list query fails, and with it this launch's retry.
RetryListFails ==
    /\ proc = "swept" /\ StoreFree /\ StoreFaults
    /\ proc' = "idle"
    /\ UNCHANGED <<run, todo, crashes>>
    /\ UNCHANGED <<storeVars, lifeVars, pumpVars, ticks>>

RetryRuns(r) == run[r].caller = "retry" /\ Active(r)

\* The loop gets to the next of its list
RetryTurn(s) ==
    /\ proc = "retrying" /\ ~\E q \in Runs : RetryRuns(q)
    /\ s \in todo /\ \A t \in todo : s <= t
    /\ todo' = todo \ {s}
    /\ UNCHANGED <<proc, crashes>>
    /\ UNCHANGED <<lifeVars, pumpVars, ticks>>

\* process(&summary.id).await
RetryNext(s, r) == RetryTurn(s) /\ StartRun(r, s, "retry")

\* It fails in phase 0; the loop records the error and goes on
RetryRefused(s) ==
    /\ RetryTurn(s) /\ StoreFree
    /\ StoreFaults \/ ~Ended(s)
    /\ UNCHANGED <<storeVars, run>>

RetryEnds ==
    /\ proc = "retrying" /\ todo = {} /\ ~\E q \in Runs : RetryRuns(q)
    /\ proc' = "idle"
    /\ UNCHANGED <<run, todo, crashes>>
    /\ UNCHANGED <<storeVars, lifeVars, pumpVars, ticks>>

\* The process dies and is launched again: only the store is left, and a
\* transaction is in it wholly or not at all.
Crash ==
    /\ crashes < MaxCrashes
    /\ crashes' = crashes + 1
    /\ open' = [s \in Sessions |-> FALSE]
    /\ term' = [s \in Sessions |-> FALSE]
    /\ guard' = [s \in Sessions |-> "free"]
    /\ fin' = [s \in Sessions |-> "no"]
    /\ can' = [s \in Sessions |-> "no"]
    /\ pump' = [s \in Sessions |-> "none"]
    /\ stop' = [s \in Sessions |-> FALSE]
    /\ wake' = [s \in Sessions |-> FALSE]
    /\ heard' = [s \in Sessions |-> 0]
    /\ pending' = [s \in Sessions |-> 0]
    /\ segs' = [s \in Sessions |-> 0]
    /\ faulted' = [s \in Sessions |-> FALSE]
    /\ ticks' = [s \in Sessions |-> 0]
    /\ run' = [r \in Runs |-> IF Active(r) THEN [run[r] EXCEPT !.phase = "over"]
                                           ELSE run[r]]
    /\ todo' = {}
    /\ proc' = "fresh"
    /\ UNCHANGED storeVars

-----------------------------------------------------------------------------
(* The review screen *)

EditAdds(s, i) == proc # "fresh" /\ StoreFree /\ AddManualItem(s, i) /\ UNCHANGED walkVars

\* The shell names a line of the session on its screen; remove_item itself does
\* not compare the two (RemoveItem in SessionStore).
EditRemoves(s, i) ==
    /\ proc # "fresh" /\ StoreFree
    /\ item[i].of = s
    /\ RemoveItem(s, i)
    /\ UNCHANGED walkVars

-----------------------------------------------------------------------------

Shell(s) ==
    \/ BeginWalk(s) \/ BeginFails(s) \/ PushAudio(s) \/ AppendText(s)
    \/ FinishCalls(s) \/ CancelCalls(s) \/ HostDrops(s)
    \/ \E i \in Items : EditAdds(s, i) \/ EditRemoves(s, i)

Pump(s) ==
    \/ PumpPolls(s) \/ PumpFeeds(s) \/ PumpExits(s)
    \/ \E k \in 0..MaxChunks : PumpDecodes(s, k) \/ PumpDecodeFails(s, k)

Tick(s) ==
    \/ TickStarts(s) \/ TickSkips(s) \/ TickEnds(s)
    \/ \E i \in Items : TickAdds(s, i)

Finish(s) ==
    \/ FinishLocks(s) \/ FinishJoins(s) \/ FinishFlushes(s) \/ FinishFlushFails(s)
    \/ FinishEnds(s) \/ FinishEndFails(s) \/ FinishReturns(s)
    \/ FinishRefused(s)
    \/ \E r \in Runs : FinishProcesses(s, r)

Cancel(s) ==
    CancelLocks(s) \/ CancelJoins(s) \/ CancelDeletes(s) \/ CancelDeleteFails(s)

Process(r) ==
    \/ RunWritesReport(r) \/ RunSucceeds(r) \/ RunCommits(r) \/ RunExitFaults(r)
    \/ RunFails(r)
    \/ \E i \in Items : RunAddsItem(r, i)

Retry ==
    \/ RetryLists \/ RetryListFails \/ RetryEnds
    \/ \E s \in Sessions : RetryRefused(s) \/ \E r \in Runs : RetryNext(s, r)

Next ==
    \/ \E s \in Sessions :
          Shell(s) \/ Pump(s) \/ Tick(s) \/ Finish(s) \/ Cancel(s) \/ DropRuns(s)
    \/ \E r \in Runs : Process(r)
    \/ AppOpen \/ Retry \/ Crash

Spec == Init /\ [][Next]_vars

\* Threads and tasks are scheduled, a decode and an LLM call end (the provider
\* has a request timeout), and an app that is launched opens.  Nothing obliges
\* the operator to do anything.
Fairness ==
    /\ \A s \in Sessions :
          /\ WF_vars(Pump(s)) /\ WF_vars(Tick(s)) /\ WF_vars(DropRuns(s))
          /\ WF_vars(Finish(s)) /\ WF_vars(Cancel(s))
    /\ \A r \in Runs : WF_vars(Process(r))
    /\ WF_vars(AppOpen) /\ WF_vars(Retry)

FairSpec == Spec /\ Fairness

-----------------------------------------------------------------------------
(* Properties *)

\* session.rs D3b and D6: while end-of-session processing runs, finish() is the
\* only one left that can write to the session.  The pump thread is gone and
\* has nothing in hand, no live pass can start, and nobody took the session out
\* of the states process() works from, whichever way finish(), cancel(), a
\* late append, a retry and an app open interleave.
QuietProcessing ==
    \A s \in Sessions :
        fin[s] \in {"processing", "running"} =>
            /\ pump[s] \in {"none", "exited"} /\ segs[s] = 0
            /\ guard[s] = "finish"
            /\ status[s] \in {"awaiting", "processed", "failed"}

\* finish() and cancel() resolve to one winner: a walk whose cancel() won is not
\* processed by anybody in this launch, and is gone unless the store failed; a
\* walk whose finish() won is never tombstoned.
OneExitWins ==
    \A s \in Sessions :
        /\ can[s] = "returned" =>
              status[s] = "deleted" \/ (StoreFaults /\ status[s] = "recording")
        /\ fin[s] # "no" => can[s] = "no" /\ status[s] # "deleted"

\* process() mutates a session without holding a lock across its LLM calls: two
\* calls on one session at a time would sweep each other's items.
OneRunAtATime ==
    \A q, r \in Runs :
        Active(q) /\ Active(r) /\ run[q].of = run[r].of => q = r

\* Capture is never lost: until a decode or a write fails, every chunk pushed to a walk is
\* in its transcript, in the pump's hands or still in the SttStream, through
\* the hand-over from the pump to the flush of finish() included.
CaptureConserved ==
    \A s \in Sessions \ TextOnly :
        pump[s] # "none" /\ ~faulted[s] =>
            transcript[s] + segs[s] + pending[s] = heard[s]

\* How the rows of a walk read as its lifecycle: a draft is what is live on the
\* board, and an attempt is on show through its artifacts or its items.
StageOf(s) ==
    CASE status[s] = "absent" -> "none"
      [] status[s] = "recording" -> "capturing"
      [] status[s] \in {"awaiting", "failed"} -> "pending"
      [] status[s] = "processed" -> "delivered"
      [] status[s] = "deleted" -> "discarded"

DraftOf(s) == FromSource(Board(s), {"live"})

AuthorsOf(s) ==
    artifact[s] \cup {item[i].by : i \in FromSource(Board(s), {"authoritative"})}

Lifecycle == INSTANCE WalkLifecycle WITH
    stage <- [s \in Sessions |-> StageOf(s)],
    draft <- [s \in Sessions |-> DraftOf(s)],
    authors <- [s \in Sessions |-> AuthorsOf(s)]

\* The walk keeps the promises of WalkLifecycle.
ImplementsLifecycle == Lifecycle!Spec

\* The application is one of the clients SessionStore is checked against, so
\* what holds of the store under any client holds here.
ImplementsStore == StoreSpec

\* A finish() or a cancel() that was called returns, unless the process dies:
\* none of the joins, locks and awaits on the way can wait for ever.
ExitsReturn ==
    \A s \in Sessions :
        /\ fin[s] = "waiting" ~> fin[s] \in {"returned", "no"}
        /\ can[s] = "waiting" ~> can[s] \in {"returned", "no"}

\* Drop for WalkSession: a walk the shell forgot gives its thread back.
DroppedPumpExits ==
    \A s \in Sessions :
        ~open[s] /\ pump[s] # "none" ~> pump[s] \in {"none", "exited"}

\* retry_failed_sessions: a walk a launch finds Failed, or Recording, is attempted
\* once more in that launch, when the backlog fits the cap and the store works.
FailedIsRetried ==
    \A s \in Sessions :
        proc = "swept" /\ status[s] = "failed"
            ~> proc = "fresh" \/ \E r \in Runs : run[r].of = s /\ RetryRuns(r)

\* "The session queues for processing (offline-safe)" (store/sessions.rs),
\* "offline sessions queue and process on reconnect" (pipeline/mod.rs).
QueuedIsProcessed ==
    \A s \in Sessions : status[s] = "awaiting" ~> status[s] # "awaiting"

=============================================================================
