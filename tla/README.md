# Formal models of sitewalk

A tradesperson walks a job site and talks. The app turns the audio into a
transcript, drafts a board of items while the walk goes on, and, when the walk
is finished, has an LLM turn the transcript into notes. Everything is written to
SQLite on the device as it happens, because the promise of the product is that
*capture is never lost*: not to a crash, a discard racing a finish, a dead
network, or a model that answers late.

What the notes then become (priced documents with numbers of their own) and what
the app learns on the way (contacts, a vocabulary, a memory of the operator) is
kept on the device too, and has promises of its own.

This directory holds TLA+ models of the parts of the code that keep those
promises, the TLC runs that check them, and TLAPS proofs of the properties that
matter most.

    tlc -workers 2 -config MCWalkOne.cfg MCWalkSession.tla
    tlapm WalkSession_proofs.tla

1. [The system](#1-the-system)
2. [The modules](#2-the-modules)
3. [The model of a walk](#3-the-model-of-a-walk)
4. [The runs](#4-the-runs)
5. [Bounds, fairness, deadlock](#5-bounds-fairness-deadlock)
6. [What is proved](#6-what-is-proved)
7. [Findings and observations](#7-findings-and-observations)
8. [What is not modelled](#8-what-is-not-modelled)
9. [Plan](#9-plan)

## 1. The system

| Component | Where | State | Operations |
|---|---|---|---|
| Session store | `murmur-core/src/store/` | tables sessions, items, photos, artifacts; tombstones, never erasures | one transaction per call, behind one `std::Mutex<Store>` |
| WalkSession | `ffi/src/session.rs` | `terminated`, the extractor mutex, `PumpState {stop, wake, paused}`, the pump's `JoinHandle` | `begin_walk`, `push_audio`, `append_transcript`, `finish`, `cancel`, `Drop`, the pump thread, `pause_pump`, `resume_pump` |
| Speech stream | `stt/src/` | input buffer; engine: chunker, finalizer | `push_pcm`, `poll`, `end`, `preview_tail` |
| Live extraction | `murmur-core/src/pipeline/live.rs` | `cursor` into the transcript | `maybe_extract`, one task per appended chunk |
| SessionProcessor | `murmur-core/src/pipeline/mod.rs`, `tools.rs` | `created_ids`, the ids one run inserted | `process`, `retry_failed_sessions`, `process_pending` |
| App-open and review | `App/AppModel+Photos.swift`, `ffi/src/items.rs` | `isRetryingFailedSessions` | `runAppOpenSweeps`, `add_item`, `remove_item`, `update_item` |
| Walk shell | `App/AppModel.swift`, `Engine/MurmurEngine.swift` | `phase`, `session`, `currentSessionId`, `notes`, `isPaused`, `pausedByBackground` | `startWalk`, `finishWalk`, `discardWalk`, `handleBackgroundTransition` |
| Photos | `store/photos.rs`, `AppModel+Photos.swift` | rows; files in the app's directory | `capturePhoto`, `attachPhoto`, `sweepPhotoBytes` |
| Memory, vocabulary, reflection | `harness/src/memory`, `harness/src/reflection`, `murmur-core/src/coordinator.rs`, `ffi/src/vocabulary.rs` | one `Mutex<Memory>`, its file, its snapshots | `process()`'s memory tool, vocabulary edits, `maybe_reflect` |
| Documents | `pipeline/document.rs`, `pipeline/spoken_price.rs`, `store/documents.rs` | document artifacts, number counters | `build`, `fold_spoken_prices`, `mint_document_number_and_add_artifact` |
| Document types | `store/schemas.rs`, `store/migrations.rs`, `domain.rs`, `ffi/src/schemas.rs` | table document_schemas, `user_version` | seeding at each launch, `save_document_schema`, `remove_document_schema`, `resolve_active_schema` |
| Agent loop, providers | `harness/src/agent.rs`, `tool.rs`, `context.rs`, `providers/` | none across calls | `Agent::run`, `ToolRegistry::execute`, `LlmProvider::complete` |
| Walk allowance | `App/Entitlement.swift` | a counter, the entitlement | `recordFinishedWalk`, `shouldCount` |
| Jobs, contacts, usage, migrations | `store/` | plain rows | create, read, update |
| Audio capture, views, evals, proxy, spikes | | | |

**How they interact.** The shell calls the Rust core through UniFFI from the
main actor and from unstructured tasks. `begin_walk` inserts the session row,
builds the `WalkSession` and spawns one OS thread, the *pump*, which parks on a
condition variable, polls the speech stream (a long blocking decode) and appends
each finalized segment to the transcript. Every append spawns a tokio task, a
*tick*, that takes the extractor mutex and may run an LLM pass whose `add_item`
calls write draft (`live`) items. `finish()` wins an atomic swap, takes the
extractor mutex, joins the pump, flushes the stream, ends the session and runs
`process()`: it clears what an earlier attempt left, runs the LLM with tools
that write `authoritative` items and a report, and *swaps* the boards in one
transaction. `cancel()` shares the first three steps and then tombstones the
session. At launch, and only then, the app fails every `Recording` row a crash
left behind and starts a background retry of `Failed` sessions, which runs
`process()` concurrently with whatever the operator does next.

**What is hard here.** Six kinds of actor write to the rows of one session: the
shell, the pump, the ticks, `finish()`/`cancel()`, and the `process()` calls of
`finish()` and of the retry. No lock spans an LLM call or a decode. The process
may die between any two transactions, and a SQLite call may fail at any of them;
several of the errors are deliberately swallowed. So the questions are who may
still write when processing starts, which of two exits wins, whether speech
survives the hand-over from pump to flush, what a retry may find and must leave,
and whether everything that was started comes to an end.

Three more hard parts lie beside the walk. Speech is decoded in windows that
overlap, and two decodes of the same second disagree. The memory is one value
with three writers, who save it through one file after releasing its lock. A
document is built from a board that is read once, around two calls to the model
with no lock held, and takes its number at the end; the types it is built from
are rewritten by every release of the app, under the edits of the operator.

What makes each component correct:

* *Store*: rows never dangle, deletes are complete and final, a processed
  session holds no drafts, removing an item never takes a photo along.
* *WalkSession*: one exit wins; processing is quiet; nothing heard is lost;
  exits return; a forgotten walk gives its thread back.
* *SessionProcessor*: one run per session at a time; a failed attempt leaves
  nothing a later one inherits; drafts go only with a delivery; a failed or
  crashed walk is tried again.
* *Speech stream*: what is finalized is append-only, and every sample is
  finalized once.
* *Pump*: it never sleeps through work, and stops decoding in the background.
* *Live extraction*: the cursor passes only what a successful pass was sent.
* *Agent loop*: every tool use is answered; every attempt's cost is logged; the
  board is what the model was told it is.
* *Memory*: an answered change is on disk; what a reflection replaced can be read
  back, unless a rename or copy of it failed; a reflection forgets no seed marker;
  the cap holds.
* *Documents*: an amount that is read is neither lost nor doubled, and any other is
  inferred for a line that none was read from; a number is used once and none is
  skipped; a document shows one state of the board and always lands.
* *Document types*: the operator's edits and removals outlive every release;
  what is offered can be built.

`PROJECT.json` lists the hazards behind these sentences, each at its line.

## 2. The modules

| Module | Models | Depends on |
|---|---|---|
| `SessionStore` | the four tables and every transaction on them; `StoreSpec` drives them with an arbitrary client | |
| `WalkLifecycle` | the abstract promise: what a walk looks like to its operator | |
| `WalkSession` | the walk: shell, pump, ticks, exits, `process()`, retry, crash | `SessionStore`, `WalkLifecycle` (refinement) |
| `Capture` | windows, decoders, the seam, the pump and its gate, the live cursor | |
| `AgentLoop` | the attempts to process one walk: conversation, tools, contacts, cost, exits | |
| `MemoryStore` | the memory, its file and snapshots, its callers, reflection | |
| `DocumentTypes` | the vocabulary of document types and trades: pure operators | |
| `SchemaStore` | the stored document types over launches, releases, edits, removals | `DocumentTypes` |
| `SpokenAmounts` | what a text says of money, and when it is read as the total of a line | |
| `SpokenPrices` | the fold of spoken prices onto the work they name | `SpokenAmounts` |
| `DocumentBuild` | builds of documents among edits, deletes, faults and kills | `DocumentTypes`, `SpokenAmounts` |
| `SeqFolds` | what a filter keeps of a sequence, and a sum, as recursive functions; used by `AgentLoop`, `MemoryStore` and `SchemaStore` | |
| `MCSessionStore`, `MCWalkSession`, `MCCapture`, `MCMemory` | instances for TLC | |
| `MCPaperwork` | an instance of `SchemaStore`, `AgentLoop`, `SpokenPrices` and `DocumentBuild`, the four machines a walk's paperwork rests on | those four |
| `WalkSession_proofs` | theorems of `SessionStore` and `WalkSession` | |
| `WalkLifecycle_proofs`, `WalkRefinement_proofs` | theorems of `WalkLifecycle`; the refinement | |
| `SeqFolds_proofs` | lemmas for all of them: induction over the naturals, the folds | |
| `Capture_proofs`, `AgentLoop_proofs`, `MemoryStore_proofs` | theorems of the module each is named after | |
| `Documents_proofs` | theorems of `SpokenPrices`, `DocumentBuild` and `SchemaStore` | |

How the modules divide the code they share: `WalkSession` takes a run of the
model as any sequence of tool calls that ends well or badly, and `AgentLoop`
opens that run for one walk. `WalkSession` takes the speech stream as a buffer
that finalizes some of what it holds, and `Capture` opens the stream. What a
price is moved to is `SpokenPrices`; `DocumentBuild` keeps each spoken amount on
its line. The modules are checked one by one and not composed, because they meet
only through the rows each leaves behind.

`WalkSession` *extends* `SessionStore`: a transaction is an operator of the store
module, used as a conjunct of the action that runs it, so the same operator is
checked under an arbitrary client and under the application. Definitions whose
comment says what a plausible slip would do (`ForgetPhotosOf`,
`FinishLocksUnheld`, `RetryListsEnded`, ...) are not part of `Next`: they stand
in for the definition that follows them to show that the property notices.

### SessionStore

`status[s]` is `sessions.status` plus `"absent"` before the insert and
`"deleted"` after the tombstone; `transcript[s]` counts appended chunks; `item`,
`photo` are the tables, with `of` the session, `on` the item a photo is attached
to, `by` the run whose `created_ids` sink holds an item, `dead` the tombstone;
`artifact[s]` is the set of runs with a live artifact on the session.

An operator with primed variables is one store call, run under the mutex: it is
atomic, and an operation whose code would return `Err` is not enabled.
`finish_session_processed` is `FinishProcessed(s, ids)`: tombstone live and
authoritative items that are not in `ids`, demote the photos of what was swept,
mark `Processed`. `clear_authoritative_outputs`, `delete_session`,
`sweep_zombie_sessions` and the gated insert are translated in the same way.
`MurmurEngine::remove_item` reads the status of the session it is given and then
deletes whatever item id it is given, without relating them, and so does
`RemoveItem`.

### WalkLifecycle

Four variables per walk: its stage (none, capturing, pending, delivered,
discarded), its transcript, its draft board, and `authors`, the attempts whose
work is on show. A draft only grows, survives any number of failed attempts and
relaunches, and leaves in one step, the delivery. An attempt adds to its own
work or to nothing. A walk that has been ended cannot be discarded. There is
nothing in it about threads, locks, tasks, errors or crashes.

### Capture

Time is counted in units of audio and a word is an interval of it, so a word
may touch a window's edge or straddle it. `Hearings` is what a decoder may make
of a window: *any* decoder may mishear or miss a word that either edge of the
window cuts. An *aligned* one understands what lies whole inside and gives each
word its span; a *coarse* one understands it too and has only the segment's span
for all of its words; a *rough* one may mishear or miss anything, fail, or be kept
from a window by the energy gate. A misheard word may end late, and pushes the
start of the next. Which decoder it is does not change during a walk; what it makes
of a window is chosen anew for each. A coarse one may repeat an overlap that it
heard differently before, the degraded path of `finalize.rs:97-102`. `Decoded`, `Merge` (with `Seams` and `Fresh`) and `Settled`
translate `words_from_segments`, `merge` and `finalize_before`. The pump's three
flags, its wait and its notifies are one action per critical section.

`SpeechAssumption` says what windows with this overlap are for: words follow each
other, none is longer than the overlap, and none reaches into two windows that are
not neighbours. With the configured five seconds and one, that is a word of at most
a second. For longer words the code promises nothing: one that is cut by two
windows is whole in neither.

### AgentLoop

Up to `MaxAttempts` calls of `process()` on one walk, which may be deleted or
killed at any step. A response is any sequence of up to `MaxBlocks` blocks: text
the loop does not know, tool uses that are valid, invalid or of no tool. Each
completion costs one unit; `billed` is a history of what the provider counted,
`ledger` the rows the code wrote.

### MemoryStore

A save is one action per file operation, on a file, one temporary file and
snapshots; a file is missing, torn, or holds a memory. A descriptor follows the
file it opened through a rename. The two renames and the copy that rotate the
snapshots are actions of their own (`RotateThird`, `RotateSecond`, `Snap`), and
each may fail unnoticed, as its error is dropped (`let _ =`): the save goes on, over
a snapshot that stayed where it was or a `.1` that holds part of a copy. Any later
operation that fails, fails the save. The app may be killed between any two.

`Yields` are the steps of a call during which another may go on. `Serial`, no such
step, is what the tool's comment asks of its callers; the application does not keep
to it, and `memory_race` is the run in which every step is one. `undo` is a history
of what the last reflection replaced and of whether a rename or copy *of that
memory* failed. Facts and terms are a few texts with a
number of words; an answer of the reflecting model is any of a few lists.

### SchemaStore, SpokenPrices, DocumentBuild

`SchemaStore` keeps, beside the rows, the operator's last word on each type
(`theirs`). A launch migrates in one step and then seeds type by type, so that it
can be killed in between, and may be of a newer release than the last.
`SpokenPrices` abstracts the text of an item to its content words, its numbers,
which the tokenizer drops, and its amounts in order, each a total or a rate. As in
`find_amount`, an amount is read from a text that has exactly one and it is a total
(`HasAmount`), be it $0: two amounts, or a rate, leave the text a plain one. One
action is one turn of the loop. In `DocumentBuild` a tap reads its walk under one lock, waits for the
pricing and the prose with no lock held, and mints in one transaction. An item there is its
kind and the amounts of its title; `NoAmount` is the null of an amount column, and
is not 0.

## 3. The model of a walk

An action is the code between two points where another actor can run: an await,
a blocking lock or join, a return to the shell.

| Code | Actions |
|---|---|
| `begin_walk`, its failures after the row is written | `BeginWalk`, `BeginFails` |
| `push_audio`; `append_transcript` called by the shell | `PushAudio`; `AppendText` |
| the shell's `session = nil`; `Drop for WalkSession` | `HostDrops`; `DropRuns` |
| the pump loop: park, `poll()` and its error, `feed_segments`, exit | `PumpPolls`, `PumpDecodes`, `PumpDecodeFails`, `PumpFeeds`, `PumpExits` |
| `maybe_extract`: the gates, `add_item`, the outcome | `TickStarts`, `TickSkips`, `TickAdds`, `TickEnds` |
| `finish()`: swap, lock, join, flush, end, process, return | `FinishCalls`, `FinishLocks`, `FinishJoins`, `FinishFlushes`, `FinishFlushFails`, `FinishEnds`, `FinishEndFails`, `FinishProcesses`, `FinishRefused`, `FinishReturns` |
| `cancel()` | `CancelCalls`, `CancelLocks`, `CancelJoins`, `CancelDeletes`, `CancelDeleteFails` |
| `process()`: phase 0, tools, the LLM's success, both exits and their errors | `StartRun`, `RunAddsItem`, `RunWritesReport`, `RunSucceeds`, `RunCommits`, `RunExitFaults`, `RunFails` |
| app open: sweep, retry | `AppOpen`, `RetryLists`, `RetryListFails`, `RetryNext`, `RetryRefused`, `RetryEnds` |
| the process dies | `Crash`: everything but the store is reset |
| the review screen | `EditAdds`, `EditRemoves` |

Some choices that are easy to misread:

* **Strong references.** `Drop` runs when no `Arc` is left. The shell, a pump
  pass, each spawned tick, `finish()` and `cancel()` hold one; a parked pump
  holds a `Weak`. That is `Unreferenced`, and `DropRuns` needs it.
* **Errors nobody reads.** `let _ = store.append_transcript(..)` inside a loop
  may fail for some of its chunks and not for others: `AppendIfRecording` writes
  any number of the `n` chunks when a write can fail, and records the loss in
  `faulted`. The same flag records a failed decode, whose window is lost.
* **The mutex at the exit of `process()`.** `process()` holds the store mutex
  from the end of the LLM phases to the last write, over several transactions.
  A crash can fall between them and another thread cannot; so `RunSucceeds` and
  `RunCommits` are two actions, and every other store action requires
  `StoreFree`. Every other critical section is a single transaction.
* **Two ways out of `process()` on success.** A session with an empty transcript
  skips the LLM (`"empty"`); both paths end in the same swap.
* **`created_ids`.** An item carries the run that inserted it, and the ids a run
  passes to the swap are those items (`RunIds`).
* **Ids.** Session ids are UUIDv7, hence ordered by creation; the retry's
  "oldest five first" is the order of `Sessions`.
* **Data.** A chunk of speech is a unit of a counter, an item is an identity
  with its source. What a chunk says, or whether a pass finds anything in it, is
  left open, which includes every answer the model could give.

## 4. The runs

| Run | Config | States | What it asks |
|---|---|---|---|
| `store` | `MCSessionStore.cfg` | 188,364 | The store's promises under any client: two sessions, two items, a photo, two runs |
| `walk_one` | `MCWalkOne.cfg` | 144,802 | One audio walk, all safety properties, and both refinements |
| `walk_two` | `MCWalkTwo.cfg` | 729,779 | Two text-only walks: a retry of one beside the capture, finish or discard of the other |
| `walk_live` | `MCWalkLive.cfg` | 100,198 | Exits return; a forgotten pump ends; with failing writes and a crash |
| `walk_retry` | `MCWalkRetry.cfg` | 76,242 | A failed walk is tried again at the next launch |
| `walk_queued` | `MCWalkQueued.cfg` | | A *violation*: a queued walk is not always processed ([section 7](#7-findings-and-observations)) |
| `capture` | `MCCapture.cfg` | 828,725 | Five words through overlapping windows, the gate, the flush, the live cursor |
| `capture_gate` | `MCCaptureGate.cfg` | | A *violation*: windows decoded behind a closed gate |
| `memory` | `MCMemory.cfg` | 2,490,087 | The memory and its file, one call at a time, with failures of every file operation and kills |
| `memory_race` | `MCMemoryRace.cfg` | | A *violation*: overlapping calls lose an answered change |
| `memory_rollback` | `MCMemoryRollback.cfg` | | A *violation*: a copy that fails unnoticed takes the rollback point away |
| `paperwork` | `MCPaperwork.cfg` | 2,939,285 | Document types over launches, two releases, edits and removals; the attempts to process a walk; the fold of spoken prices; two document builds |

Safety, in `store`:

* `PhotosNeverDangle`: a live photo is attached to a live item of its own session
  or to none. Four transactions tombstone items and each has to see to the
  photos itself.
* `DeletedIsGone`: no row of a deleted session is live, nor becomes live through
  any later call.
* `NoLiveRowsOnceProcessed`: no draft is left, or arrives, on a processed board.
* `PhotosOutliveItems` (action property): a photo leaves only by its own removal
  or with its session, never as a side effect of what happens to items.

Safety, in `walk_one` and `walk_two` (each property in the run whose bounds
exercise it more, the refinement in both):

* `QuietProcessing`: while `finish()` processes, the pump is gone with nothing in
  hand, the tick guard is held, and the session is in an ended state. It is what
  the order *lock, join, flush, end, process* is for.
* `OneExitWins`: `finish()` and `cancel()` resolve to one winner. A discarded walk
  is deleted, unless the delete itself failed.
* `OneRunAtATime`: two `process()` calls never work on the same session. No lock
  says so. It follows from the statuses each caller starts from, the single retry
  of a process, and the terminal swap.
* `CaptureConserved`: until a decode or a write fails, every pushed chunk is in
  the transcript, in the pump's hands, or in the stream.
* `ImplementsLifecycle`: the refinement of `WalkLifecycle`. Its mapping reads a
  draft off the live items, and the authors off artifacts and authoritative
  items. Among what it rules out: clearing the drafts before the new board is
  there, delivering without the swap, attempt leftovers under a later attempt's
  work, a write to a session that has ended, a discard of a finished walk, a
  crash at any point that undoes any of this.
* `ImplementsStore`: each step of the application is one transaction of
  `StoreSpec` or leaves the rows alone, so the properties of `store` carry over.

Safety, in `capture`:

* `EachWordOnce`: words with spans of their own are committed in order and at most
  once, whatever is misheard, missed or put to the wrong moment, and whatever
  windows fail. With a decoder that understands what is whole in its window, coarse
  or aligned, none is skipped, but for the under-commit that `merge` documents
  (`UnderCommits`, [section 7](#7-findings-and-observations)). A coarse decoder may
  repeat the words of an overlap; it skips none at all.
* `NothingLeftBehind`: with such a decoder, all that was said is in the transcript
  after the flush, but for the same. A rough one is exempt, and has to be: a failed
  window is lost.
* `LiveSkipsNothing`: the live cursor passes only what a successful pass was
  sent, though a pass reads at most its budget and passes fail.
* `ParkedForAReason`: no wake-up is lost between push, pause, resume and stop.

Safety, in `memory`:

* `AckedOnDisk`: what was answered is on disk, in a file that can be read.
* `SeededForGood`: a pack's marker survives reflections that replace the memory,
  failed saves and restarts, so that deleted terms are not seeded again.
* `RollbackPointUnlessDropped`: from the moment a reflection's answer is taken, and
  until three more saves have begun, what it replaced can be read from the main file
  or a snapshot: through failed saves, kills in the middle of a rotation, and
  rotations that fail for other files. Only the failing rename or copy of that
  memory itself can lose it. The comment beside the code makes no such exception;
  `RollbackPoint` is its claim, and `memory_rollback` refutes it.
* `WithinWordCap`: the cap holds, whichever caller wrote last.

Safety, in `paperwork`, of the document types:

* `RemovedStaysRemoved`, `OperatorsEditStands`: over every launch and release.
  The scope of an edited built-in is exempt from the second: see
  [section 7](#7-findings-and-observations).
* `UntouchedFollowRelease`: a type the operator never touched is, once the app is
  open, that of the release. It is what the two properties before it must not be
  bought with.
* `OfferedCanBeBuilt`: a type in the list is legal for a walk of the trade and
  resolves to exactly one row.

Safety, in `paperwork`, of the other three machines:

* `RequestsAreWellFormed`: the provider is never sent a conversation it refuses.
* `CostIsLogged`: a walk leaves an attempt as Processed or Failed together with
  one row of all the attempt was billed; an attempt that leaves nothing else
  leaves no row.
* `BoardIsWhatWasTold`: the items of a processed walk are those whose `add_item`
  was answered with success in the attempt that finished.
* `OneCardPerName`: contacts do not multiply with the spelling of a name.
* `MoneyConserved`, `FoldsAreNamed`: the fold neither loses nor doubles an amount
  that is read, and moves it only to a line that shares a word with it.
* `AbsorbedWordsStay`: every content word of a line that was absorbed is on a line
  that stays and shows its own price. It is about words. Numbers, rates and second
  amounts of an absorbed line are not kept, which the comments beside the code say
  they are: [section 7](#7-findings-and-observations).
* `NumbersAreDense`: the documents of a kind are numbered 1 to n, without a gap.
* `OneBoardPerDocument`: a document shows the board its tap read.
* `AmountsHaveASource`: a line whose title is read a total shows that total, $0
  included. Any other amount is above zero and was inferred for a line that no total
  is read from, a line that speaks a rate among them. A priced line is a gap exactly
  when it has no amount, and the document's total is null exactly when no line has
  one, so that a document of $0 lines has a total.
* `ModelNeverFailsABuild`: only the store or a delete fails a build.

Liveness:

* `ExitsReturn` (`walk_live`): every `finish()` and `cancel()` returns unless the
  process dies. The joins happen under the extractor mutex that the ticks want,
  and the store mutex is held over several writes at the exit of a run.
* `DroppedPumpExits` (`walk_live`): the pump of a walk the shell has dropped ends.
* `FailedIsRetried` (`walk_retry`): a walk a launch finds `Failed` (or
  `Recording`, which the sweep fails first) is attempted in that launch, provided
  the store works and the backlog is within the cap.

## 5. Bounds, fairness, deadlock

**Bounds.** `MaxChunks` bounds what is pushed and so the transcript, `MaxCrashes`
the crashes, `Runs` the `process()` calls of a behaviour (an identity is used
once), `Items` and `Photos` the inserts. These are the only bounds; ticks,
pending chunks and segments are bounded through `MaxChunks`.

* Two chunks let one be in the pump's hands or the transcript while the other is
  still in the stream, and make a partial poll and a partly failing flush
  possible.
* Three runs are all that one walk and one crash can use: a `finish()` that fails,
  the retry of the same launch when it lists late enough to see that failure, and
  the retry of the next launch. Three items are a draft, an authoritative item of one attempt and one of
  another, or a manual one. A mixture of two attempts needs no more.
* One crash is enough for every point of one walk to be the point of the crash,
  with a relaunch, sweep and retry behind it. A crash during that retry would be
  the second; what it leaves (`Failed` or `AwaitingProcessing`, partial output) is
  also left by `RunExitFaults` and `RunFails`, and the proofs cover any number.
* `walk_two` uses text-only walks, because what two walks share is the store, the
  retry and the launch, not the pump. `MaxRetries = 1` with two sessions makes
  the cap bite; it is 5 in the code and a parameter here.
* Photos are exercised by `store` only. The walk runs have none; what the
  application can do to them is an instance of `StoreSpec` by `ImplementsStore`,
  for which the proof allows any set of photos.
* Item ids and run identities are symmetric in the safety runs. Sessions are
  ordered and therefore not. The liveness runs use no symmetry.

For the other runs:

* `capture`: nine units of audio are three windows of five that overlap by two,
  the last one short. The words touch, straddle a window's start, straddle its
  end, and lie in the overlap, so that both edges have a word to mishear; two of them
  are in a position that the under-commit needs. A budget of two words is less than a poll can bring.
  `MaxAudio` is the only bound on behaviours.
* `memory`: two changes, two reflections, one ended session; the snapshots are
  as deep as in the code. Two spellings of a term, another term and a person of two
  words, with room for two words and for one term: every eviction of one by another
  occurs. A second of the clock lasts two calls, so that some facts are touched in the
  same second and some are not. `memory_rollback` has the same bounds; `memory_race`
  has no ended session and hence no reflection.
* `paperwork`, types: two releases, two built-in types and one of the operator's; the
  old stores are every state the migrated row can have been left in.
* `paperwork`, the rest: two attempts of two turns of two blocks; boards of up to four
  items out of nine texts, with numbers, rates, two amounts and $0 among them; two
  taps on one walk, whose two items are work or not and speak nothing, $0 or a rate;
  one edit, one fault. A turn beyond the second, like a block beyond the second,
  repeats what the others did. Taps are symmetric.

A `finish()` with no run identity left would wait in `FinishProcesses` for ever.
In the liveness runs (one walk, one crash, three runs) that cannot happen, and
TLC would report `ExitsReturn` violated if it did. In `walk_two` it can, and only
shortens behaviours there.

**Fairness** is weak fairness of each actor that the code or the platform
schedules: the pump thread, the tokio tasks behind ticks, `finish()`,
`cancel()`, `process()` and the retry, the destructor, and the app-open hook of a
process that is running. It includes that a decode ends and that an LLM call
ends, well or badly: the provider's client has a request timeout of 60 s
(`harness/src/providers/anthropic.rs`) and the agent a limit on its turns. There
is no fairness for the operator (who need not finish, discard or push
anything), for crashes, or for any particular outcome: a decode, a write and an
LLM call may fail every time.

Weak fairness is per actor and not per mutex waiter. A tokio mutex is
FIFO; the model does not order the waiters, and since no new chunk is appended
without bound, it does not need to.

**Deadlock** checking is off in the walk runs: an app nobody touches has nothing
to do, and with bounded crashes and pushes it comes to rest. Getting stuck with
work in hand is what the liveness properties rule out. It is off in `paperwork` as
well, three of whose machines end: a processed walk, a folded board and two finished
taps have no next step (the fourth always has one: an app can be launched or killed). It is on in the other runs.

## 6. What is proved

All theorems are for arbitrary sets of sessions, items, photos and runs, and for
any number of chunks and crashes, from the named assumptions in `SessionStore`
(`StoreAssumption`: the null key is not an id) and `WalkSession`
(`WalkAssumption`: ids are ordered, the constants have their types).

`WalkSession_proofs` has two parts. The first is about `StoreSpec`, and its step
lemmas about any step of the store:

| Theorem | Property | Argument |
|---|---|---|
| `StoreIsTyped` | `StoreTypeOK` | inductive |
| `PhotosAreSafe` | `PhotosNeverDangle` | inductive with the types; `SweepAndDemoteStep` for the two transactions that sweep and demote |
| `PhotosOutlive` | `PhotosOutliveItems` | per action |
| `DeletedStaysGone` | `DeletedIsGone` | inductive; every write is gated on `Exists` |
| `NoLiveRows` | `NoLiveRowsOnceProcessed` | strengthened by `LiveIsUnsigned`: no run owns a live item, so the swap cannot spare one |

The second is about `Spec`. The inductive invariant is built in three layers:

1. `Base`: the types, the bound `transcript + segs + pending <= heard` that keeps
   the transcript in its type, and that an active run belongs to a session. The
   same induction shows that each step is a store step (`StepsAreStoreSteps`),
   hence `WalkIsTyped`, `WalkUsesStore`, and through the theorems above
   `WalkKeepsStorePromises`.
2. `Exits`: for each session, what each program point of `finish()` and `cancel()`
   knows: who holds the guard, that the pump is gone after the join and `stop`
   stays set, which status the row can be in, and that the app-open sweep runs
   before any walk of the process is live (`SweepIsFirst`). From it
   `ProcessingIsQuiet`, `OneExit` and `CaptureIsConserved`.
3. `Turns`: an active run belongs to the `finish()` of its session in its
   `"running"` phase, or is the one the retry task is at; the retry's list only
   holds sessions that no live exit is going to process. From it `OneRun`.

`WalkRefinement_proofs` adds `Authorship` (while a run is active on a session,
what is on show there is that run's alone, and items and artifacts name runs)
and shows that each step maps to a step of `WalkLifecycle` or to a stutter:
`WalkImplementsLifecycle == Spec => ImplementsLifecycle`. The proof first
describes what each transaction does to the mapped variables (the `...Reads`
lemmas) and then goes through the actions.

`WalkLifecycle_proofs` draws two consequences from the abstract module alone:
one author at a time, and a draft only until delivery.

The other modules' theorems are, in the same way, for all values of their
constants under the assumption named in each (`CaptureAssumption`,
`SpeechAssumption`, `AgentAssumption`, `MemoryAssumption`, `SchemaAssumption`, `PriceAssumption`,
`DocumentAssumption`), which TLC evaluates on every run:

| Module | Theorem | Property | Argument |
|---|---|---|---|
| `Capture_proofs` | `PumpNeverSleepsThroughWork` | `ParkedForAReason` | inductive as it stands, action by action |
| | `CursorCoversOnlyReadWords` | `LiveSkipsNothing` | `PassAtCursor`: a pass in progress began at the cursor, so what it adds continues what was covered |
| | `WordsAreCommittedOnce`, `NothingIsLeftBehind` | `EachWordOnce`, `NothingLeftBehind` | `CommitInv` (below) |
| `AgentLoop_proofs` | `ExitsLogTheirCost` | `CostIsLogged` | `CostInv`: in each phase, what was billed is what `spent` and `usage` hold together (`RunningCost`), and no later attempt has a bill or a row (`NothingAhead`) |
| | `CardsStayUnique` | `OneCardPerName` | `CardInv`: with the shape of a card, for any `Lower` |
| | `RequestsStayWellFormed` | `RequestsAreWellFormed` | `TalkInv`: a conversation alternates and answers what it asked; in mid-turn the results so far and the uses still pending are together the uses of the last message |
| | `BoardStaysAsTold` | `BoardIsWhatWasTold` | `BoardInv` on top of it: the sink holds the items of the answered `add_item` uses and of the results not yet sent |
| `MemoryStore_proofs` | `MemoryStaysInCap` | `WithinWordCap` | `MemoryTypeOK`: each of the four operations returns a memory within the cap, and so the copies and files hold such |
| | `AckedStaysOnDisk`, `SeedingIsForGood`, `ReflectionsCanBeUndone` | `AckedOnDisk`, `SeededForGood`, `RollbackPointUnlessDropped` | `SerialInv` (below) |
| `Documents_proofs` | `SpokenMoneyIsConserved` | `MoneyConserved` | `PriceInv`: claimed lines are plain, the column holds read amounts, a folded line pays nothing, each amount read is in one place |
| | `FoldsNameTheirLine`, `AbsorbedWordsAreKept` | `FoldsAreNamed`, `AbsorbedWordsStay` | the same; that `MoreAbout` orders the candidates totally is a lemma |
| | `NumbersStayDense` | `NumbersAreDense` | `DocInv` with the cardinality theorems: a mint adds one document and one number |
| | `DocumentsShowOneBoard`, `NoAmountIsInvented` | `OneBoardPerDocument`, `AmountsHaveASource` | `DocInv`: what a tap carries between its calls is sound for the board it read |
| | `NoBuildFailsForTheModel` | `ModelNeverFailsABuild` | `DocInv`: a failed tap has its excuse |
| | `SchemasStayTyped` | `SchemaTypeOK` | `SchemaInv` |
| | `RemovalIsForever`, `EditsOutrankUpdates` | `RemovedStaysRemoved`, `OperatorsEditStands` | `SchemaInv`: each row keeps the operator's word on it (`KeepsWord`), and a saved row's stamp is not 0, which is what keeps the seeding off it |
| | `UpdatesReachTheUntouched` | `UntouchedFollowRelease` | `SchemaInv`: where he said nothing the row is one a seeding wrote, and during a launch it is the release's or still queued (`SeedingReaches`) |
| | `OffersCanBeBuilt` | `OfferedCanBeBuilt` | the types; `Outranks` is a strict total order on live rows (`OutranksOrders`), and of finitely many candidates one outranks the others (`OneAnswers`, by induction over the id order) |

None of these properties but `ParkedForAReason` is inductive: each is about
finished rows, and what it needs is a fact about the work in progress.

**The memory and its file.** `MemoryStaysInCap` needs no assumption on the
callers. The other three theorems of `MemoryStore_proofs` are proved from
`Serial`, that calls do not overlap: without it they do not hold, as the violation
`memory_race` shows of the first. `SerialInv` adds to the types that one caller at a
time is under way (`OneAtATime`), that its copy is the memory and is in the temporary
file from the last write to the rename (`SaveUnderWay`), that the main file is never
torn, never older than what was acknowledged and has the marker of a seeding that
was answered (`MainIsSound`), and where the memory is that the last reflection
replaced (`UndoIsKept`): in the main file, or in a slot no deeper than the rotations
begun since, and not in one that the rotation under way is about to overwrite. A
rename that moves it takes it one slot on; one that fails sets `dropped`, and only
then may the next step overwrite it. What the operations make of the value is
in lemmas of their own: `Clamp` removes whole facts and only when the cap is
passed, none of them drops the marker, `Rewritten` holds only texts of the answer.

**Two decodes of the same second.** `CommitInv` of `Capture_proofs` is about the
whole commitment, transcript, finalized and held words together, which only grows
(`IngestGrows`). For decoders that give each word a span, what is finalized was over
before the next window starts, and a held word is over by then too, or is in the next
overlap with a span that does not end before it does (`Placed`, `Reads`). So a word of
the next window is later than what is finalized (`DoneIsBefore`), and one that starts
after all held words end is later than those (`FreshIsLater`). Nothing in this depends
on what was understood. A coarse decoder's words all end with the window, so a later
window's are fresh unless they end with it too; the order is not claimed for it.

With decoders that understand what is whole in the window, the commitment holds every
word that ends by where the last window reached, or comes before a committed one
(`Complete`), and the held words' spans are known. A held word may have been misheard
only when the *end* of its window cut it: one that the start cuts is over before the
horizon and no longer held (`CutSpans`). What follows such a word starts behind the
overlap and is fresh. If the last held word was understood, and the start of the next
window cuts no word (`Cut`), the words of the overlap up to it are in both decodes
without a gap, so that the text seam finds them (`SeamExists`). If the start cuts a
word, which is then misheard or missed, no text need match, and the cut by time drops
what is held already and at most one word that is not: one that starts exactly where
the last held word ends and reaches out of the overlap (`TouchesACutWord`). That is
`UnderCommits`. The places that `Decoded` gives words are a recursion over all that
was said (`DecodedHolds`).

**Sequences of any length.** A filter, a sum, the seeding of a pack and the
rewriting of a memory are recursive functions over the prefixes of a sequence.
`SeqFolds_proofs` proves what is needed to reason about them: the least element of
a set of numbers (`LeastNumber`, from the well-foundedness of finite sets),
induction with a set in place of a predicate (`SetInduction`), that a recursion
over `1..n` has a solution (`RecursionHolds`), and from these what `Keep` keeps
(`KeepPicks`: elements in order; `KeepCovers`: all of them) and what `SumOf` adds up.

Only model-checked are the liveness properties (`ExitsReturn`, `DroppedPumpExits`,
`FailedIsRetried`), which depend on fairness, and the violations. The proof system
used here does not treat `ENABLED`, and therefore not weak fairness. Every other
property of a passing run is a theorem.

## 7. Findings and observations

**A queued walk may never be processed** (`walk_queued`). `finish()` sets
`AwaitingProcessing` and only then starts the LLM work, several calls with a
time limit of a minute each. If the process dies meanwhile, or the exit write of `process()` fails,
the row stays `AwaitingProcessing`. The sweep at launch takes `Recording` rows
only, the retry takes `Failed` rows only, and `process_pending`, which drains
this queue, is called by nothing the app can reach. The comments on `end_session`
("the session queues for processing (offline-safe)") and on `process_pending`
("offline sessions queue and process on reconnect") describe a behaviour that is
not there. The transcript and the drafts survive; the notes are never made.

**Overlapping saves lose an answered change** (`memory_race`). Every caller
changes the memory under its lock and saves its copy after releasing it, through
one `.tmp` file. Two saves that overlap can publish a file one of them has just
truncated, or an older value over a newer, and both answer OK. The tool's comment
knows that its own calls must not overlap and relies on the agent loop to make
them one at a time; but the vocabulary editor saves the same memory from the main
actor while a walk is being processed on the runtime. "Every mutation is persisted
immediately" holds only without that overlap, which is what `memory` shows.

**A rollback point is not guaranteed** (`memory_rollback`). `maybe_reflect` saves the
current memory before it asks the model, "guaranteeing a rollback point that this
reflection cannot erode" (`coordinator.rs:103`). That save only puts the current
memory in the main file; it comes into a snapshot when the save of the answer copies
main to `.1`. `rotate_snapshots` drops the errors of its two renames and its copy, and
the save goes on: when the copy fails, on a full disk say, the rename that follows
replaces the one file that held it. A rename that fails leads to the same a save or
two later. `memory` shows that nothing else does.

**The gate lets a backlog through** (`capture_gate`). "A decode already in flight
completes (drains) and the loop then parks - no new work is submitted to Metal
while backgrounded." The loop checks the gate before `poll()`, and `poll()` decodes
every window that is ready. A pump that has fallen behind by two windows or more
starts new decodes behind a closed gate.

Three claims of comments about spoken prices that the code does not keep. Each is a
definition of its module that no run checks; as an invariant of `MCPaperwork.cfg` TLC
refutes it.

* *Absorption deletes detail* (`AbsorptionDeletesNoDetail`). "Absorption must never
  delete detail: a bare line is only absorbed when every word of it is already present
  in the priced line" (`spoken_price.rs:506`), "only when the bare line adds NOTHING
  the priced one lacks" (130). The tokenizer keeps alphabetic words only, so "5 yards
  of mulch" goes with "$450 premium mulch by the yard, installed", and the 5 with it.
* *What is declined may vanish* (`DeclinedStaysVisible`). "Everything it declines to
  fold stays visible as its own line" (36). A line with a rate or with two amounts
  reads as a plain one and is absorbed like any plain line, with what it says of money.
* *The model may contradict the operator* (`OperatorIsNotContradicted`). "Only what is
  still unpriced goes to the model - it is cheaper, and it removes any chance of the
  pass contradicting the operator" (`document.rs:919`). A line whose title speaks a
  rate has no amount, is sent, and shows the inferred amount beside the rate.

**A reflection forgets what was answered meanwhile.** It replaces the memory with one
built from the clone it took before its call to the model, the marker of the seed packs
included. With `Yields = {"asking"}` in `MCMemory.cfg`, saves taking turns and a call
allowed while the model is asked, TLC finds `SeededForGood` violated: a pack that was
seeded meanwhile loses its marker, and the next pass would seed again what the user has
deleted since (`vocabulary.rs:82`). Nothing in `crates/ffi` or the app calls
`maybe_reflect` yet; the first caller that does inherits this.

Two comments that say something else than the code, found while translating it:

* *The v9 migration* says that tombstoned rows are left alone and that a customised
  estimate keeps its scope. Its statement has no condition on `deleted_at`, and an
  edited built-in keeps `device_id = 'builtin'`: both are repointed.
* *The `upsert_contact` tool* tells the model that a match is by exact name; the
  store matches by `lower(name)`, which is what keeps one card per person.

Not defects against a written claim, but worth knowing:

* *The sweep relies on its caller.* `sweep_zombie_sessions` fails every
  `Recording` row, that of a live walk included. It is safe because `AppOpen`
  comes before any walk of the process. A comment beside the retry says `.task`
  can fire again, and guards the retry against it; the sweep has no such guard.
  The model follows the invariant the code states, and `AppOpenAgain` shows that
  `CaptureConserved` depends on it.
* *A discard whose delete fails is not a discard.* `cancel()` ignores the error:
  the row stays `Recording`, is failed at the next launch and then processed as a
  kept walk. `OneExitWins` states the exception.
* *The status gate of `append_transcript` is a second line.* In an audio walk the
  join of the pump ahead of `end_and_record_session` already keeps late segments
  out.
* *The under-commit needs no bad decode.* `merge` presumes that a word starting
  exactly where the last held one ended is a re-decode, "in a seam where the
  decodes already disagree on text". It takes no bad decode to get there: it is
  enough that a window's start cuts a word, which the window then mishears or misses.
  Its text is not that of the held words, the seam fails, and the cut by time drops a
  later word that touches the last held one and was not whole in the window before. The
  proof found it: `EachWordOnce` and `NothingLeftBehind` do not hold without the
  exemption `UnderCommits`, and hold for every other word that is said to an aligned
  decoder, and for every word said to a coarse one.
* *A spoken $0 is an amount, an inferred 0 is none.* `find_amount` reads "$0" and
  `apply_prices` fills it in without a gap, while a row with 0 from the model is
  dropped and its line stays a gap. `AmountsHaveASource` states both.
* *A failed decode loses words silently.* `poll()` returns early with `?` and
  drops what it finalized earlier in the same call.

## 8. What is not modelled

* **Shell phases**: `AppModel`'s phase, `currentSessionId`, the notes on show, the
  walk allowance, and when the scene phase closes the gate. They are main-actor
  code whose races depend on the order SwiftUI delivers its callbacks in.
* **Photo files** and their sweep by age; the rows are in `SessionStore`.
* **`process_pending`, `BuildDocumentTool`, `prune_stale`, `record_correction`**:
  nothing in the application calls them. The absence of the first is a finding.
* **Titles, job assignment, text edits, captions, edits of a stored document**:
  columns nothing else depends on.
* **Context budgets, cache markers, prompts, wording, rendering, the dedup list of
  live extraction**: data, or limits on data.
* **Events to the listener**: they carry copies of rows to the screen.
* **A poisoned mutex**: it takes a panic while a lock is held. Where the code
  returns an error for it, that error is among the failures modelled; the
  `unwrap()`s are not modelled.
* **Failing reads**: `StoreFaults` covers writes, the transactions they are part
  of and the retry's list. A read-only query that fails is a refusal like those.
* **In the speech stream**: the preview tail, the no-speech threshold, the cap of
  forty words on a seam, rounding of samples to milliseconds, and two different
  words of the same text next to each other, which the text seam cannot tell apart.
* **whisper.cpp, the network, the proxy service, evaluation tooling, spikes,
  views**: outside of the core's control flow.

The share of the Rust sources that the models stand for stays well below a third.
About half of those lines are tests beside the code, and most of the rest are
prompts, evaluation tooling, conversions for the bindings, providers' wire formats
and rendering, in which there is no state to model. What changes state in the core
is modelled, with the exceptions above.

## 9. Plan

What is left, in the order in which it is worth doing:

1. **Shell phases**: `AppModel` and `MurmurEngine`, whose continuations run after
   awaits. Notes on screen belong to the walk on screen; no handle of a running
   walk is dropped; a walk is metered once. Would discharge the assumption behind
   `EditRemoves` and drive the gate of `Capture`.
2. **The retry queue** beyond its cap: an abstract queue and its starvation.
3. **A corrected save**: `MemoryStore` with the save under the lock and a rotation
   whose errors count, as the refinement of one atomic, durable value; and a
   reflection that merges what was answered while it waited.
4. **Capture refines the buffer of WalkSession**: the two views of the speech
   stream are related by argument only.
5. **Photo files**, rows and the sweep with its age limit.
6. **Context budgets** as pure operators, against a reference definition.
