------------------------------- MODULE Capture ------------------------------
(***************************************************************************)
(* From the microphone to the live board: audio is cut into overlapping   *)
(* windows (crates/stt: chunk.rs, lib.rs), each is decoded, merged with   *)
(* what the overlap already held and finalized (finalize.rs), fed to the  *)
(* transcript by the pump thread (ffi/src/session.rs), and read by live   *)
(* extraction through a cursor (murmur-core/src/pipeline/live.rs).  The   *)
(* background gate pauses the pump.  Time is counted in units of audio.   *)
(***************************************************************************)
EXTENDS Naturals, Sequences, SeqFolds

CONSTANTS
    Spoken,         \* the words said, in order: [from, to] of each
    ChunkLen, Overlap,
    MaxAudio,       \* bound on the length of the walk
    MinNew,         \* min_new_chars, in words
    Budget          \* what one live pass can read, in words

Step == ChunkLen - Overlap

ASSUME CaptureAssumption ==
    /\ {ChunkLen, Overlap, MaxAudio, MinNew, Budget} \subseteq Nat
    /\ Overlap < ChunkLen        \* SttConfig::validate
    /\ MinNew > 0 /\ Budget > 0

\* What windows that overlap by this much are meant for (five seconds and one,
\* lib.rs:80-81): words follow each other, one that the end of a window cuts is
\* whole in the next, and none is heard by two windows that are not neighbours.
ASSUME SpeechAssumption ==
    /\ Spoken \in Seq([from : Nat, to : Nat])
    /\ \A i \in DOMAIN Spoken :
          /\ Spoken[i].from < Spoken[i].to
          /\ Spoken[i].to <= Spoken[i].from + Overlap
          /\ Spoken[i].to + Overlap <= Spoken[i].from + Step + 1
    /\ \A i, j \in DOMAIN Spoken : i < j => Spoken[i].to <= Spoken[j].from

VARIABLES
    mic,        \* audio said so far
    input,      \* of it, in the hand-off buffer
    buffered,   \* of it, taken by the chunker
    nextStart,  \* where the next window begins
    held,       \* the finalizer's pending words
    out,        \* finalized by the poll under way
    pump,       \* the pump thread, or finish() once it has ended
    wake, paused, stop,
    late,       \* history: windows this poll decoded since the gate closed
    transcript,
    cursor,     \* words of it covered by successful live passes
    pass,       \* the live pass under way
    covered,    \* history: what successful passes were sent
    decoder     \* how good it is: "aligned", "coarse" or "rough"

heardVars == <<held, out, transcript, decoder>>
gateVars == <<wake, paused, stop, late>>
liveVars == <<cursor, pass, covered>>
captureVars == <<mic, input, buffered, nextStart, pump, heardVars, gateVars,
                 liveVars>>

\* One that understands every word inside its window, with a span for each
\* word; one that has only the segment's span; and one that may mishear or
\* miss any word, fail, or be kept from a window by the energy gate.
Decoders == {"aligned", "coarse", "rough"}
Rough == decoder = "rough"

Lesser(a, b) == IF a < b THEN a ELSE b
Greater(a, b) == IF a < b THEN b ELSE a

-----------------------------------------------------------------------------
(* One window: what the decoder may make of it *)

Within(a, b) == {i \in DOMAIN Spoken : Spoken[i].from < b /\ Spoken[i].to > a}

\* A word inside the window is understood, one cut by an edge of it may be
\* misheard or missed; a rough decoder may mishear or miss any.
Hearings(a, b) ==
    {h \in [Within(a, b) -> {"exact", "garbled", "missed"}] :
        \A i \in DOMAIN h :
            Rough \/ h[i] = "exact" \/ Spoken[i].from < a \/ Spoken[i].to > b}

\* words_from_segments: each word with its own span, or, when the words cannot
\* be aligned, with its segment's.  A garbled word may end late, and pushes
\* the next one's start.
Decoded(a, b, h, precise, drag) ==
    LET heard == {i \in DOMAIN h : h[i] # "missed"}
        ending(i) ==
            Lesser(b, Spoken[i].to + IF h[i] = "garbled" THEN drag ELSE 0)
        \* where the last of the first n words ends
        until[n \in 0..Len(Spoken)] ==
            IF n = 0 THEN a
            ELSE IF n \notin heard THEN until[n - 1]
            ELSE Greater(ending(n), Greater(Spoken[n].from, until[n - 1]))
        word(i) ==
            [word |-> i, garbled |-> h[i] = "garbled", precise |-> precise,
             from |-> IF precise THEN Greater(Spoken[i].from, until[i - 1])
                      ELSE a,
             to |-> IF precise THEN until[i] ELSE b]
        said == Keep([i \in 1..Len(Spoken) |-> i], heard)
    IN [k \in 1..Len(said) |-> word(said[k])]

SameText(v, w) == v.word = w.word /\ ~v.garbled /\ ~w.garbled

\* The new words can be put to the last k of the pending ones.
Seams(pending, new) ==
    {k \in 1..Lesser(Len(pending), Len(new)) :
        \A i \in 1..k : SameText(pending[Len(pending) - k + i], new[i])}

\* The new words that are not in audio already held.
Fresh(pending, new) ==
    {i \in 1..Len(new) : \A j \in 1..Len(pending) :
        pending[j].to < IF new[i].precise THEN new[i].from ELSE new[i].to}

\* The seam: the longest suffix of pending that the new words begin with, or
\* else the new words from the first fresh one.
Merge(pending, new) ==
    LET from(n) == SubSeq(new, n, Len(new))
        seams == Seams(pending, new)
        fresh == Fresh(pending, new)
    IN IF pending = <<>> THEN new
       ELSE IF seams # {} THEN
            pending \o from(1 + CHOOSE k \in seams : \A l \in seams : l <= k)
       ELSE IF fresh = {} THEN pending
       ELSE pending \o from(CHOOSE i \in fresh : \A j \in fresh : i <= j)

\* How many leading words end by the horizon.
Settled(words, horizon) ==
    LET open == {i \in 1..Len(words) : words[i].to > horizon}
    IN IF open = {} THEN Len(words)
       ELSE (CHOOSE i \in open : \A j \in open : i <= j) - 1

Ingest(words, horizon) ==
    LET merged == Merge(held, words)
        n == Settled(merged, horizon)
    IN /\ out' = out \o SubSeq(merged, 1, n)
       /\ held' = SubSeq(merged, n + 1, Len(merged))

DecodeWindow(a, b, horizon) ==
    \E h \in Hearings(a, b), drag \in {0, 1} :
        Ingest(Decoded(a, b, h, decoder # "coarse", drag), horizon)

-----------------------------------------------------------------------------
(* The pump thread and its gate *)

CaptureInit ==
    /\ mic = 0 /\ input = 0 /\ buffered = 0 /\ nextStart = 0
    /\ held = <<>> /\ out = <<>> /\ transcript = <<>>
    /\ decoder \in Decoders
    /\ pump = "checking"
    /\ wake = FALSE /\ paused = FALSE /\ stop = FALSE /\ late = 0
    /\ cursor = 0 /\ covered = {}
    /\ pass = [from |-> 0, upto |-> 0]

Notified == IF pump = "waiting" THEN "checking" ELSE pump

PushPcm(n) ==
    /\ mic + n <= MaxAudio
    /\ mic' = mic + n
    /\ input' = input + n
    /\ wake' = TRUE
    /\ pump' = Notified
    /\ UNCHANGED <<buffered, nextStart, heardVars, paused, stop, late, liveVars>>

PausePump ==
    /\ paused' = TRUE
    /\ UNCHANGED <<mic, input, buffered, nextStart, pump, heardVars, wake,
                   stop, late, liveVars>>

\* Faulty variant: the gate is lifted and nobody is told.
ResumePumpSilently ==
    /\ paused' = FALSE
    /\ late' = 0
    /\ UNCHANGED <<mic, input, buffered, nextStart, pump, heardVars, wake,
                   stop, liveVars>>

ResumePump ==
    /\ paused' = FALSE
    /\ late' = 0
    /\ pump' = Notified
    /\ UNCHANGED <<mic, input, buffered, nextStart, heardVars, wake, stop,
                   liveVars>>

\* Park, or take the wake-up and all of the input.
PumpChecks ==
    /\ pump = "checking"
    /\ IF stop THEN /\ pump' = "ended"
                    /\ UNCHANGED <<input, buffered, wake>>
       ELSE IF ~wake \/ paused THEN /\ pump' = "waiting"
                                    /\ UNCHANGED <<input, buffered, wake>>
       ELSE /\ pump' = "polling"
            /\ wake' = FALSE
            /\ buffered' = buffered + input
            /\ input' = 0
    /\ late' = 0
    /\ UNCHANGED <<mic, nextStart, heardVars, paused, stop, liveVars>>

Ready == nextStart + ChunkLen <= buffered

\* Faulty variant: the horizon leaves no room for the overlap.
DecodesToTheEnd ==
    /\ pump \in {"polling", "flushing"}
    /\ Ready
    /\ nextStart' = nextStart + Step
    /\ DecodeWindow(nextStart, nextStart + ChunkLen, nextStart + ChunkLen)
    /\ late' = IF pump = "polling" /\ paused THEN late + 1 ELSE late
    /\ UNCHANGED <<mic, input, buffered, pump, transcript, decoder, wake, paused, stop,
                   liveVars>>

\* poll() and end() decode every ready window before they return.
Decodes ==
    /\ pump \in {"polling", "flushing"}
    /\ Ready
    /\ nextStart' = nextStart + Step
    /\ DecodeWindow(nextStart, nextStart + ChunkLen,
                    nextStart + ChunkLen - Overlap)
    /\ late' = IF pump = "polling" /\ paused THEN late + 1 ELSE late
    /\ UNCHANGED <<mic, input, buffered, pump, transcript, decoder, wake, paused, stop,
                   liveVars>>

\* The energy gate: the window is taken and not decoded.
Gated ==
    /\ Rough
    /\ pump \in {"polling", "flushing"}
    /\ Ready
    /\ nextStart' = nextStart + Step
    /\ UNCHANGED <<mic, input, buffered, pump, heardVars, gateVars, liveVars>>

\* The first error returns, and what was finalized before it is dropped.
DecodeFails ==
    /\ Rough
    /\ pump \in {"polling", "flushing"}
    /\ Ready
    /\ nextStart' = nextStart + Step
    /\ out' = <<>>
    /\ pump' = IF pump = "polling" THEN "checking" ELSE "over"
    /\ UNCHANGED <<mic, input, buffered, held, transcript, decoder, gateVars,
                   liveVars>>

\* No window is left: feed_segments appends what was finalized.
PollFeeds ==
    /\ pump = "polling"
    /\ ~Ready
    /\ transcript' = transcript \o out
    /\ out' = <<>>
    /\ pump' = "checking"
    /\ UNCHANGED <<mic, input, buffered, nextStart, held, decoder, gateVars,
                   liveVars>>

\* finish(): stop wins over the gate; the pump is joined and the stream ended.
StopPump ==
    /\ stop' = TRUE
    /\ pump' = Notified
    /\ UNCHANGED <<mic, input, buffered, nextStart, heardVars, wake, paused,
                   late, liveVars>>

FlushStarts ==
    /\ pump = "ended"
    /\ pump' = "flushing"
    /\ buffered' = buffered + input
    /\ input' = 0
    /\ UNCHANGED <<mic, nextStart, heardVars, gateVars, liveVars>>

\* Faulty variant: the last window keeps its overlap back.
FlushEndsAtHorizon ==
    /\ pump = "flushing"
    /\ ~Ready
    /\ IF nextStart < buffered
       THEN DecodeWindow(nextStart, buffered, nextStart + Step)
       ELSE out' = out \o held /\ held' = <<>>
    /\ pump' = "feeding"
    /\ UNCHANGED <<mic, input, buffered, nextStart, transcript, decoder,
                   gateVars, liveVars>>

\* The short last window, or just the tail still held, with no horizon.
FlushEnds ==
    /\ pump = "flushing"
    /\ ~Ready
    /\ IF nextStart < buffered
       THEN DecodeWindow(nextStart, buffered, MaxAudio)
       ELSE out' = out \o held /\ held' = <<>>
    /\ pump' = "feeding"
    /\ UNCHANGED <<mic, input, buffered, nextStart, transcript, decoder,
                   gateVars, liveVars>>

FlushFeeds ==
    /\ pump = "feeding"
    /\ transcript' = transcript \o out
    /\ out' = <<>>
    /\ pump' = "over"
    /\ UNCHANGED <<mic, input, buffered, nextStart, held, decoder, gateVars,
                   liveVars>>

-----------------------------------------------------------------------------
(* Live extraction *)

NoPass == pass.upto = 0

PassStarts ==
    /\ ~stop
    /\ NoPass
    /\ Len(transcript) - cursor >= MinNew
    /\ \E read \in 1..Budget :
         /\ read = Lesser(Len(transcript) - cursor, Budget)
         /\ pass' = [from |-> cursor, upto |-> cursor + read]
    /\ UNCHANGED <<mic, input, buffered, nextStart, pump, heardVars, gateVars,
                   cursor, covered>>

\* Faulty variant: the cursor moves past what the window could hold.
PassSucceedsToTheEnd ==
    /\ ~NoPass
    /\ covered' = covered \cup (pass.from + 1)..pass.upto
    /\ cursor' = Len(transcript)
    /\ pass' = [from |-> 0, upto |-> 0]
    /\ UNCHANGED <<mic, input, buffered, nextStart, pump, heardVars, gateVars>>

PassSucceeds ==
    /\ ~NoPass
    /\ covered' = covered \cup (pass.from + 1)..pass.upto
    /\ cursor' = pass.upto
    /\ pass' = [from |-> 0, upto |-> 0]
    /\ UNCHANGED <<mic, input, buffered, nextStart, pump, heardVars, gateVars>>

\* A failed pass leaves the cursor: the next tick reads the window again.
PassFails ==
    /\ ~NoPass
    /\ pass' = [from |-> 0, upto |-> 0]
    /\ UNCHANGED <<mic, input, buffered, nextStart, pump, heardVars, gateVars,
                   cursor, covered>>

CaptureNext ==
    \/ \E n \in 1..Step : PushPcm(n)
    \/ PausePump
    \/ ResumePump
    \/ StopPump
    \/ PumpChecks
    \/ Decodes
    \/ Gated
    \/ DecodeFails
    \/ PollFeeds
    \/ FlushStarts
    \/ FlushEnds
    \/ FlushFeeds
    \/ PassStarts
    \/ PassSucceeds
    \/ PassFails

CaptureSpec == CaptureInit /\ [][CaptureNext]_captureVars

-----------------------------------------------------------------------------
(* Properties *)

\* A word that starts where the one before it ends and reaches out of an overlap
\* whose start cuts some word.  When the window that starts there mishears or
\* misses the cut word, its text cannot be put to the held words, and the start
\* of this one is taken for audio already held (finalize.rs:88-91,
\* "boundary-equality resolving to DROP ... under-commit").
UnderCommits(i) ==
    /\ decoder = "aligned"
    /\ i > 1
    /\ Spoken[i].from = Spoken[i - 1].to
    /\ \E n \in 1..MaxAudio :
         /\ \E j \in 1..(i - 1) :
              Spoken[j].from < n * Step /\ n * Step < Spoken[j].to
         /\ Spoken[i].from <= n * Step + Overlap
         /\ n * Step + Overlap < Spoken[i].to

In(i, words) == \E k \in 1..Len(words) : words[k].word = i

\* Words with spans of their own are committed in order and at most once,
\* however two decodes of an overlap disagree and whatever windows fail between;
\* and as long as a decoder understands what is whole in its window, coarse or
\* not, no word is skipped but by the documented under-commit
\* (finalize.rs:73-83, 103; lib.rs:21).  A coarse one may repeat the overlap: the
\* degraded path of finalize.rs:97-102.
EachWordOnce ==
    LET committed == transcript \o out \o held
        upTo(n) == 1..committed[n].word
    IN /\ decoder # "coarse" =>
            \A i, j \in 1..Len(committed) :
                i < j => committed[i].word < committed[j].word
       /\ ~Rough => \A n \in 1..Len(committed) : \A i \in upTo(n) :
                        In(i, committed) \/ UnderCommits(i)

\* Once the stream has ended after good decodes, every word said is in the
\* transcript, but for the same (lib.rs:211-212).
NothingLeftBehind ==
    pump = "over" /\ ~Rough =>
        \A i \in 1..Len(Spoken) :
            Spoken[i].to <= buffered => In(i, transcript) \/ UnderCommits(i)

\* Everything before the cursor was sent to a pass that succeeded
\* (live.rs:69-74).
LiveSkipsNothing == 1..cursor \subseteq covered

\* The pump is parked only while there is nothing to take up or the gate is
\* down, and never once stopped: no wake-up is lost between pushes, pauses,
\* resumes and the stop (session.rs:214-219, 724-728).
ParkedForAReason == pump = "waiting" => ~stop /\ (~wake \/ paused)

\* The background gate as documented: "a decode already in flight completes
\* (drains) and the loop then parks - no new work is submitted to Metal while
\* backgrounded" (session.rs:713-714), so at most that one.
OnlyTheDecodeInFlight == late <= 1

=============================================================================
