----------------------------- MODULE MemoryStore ----------------------------
(***************************************************************************)
(* The assistant's memory: one value shared by the agent's update_memory  *)
(* tool, the vocabulary editor and reflection (crates/harness/src/memory, *)
(* reflection; crates/ffi/src/vocabulary.rs; murmur-core's coordinator),  *)
(* and the file it is saved to.  Every caller changes the value under the *)
(* lock and saves its own copy after releasing it; a save rotates three   *)
(* snapshots, writes one shared temporary file and renames it.  The       *)
(* process may be killed between any two of these steps.                  *)
(***************************************************************************)
EXTENDS Naturals, Sequences, FiniteSets, SequencesExt, SeqFolds

CONSTANTS
    Texts,          \* the fact texts that occur
    Terms,          \* those of the vocabulary section; the rest are people's
    Key,            \* text -> what two spellings of one term share
    WordsOf,        \* text -> its words
    Pack,           \* the seed pack's terms, in order
    Stances,        \* the sources the tool is called with
    Answers,        \* what a reflection may write, as sequences of texts
    WordCap, TermCap, TermWords, SeedMax,
    Warmup, MaxInterval, MaxLow,
    Yields,         \* the steps of a call during which another may go on
    MaxEdits, MaxReflections, MaxSessions

\* FactSource, by rank.
Ranks == [inferred |-> 0, stated |-> 1, corrected |-> 2]
Sources == DOMAIN Ranks

ASSUME MemoryAssumption ==
    /\ Terms \subseteq Texts
    /\ Stances \subseteq Sources
    /\ WordsOf \in [Texts -> Nat \ {0}]
    /\ Pack \in Seq(Terms)
    /\ Answers \subseteq Seq(Texts)
    /\ {WordCap, TermCap, TermWords, SeedMax, MaxLow} \subseteq Nat
    /\ {MaxEdits, MaxReflections, MaxSessions} \subseteq Nat

\* Calls never overlap, as the tool's comment asks.
Serial == Yields = {}

VARIABLES
    memory,     \* the value behind the mutex
    files,      \* main, tmp and the snapshots .1, the newest, to .3
    step,       \* what each caller is doing
    copy,       \* the clone it saves
    handle,     \* which file its open descriptor names
    signals,    \* the reflection_state row
    edits,      \* mutations so far; dates memory and the calls
    acked,      \* history: the newest version a caller was told is saved
    packed,     \* history: a caller was told of a memory holding the marker
    undo        \* history: what the last reflection replaced, the rotations
                \* begun since, and whether one failed to take it along

memoryVars == <<memory, files, step, copy, handle, signals,
                edits, acked, packed, undo>>

Callers == {"agent", "editor", "reflection"}

Empty == [facts |-> <<>>, seeded |-> FALSE, version |-> 0]
Torn == [torn |-> TRUE]
Missing == [missing |-> TRUE]
Readable(file) == file \notin {Torn, Missing}

-----------------------------------------------------------------------------
(* The value: Memory *)

\* The clock of the n-th call: it counts seconds, and two calls may share one.
Second(n) == n \div 2

Fact(text, source, at) == [text |-> text, source |-> source, at |-> at]

Remember(m, text, source, at) ==
    IF \E i \in DOMAIN m.facts : m.facts[i].text = text
    THEN [m EXCEPT !.facts = [i \in DOMAIN @ |->
            IF @[i].text # text THEN @[i]
            ELSE Fact(text, IF Ranks[source] > Ranks[@[i].source]
                            THEN source ELSE @[i].source, at)]]
    ELSE [m EXCEPT !.facts = Append(@, Fact(text, source, at))]

Forget(m, text) ==
    [m EXCEPT !.facts = Keep(@, {f \in ToSet(@) : f.text # text})]

\* clamp_to_cap evicts the lowest (rank, last touched, section) first, the
\* earlier of two equals first.  People sort before vocabulary.
EvictedBefore(m, i, j) ==
    LET f == m.facts[i]
        g == m.facts[j]
        section(h) == IF h.text \in Terms THEN 1 ELSE 0
        keyOf(h) == <<Ranks[h.source], h.at, section(h)>>
        less(p, q) == \E k \in 1..3 :
                        /\ p[k] < q[k]
                        /\ \A l \in 1..(k - 1) : p[l] = q[l]
    IN less(keyOf(f), keyOf(g)) \/ (keyOf(f) = keyOf(g) /\ i < j)

WordCount(facts) == SumOf([i \in DOMAIN facts |-> WordsOf[facts[i].text]])

\* The facts left when the first n of the eviction order are gone.
LessFirst(m, n) ==
    LET place(i) == Cardinality({j \in DOMAIN m.facts : EvictedBefore(m, j, i)})
    IN Keep(m.facts, {m.facts[i] : i \in {i \in DOMAIN m.facts : place(i) >= n}})

Clamp(m) ==
    LET fits == {n \in 0..Len(m.facts) :
                    WordCount(LessFirst(m, n)) <= WordCap}
    IN [m EXCEPT !.facts = LessFirst(m,
            CHOOSE n \in fits : \A o \in fits : n <= o)]

TermFacts(m) == Keep(m.facts, {f \in ToSet(m.facts) : f.text \in Terms})
Spellings(m, text) ==
    Keep(m.facts, {f \in ToSet(m.facts) : f.text \in Terms /\ Key[f.text] = Key[text]})

\* add_vocabulary_term, and what it answers.
TermAnswer(m, text) ==
    CASE WordsOf[text] > TermWords -> "too_long"
      [] Spellings(m, text) # <<>> -> "duplicate"
      [] Len(TermFacts(m)) >= TermCap -> "full"
      [] OTHER -> "added"

AddTerm(m, text, at) ==
    CASE TermAnswer(m, text) = "duplicate" ->
            Remember(m, Head(Spellings(m, text)).text, "stated", at)
      [] TermAnswer(m, text) = "added" -> Remember(m, text, "stated", at)
      [] OTHER -> m

\* The pack's terms through the same funnel, until SeedMax of them are new.
Offered(m, at) ==
    LET upTo[n \in 0..Len(Pack)] ==
            IF n = 0 THEN [m |-> m, added |-> 0]
            ELSE LET s == upTo[n - 1]
                 IN  IF s.added = SeedMax THEN s
                     ELSE [m |-> AddTerm(s.m, Pack[n], at),
                           added |-> IF TermAnswer(s.m, Pack[n]) = "added"
                                     THEN s.added + 1 ELSE s.added]
    IN upTo[Len(Pack)].m

\* Faulty variant: a seed pass forgets to clamp.
SeedPackLoose(m, at) == [Offered(m, at) EXCEPT !.seeded = TRUE]

\* A whole pack, the marker, and the cap.
SeedPack(m, at) == Clamp([Offered(m, at) EXCEPT !.seeded = TRUE])

RemoveTerm(m, text) ==
    IF Spellings(m, text) = <<>> THEN m
    ELSE Forget(m, Head(Spellings(m, text)).text)

\* The facts of an answer; those repeated word for word keep their provenance.
Rewritten(old, answer, at) ==
    LET prior(text) == Keep(old.facts, {f \in ToSet(old.facts) : f.text = text})
        upTo[n \in 0..Len(answer)] ==
            IF n = 0 THEN Empty
            ELSE LET known == prior(answer[n])
                 IN  IF known = <<>>
                     THEN Remember(upTo[n - 1], answer[n], "inferred", at)
                     ELSE Remember(upTo[n - 1], answer[n], known[1].source, known[1].at)
    IN upTo[Len(answer)]

\* Faulty variant: reflection drops the internal sections it never showed the model.
ReflectedBare(old, answer, at) == Clamp(Rewritten(old, answer, at))

\* What a reflection makes of an answer: internal sections are carried over,
\* the cap holds.
Reflected(old, answer, at) ==
    Clamp([Rewritten(old, answer, at) EXCEPT !.seeded = old.seeded])

Wipes(old, answer) == old.facts # <<>> /\ answer = <<>>

LowChurn(old, new) ==
    {f.text : f \in ToSet(old.facts)} = {f.text : f \in ToSet(new.facts)}

RequiredInterval ==
    IF signals.completed < Warmup THEN 1
    ELSE LET doubled == 2 ^ signals.low
         IN IF doubled < MaxInterval THEN doubled ELSE MaxInterval

ShouldReflect == signals.since > 0 /\ signals.since >= RequiredInterval

-----------------------------------------------------------------------------
(* A save, one file operation at a time *)

MemoryInit ==
    /\ memory = Empty
    /\ files = [main |-> Missing, tmp |-> Missing,
                 snaps |-> [k \in 1..3 |-> Missing]]
    /\ step = [c \in Callers |-> "idle"]
    /\ copy = [c \in Callers |-> Empty]
    /\ handle = [c \in Callers |-> "none"]
    /\ signals = [since |-> 0, completed |-> 0, low |-> 0]
    /\ edits = 0
    /\ acked = 0
    /\ packed = FALSE
    /\ undo = [memory |-> Empty, rotations |-> 4, dropped |-> FALSE]

\* Every other call is at rest, or where another may go on.
HasTurn(c) == \A other \in Callers \ {c} : step[other] \in {"idle"} \cup Yields

MayCall(c) == step[c] = "idle" /\ HasTurn(c)

\* Mutate under the lock, clone, unlock: m is saved from here on.
Change(c, m) ==
    LET new == [m EXCEPT !.version = edits + 1]
    IN /\ edits < MaxEdits
       /\ edits' = edits + 1
       /\ memory' = new
       /\ copy' = [copy EXCEPT ![c] = new]
       /\ step' = [step EXCEPT ![c] = "shift2"]

\* rotate_snapshots: .2 becomes .3, .1 becomes .2, main is copied to .1.  The
\* error of each of the three is ignored, and the save goes on.
Shift(k) ==
    \E stays \in IF files.snaps[k] = Missing THEN {TRUE} ELSE BOOLEAN :
        /\ files' = IF stays THEN files
                    ELSE [files EXCEPT !.snaps[k + 1] = files.snaps[k],
                                       !.snaps[k] = Missing]
        /\ undo' = [undo EXCEPT
                !.rotations = IF k = 2 /\ @ < 4 THEN @ + 1 ELSE @,
                !.dropped = @ \/ (stays /\ files.snaps[k] = undo.memory)]

RotateThird(c) ==
    /\ step[c] \in {"shift2", "shift2_pre"}
    /\ Shift(2)
    /\ step' = [step EXCEPT ![c] =
            IF @ = "shift2" THEN "shift1" ELSE "shift1_pre"]
    /\ UNCHANGED <<memory, copy, handle, signals, edits, acked, packed>>

RotateSecond(c) ==
    /\ step[c] \in {"shift1", "shift1_pre"}
    /\ Shift(1)
    /\ step' = [step EXCEPT ![c] =
            IF @ = "shift1" THEN "snap" ELSE "snap_pre"]
    /\ UNCHANGED <<memory, copy, handle, signals, edits, acked, packed>>

\* A copy that fails leaves .1 as it was, or part of it.
Snap(c) ==
    /\ step[c] \in {"snap", "snap_pre"}
    /\ \E body \in IF files.main = Missing THEN {files.snaps[1]}
                  ELSE {files.main, files.snaps[1], Torn} :
         /\ files' = [files EXCEPT !.snaps[1] = body]
         /\ undo' = [undo EXCEPT !.dropped =
                @ \/ (files.main = undo.memory /\ body # files.main)]
    /\ step' = [step EXCEPT ![c] = IF @ = "snap" THEN "open" ELSE "open_pre"]
    /\ UNCHANGED <<memory, copy, handle, signals, edits, acked, packed>>

\* Faulty variant: the temporary file is left out: main itself is written.
OpenMain(c) ==
    /\ step[c] \in {"open", "open_pre"}
    /\ files' = [files EXCEPT !.tmp = Torn, !.main = Torn]
    /\ handle' = [handle EXCEPT ![c] = "tmp"]
    /\ step' = [step EXCEPT ![c] =
            IF @ = "open" THEN "write" ELSE "write_pre"]
    /\ UNCHANGED <<memory, copy, signals, edits, acked, packed, undo>>

\* fs::write creates or truncates the shared temporary file ...
OpenTmp(c) ==
    /\ step[c] \in {"open", "open_pre"}
    /\ files' = [files EXCEPT !.tmp = Torn]
    /\ handle' = [handle EXCEPT ![c] = "tmp"]
    /\ step' = [step EXCEPT ![c] =
            IF @ = "open" THEN "write" ELSE "write_pre"]
    /\ UNCHANGED <<memory, copy, signals, edits, acked, packed, undo>>

\* ... and writes through its own descriptor, wherever a rename has moved the
\* file meanwhile.  Over another caller's text, the longer one's tail stays.
WriteTmp(c) ==
    /\ step[c] \in {"write", "write_pre"}
    /\ \E body \in {copy[c], Torn} :
         /\ body = Torn => handle[c] # "none" /\ files[handle[c]] # Torn
         /\ files' = CASE handle[c] = "tmp" -> [files EXCEPT !.tmp = body]
                       [] handle[c] = "main" -> [files EXCEPT !.main = body]
                       [] OTHER -> files
    /\ handle' = [handle EXCEPT ![c] = "none"]
    /\ step' = [step EXCEPT ![c] =
            IF @ = "write" THEN "rename" ELSE "rename_pre"]
    /\ UNCHANGED <<memory, copy, signals, edits, acked, packed, undo>>

\* A descriptor on the temporary file now names main, one on main nothing.
Renamed ==
    /\ files' = [files EXCEPT !.main = files.tmp, !.tmp = Missing]
    /\ handle' = [c \in Callers |-> CASE handle[c] = "tmp" -> "main"
                                      [] OTHER -> "none"]

\* The save succeeds and the caller is answered.
Acknowledge(c) ==
    /\ step[c] = "rename"
    /\ c # "reflection"
    /\ files.tmp # Missing
    /\ Renamed
    /\ acked' = IF copy[c].version > acked THEN copy[c].version ELSE acked
    /\ packed' = (packed \/ copy[c].seeded)
    /\ step' = [step EXCEPT ![c] = "idle"]
    /\ copy' = [copy EXCEPT ![c] = Empty]
    /\ UNCHANGED <<memory, signals, edits, undo>>

\* Any step of a save may fail, the rename also because another caller took
\* the file; the error is returned and the changed memory stays in use.
SaveFails(c) ==
    /\ step[c] \in {"open", "write", "rename",
                    "open_pre", "write_pre", "rename_pre"}
    /\ step' = [step EXCEPT ![c] = "idle"]
    /\ copy' = [copy EXCEPT ![c] = Empty]
    /\ handle' = [handle EXCEPT ![c] = "none"]
    /\ UNCHANGED <<memory, files, signals, edits, acked, packed, undo>>

\* The process is killed and launched again: load().unwrap_or_default().
KillAndLaunch ==
    /\ memory' = IF Readable(files.main) THEN files.main ELSE Empty
    /\ step' = [c \in Callers |-> "idle"]
    /\ copy' = [c \in Callers |-> Empty]
    /\ handle' = [c \in Callers |-> "none"]
    /\ UNCHANGED <<files, signals, edits, acked, packed, undo>>

-----------------------------------------------------------------------------
(* The callers *)

ToolRemember(text, source) ==
    /\ MayCall("agent")
    /\ Change("agent", Clamp(Remember(memory, text, source, Second(edits))))
    /\ UNCHANGED <<files, handle, signals, acked, packed, undo>>

ToolForget(text) ==
    /\ MayCall("agent")
    /\ Forget(memory, text) # memory
    /\ Change("agent", Forget(memory, text))
    /\ UNCHANGED <<files, handle, signals, acked, packed, undo>>

AddVocabularyTerm(text) ==
    /\ MayCall("editor")
    /\ TermAnswer(memory, text) \in {"added", "duplicate"}
    /\ Change("editor", Clamp(AddTerm(memory, text, Second(edits))))
    /\ UNCHANGED <<files, handle, signals, acked, packed, undo>>

\* A pack seeds once: a repeated call neither changes memory nor saves.
SeedVocabulary ==
    /\ MayCall("editor")
    /\ ~memory.seeded
    /\ Change("editor", SeedPack(memory, Second(edits)))
    /\ UNCHANGED <<files, handle, signals, acked, packed, undo>>

RemoveVocabularyTerm(text) ==
    /\ MayCall("editor")
    /\ Change("editor", RemoveTerm(memory, text))
    /\ UNCHANGED <<files, handle, signals, acked, packed, undo>>

\* record_session_completed, from the end of a processed session.
SessionEnds ==
    /\ signals.since < MaxSessions
    /\ step["reflection"] \in {"idle"} \cup Yields
    /\ signals' = [signals EXCEPT !.since = @ + 1]
    /\ UNCHANGED <<memory, files, step, copy, handle, edits, acked,
                   packed, undo>>

\* Faulty variant: reflection starts without saving what it is about to replace.
ReflectAtOnce ==
    /\ MayCall("reflection")
    /\ ShouldReflect
    /\ signals.completed < MaxReflections
    /\ copy' = [copy EXCEPT !["reflection"] = memory]
    /\ step' = [step EXCEPT !["reflection"] = "asking"]
    /\ UNCHANGED <<memory, files, handle, signals, edits, acked,
                   packed, undo>>

\* maybe_reflect: both gates, then the current memory is cloned and saved as
\* the rollback point.
Reflect ==
    /\ MayCall("reflection")
    /\ ShouldReflect
    /\ signals.completed < MaxReflections
    /\ copy' = [copy EXCEPT !["reflection"] = memory]
    /\ step' = [step EXCEPT !["reflection"] = "shift2_pre"]
    /\ UNCHANGED <<memory, files, handle, signals, edits, acked,
                   packed, undo>>

RollbackSaved ==
    /\ step["reflection"] = "rename_pre"
    /\ files.tmp # Missing
    /\ Renamed
    /\ step' = [step EXCEPT !["reflection"] = "asking"]
    /\ UNCHANGED <<memory, copy, signals, edits, acked, packed, undo>>

ReflectionRefused ==
    /\ step["reflection"] = "asking"
    /\ step' = [step EXCEPT !["reflection"] = "idle"]
    /\ copy' = [copy EXCEPT !["reflection"] = Empty]
    /\ UNCHANGED <<memory, files, handle, signals, edits, acked,
                   packed, undo>>

\* The answer replaces the whole memory and is saved in its turn.
ReflectionAnswers(answer) ==
    LET old == copy["reflection"]
        new == Reflected(old, answer, Second(old.version))
    IN /\ step["reflection"] = "asking"
       /\ HasTurn("reflection")
       /\ ~Wipes(old, answer)
       /\ Change("reflection", new)
       /\ undo' = [memory |-> old, rotations |-> 0, dropped |-> FALSE]
       /\ UNCHANGED <<files, handle, signals, acked, packed>>

\* The new memory is on disk; finish_reflection counts it, or fails and does
\* not.
ReflectionSaved(counted) ==
    /\ step["reflection"] = "rename"
    /\ files.tmp # Missing
    /\ Renamed
    /\ acked' = IF copy["reflection"].version > acked
                THEN copy["reflection"].version ELSE acked
    /\ signals' = IF ~counted THEN signals
                  ELSE [since |-> 0, completed |-> signals.completed + 1,
                        low |-> IF LowChurn(undo.memory, copy["reflection"])
                                THEN (IF signals.low < MaxLow
                                      THEN signals.low + 1 ELSE MaxLow)
                                ELSE 0]
    /\ packed' = (packed \/ copy["reflection"].seeded)
    /\ step' = [step EXCEPT !["reflection"] = "idle"]
    /\ copy' = [copy EXCEPT !["reflection"] = Empty]
    /\ UNCHANGED <<memory, edits, undo>>

MemoryNext ==
    \/ \E c \in Callers : \/ RotateThird(c)
                          \/ RotateSecond(c)
                          \/ Snap(c)
                          \/ OpenTmp(c)
                          \/ WriteTmp(c)
                          \/ Acknowledge(c)
                          \/ SaveFails(c)
    \/ KillAndLaunch
    \/ \E text \in Texts, source \in Stances : ToolRemember(text, source)
    \/ \E text \in Texts : ToolForget(text)
    \/ \E text \in Terms : AddVocabularyTerm(text) \/ RemoveVocabularyTerm(text)
    \/ SeedVocabulary
    \/ SessionEnds
    \/ Reflect
    \/ RollbackSaved
    \/ ReflectionRefused
    \/ \E answer \in Answers : ReflectionAnswers(answer)
    \/ \E counted \in BOOLEAN : ReflectionSaved(counted)

MemorySpec == MemoryInit /\ [][MemoryNext]_memoryVars

-----------------------------------------------------------------------------
(* Properties *)

\* Every mutation a caller was told of is on disk, in a file that can be
\* read: "Every mutation is persisted immediately via the store"
\* (tool.rs:19), whatever fails or is killed in between.
AckedOnDisk ==
    acked > 0 => Readable(files.main) /\ files.main.version >= acked

\* Once a seed pass was answered, the marker is never lost, not to a
\* reflection that replaces the memory nor to a restart, so that no term the
\* user deleted is seeded again (vocabulary.rs:82-83).
SeededForGood == packed => memory.seeded

\* "guaranteeing a rollback point that this reflection cannot erode"
\* (coordinator.rs:104-105): what a reflection replaced can be read from main
\* or a snapshot, until three later saves have begun.  A rotation that fails
\* refutes it.
RollbackPoint ==
    undo.rotations <= 3 => undo.memory \in {files.main} \cup Range(files.snaps)

\* The rollback point is kept through failed saves, kills halfway through a
\* rotation and rotations that fail, as long as it is not the replaced memory
\* itself that one failed to rename or copy (store.rs:24-35).
RollbackPointUnlessDropped == ~undo.dropped => RollbackPoint

\* Memory never outgrows its cap, whichever caller wrote last (mod.rs:8, 233).
WithinWordCap == WordCount(memory.facts) <= WordCap

=============================================================================
