------------------------------- MODULE AgentLoop ------------------------------
(***************************************************************************)
(* Processing one walk, attempt after attempt: the LLM half of             *)
(* SessionProcessor::process (murmur-core/src/pipeline/mod.rs), the agent  *)
(* loop it drives (harness/src/agent.rs), its tools (pipeline/tools.rs)    *)
(* and what it writes.  No lock is held while the model is asked or        *)
(* between two tools, so the walk may be deleted at any point; the process *)
(* may die at any point; the store's statements may fail at the exit.      *)
(*                                                                         *)
(* A completion costs one unit.  Of the tools, update_memory is            *)
(* MemoryStore's; rows of other origins are SessionStore's.                *)
(***************************************************************************)
EXTENDS Naturals, Sequences, FiniteSets, SequencesExt, SeqFolds

CONSTANTS
    Blocks,         \* what a response may consist of
    MaxBlocks,      \* bound on the blocks of one response
    MaxTurns,       \* AgentConfig.max_turns (16 in the code)
    MaxAttempts,    \* bound on the calls of process()
    Lower(_)        \* SQLite's lower()

ASSUME AgentAssumption ==
    /\ {MaxBlocks, MaxTurns, MaxAttempts} \subseteq Nat
    /\ \A b \in Blocks : b.type = "use" => b.valid \in BOOLEAN

Attempts == 1..MaxAttempts

VARIABLES
    walk,       \* sessions.status, or "deleted"
    attempt,    \* how many calls of process() have begun
    phase,      \* where the one that runs is
    messages,   \* the conversation the next request carries
    pending,    \* tool uses of the last response not yet executed
    results,    \* tool results not yet sent
    spent,      \* usage in Agent::run
    usage,      \* usage in process()
    created,    \* the created_ids sink
    items,      \* live authoritative items, by the tool use that made each
    reports,    \* live report artifacts, by attempt
    cards,      \* contacts
    ledger,     \* llm_usage rows of purpose "processing"
    outcome,    \* history: what each attempt wrote at its exit
    billed      \* history: completions each attempt was answered

agentVars == <<walk, attempt, phase, messages, pending, results, spent, usage,
               created, items, reports, cards, ledger, outcome, billed>>

loopVars == <<messages, pending, results, spent>>
rowVars == <<items, reports, cards>>

-----------------------------------------------------------------------------
(* Messages *)

User(answers) == [role |-> "user", blocks |-> answers]
Assistant(content) == [role |-> "assistant", blocks |-> content]

\* The uses of one response get ids of their own from the provider.
Identified(content, turn) ==
    [k \in DOMAIN content |-> [block |-> content[k], id |-> <<turn, k>>]]

IsUse(b) == b.block.type = "use"

ToolUses(content) == Keep(content, {b \in Range(content) : IsUse(b)})

Result(use, ok) == [block |-> [type |-> "result"], id |-> use.id, ok |-> ok]

\* Turns taken: every turn but the last pushes two messages.
Turns == Len(messages) \div 2

AgentInit ==
    /\ walk = "awaiting"
    /\ attempt = 0
    /\ phase = "rest"
    /\ messages = <<>> /\ pending = <<>> /\ results = <<>>
    /\ spent = 0 /\ usage = 0
    /\ created = {} /\ items = {} /\ reports = {} /\ cards = {}
    /\ ledger = {}
    /\ outcome = [a \in Attempts |-> "none"]
    /\ billed = [a \in Attempts |-> 0]

-----------------------------------------------------------------------------
(* The app around it *)

\* delete_session: the walk's items and artifacts go with it, contacts stay.
DeleteMeanwhile ==
    /\ walk # "deleted"
    /\ walk' = "deleted"
    /\ items' = {}
    /\ reports' = {}
    /\ UNCHANGED <<attempt, phase, loopVars, usage, created, cards, ledger, outcome, billed>>

ProcessDies ==
    /\ phase # "rest"
    /\ phase' = "rest"
    /\ outcome' = [outcome EXCEPT ![attempt] = "lost"]
    /\ UNCHANGED <<walk, attempt, loopVars, usage, created, rowVars, ledger, billed>>

-----------------------------------------------------------------------------
(* process() up to the first request *)

\* Phase 0 sweeps what a failed attempt left of its own; an empty transcript
\* is not sent.
Begin ==
    /\ phase = "rest"
    /\ walk \in {"awaiting", "failed"}
    /\ attempt < MaxAttempts
    /\ attempt' = attempt + 1
    /\ phase' \in {"asking", "finishing"}
    /\ items' = {} /\ reports' = {} /\ created' = {}
    /\ messages' = <<User(<<>>)>>
    /\ pending' = <<>> /\ results' = <<>>
    /\ spent' = 0 /\ usage' = 0
    /\ UNCHANGED <<walk, cards, ledger, outcome, billed>>

-----------------------------------------------------------------------------
(* Agent::run *)

\* The error path that drops the RunError's usage on the floor.
RunFailsFree ==
    /\ phase' = "failing"
    /\ UNCHANGED <<walk, attempt, loopVars, usage, created, rowVars, ledger, outcome, billed>>

\* The loop ends with an error: RunError carries the usage so far, and
\* process() counts it before it passes the error on.
RunFails ==
    /\ usage' = usage + spent
    /\ phase' = "failing"
    /\ UNCHANGED <<walk, attempt, loopVars, created, rowVars, ledger, outcome, billed>>

\* The provider refuses, times out or answers garbage, whatever turn it is.
ProviderFails ==
    /\ phase = "asking"
    /\ Turns < MaxTurns
    /\ RunFails

TurnsRunOut ==
    /\ phase = "asking"
    /\ Turns = MaxTurns
    /\ RunFails

KnownBlocks(content) == Keep(content, {b \in Range(content) : b.block.type # "unknown"})

\* A response: unknown blocks are filtered out, tool uses are executed, and
\* a response without any ends the loop.
ProviderAnswers ==
    /\ phase = "asking"
    /\ Turns < MaxTurns
    /\ spent' = spent + 1
    /\ billed' = [billed EXCEPT ![attempt] = @ + 1]
    /\ \E content \in BoundedSeq(Blocks, MaxBlocks) :
          LET known == KnownBlocks(Identified(content, Turns))
          IN  /\ messages' = Append(messages, Assistant(known))
              /\ pending' = ToolUses(known)
              /\ results' = <<>>
              /\ IF ToolUses(known) = <<>>
                 THEN phase' = "summing" /\ usage' = usage + spent'
                 ELSE phase' = "acting" /\ UNCHANGED usage
    /\ UNCHANGED <<walk, attempt, created, rowVars, ledger, outcome>>

\* One tool answers; the others of the response wait their turn.
Answered(ok) ==
    /\ results' = Append(results, Result(Head(pending), ok))
    /\ pending' = Tail(pending)
    /\ UNCHANGED <<walk, attempt, phase, messages, spent, usage, ledger, outcome, billed>>

\* The next tool use, of the tool named.
Due(tool) ==
    /\ phase = "acting"
    /\ pending # <<>>
    /\ Head(pending).block.tool = tool

\* A tool that inserts the row and forgets the sink.
AddItemUnsunk ==
    /\ Due("add_item")
    /\ LET use == Head(pending)
           ok  == use.block.valid /\ walk # "deleted"
       IN  /\ Answered(ok)
           /\ items' = IF ok THEN items \cup {<<attempt, use.id>>} ELSE items
    /\ UNCHANGED <<created, reports, cards>>

\* add_item: the kind is checked, then the row is written and sunk.
AddItem ==
    /\ Due("add_item")
    /\ LET use == Head(pending)
           ok  == use.block.valid /\ walk # "deleted"
           row == IF ok THEN {<<attempt, use.id>>} ELSE {}
       IN  /\ Answered(ok)
           /\ items' = items \cup row
           /\ created' = created \cup row
    /\ UNCHANGED <<reports, cards>>

\* The cards a name updates, matched the way the tool's description says.
CardsSpelled(name) == {c \in cards : c.name = name}

\* upsert_contact: SELECT by lower(name), then UPDATE or INSERT.
CardsNamed(name) == {c \in cards : Lower(c.name) = Lower(name)}

\* A contact's unknown fields never clear what is known.
UpsertContact ==
    /\ Due("upsert_contact")
    /\ LET call == Head(pending).block
           of   == CardsNamed(call.name)
       IN  /\ Answered(call.valid)
           /\ cards' =
                IF ~call.valid THEN cards
                ELSE IF of = {}
                     THEN cards \cup {[name |-> call.name, known |-> call.known]}
                     ELSE LET card == CHOOSE c \in of : TRUE
                          IN  (cards \ {card}) \cup {[card EXCEPT !.known = @ \cup call.known]}
    /\ UNCHANGED <<created, items, reports>>

WriteReport ==
    /\ Due("write_report")
    /\ LET use == Head(pending)
           ok  == use.block.valid /\ walk # "deleted"
       IN  /\ Answered(ok)
           /\ reports' = IF ok THEN reports \cup {<<attempt, use.id>>} ELSE reports
    /\ UNCHANGED <<created, items, cards>>

\* ToolRegistry::execute: a name nobody registered is the model's to hear of.
UnknownTool ==
    /\ Due("no_such_tool")
    /\ Answered(FALSE)
    /\ UNCHANGED <<created, rowVars>>

\* The loop that sends only what succeeded.
SendGoodResults ==
    /\ phase = "acting"
    /\ pending = <<>>
    /\ messages' = Append(messages, User(Keep(results, {r \in Range(results) : r.ok})))
    /\ phase' = "asking"
    /\ UNCHANGED <<walk, attempt, pending, results, spent, usage, created, rowVars,
                   ledger, outcome, billed>>

SendResults ==
    /\ phase = "acting"
    /\ pending = <<>>
    /\ messages' = Append(messages, User(results))
    /\ phase' = "asking"
    /\ UNCHANGED <<walk, attempt, pending, results, spent, usage, created, rowVars,
                   ledger, outcome, billed>>

-----------------------------------------------------------------------------
(* The summary and the exit *)

\* summarize: its cost counts before its content is judged.
SummaryAnswers ==
    /\ phase = "summing"
    /\ billed' = [billed EXCEPT ![attempt] = @ + 1]
    /\ usage' = usage + 1
    /\ phase' \in {"finishing", "failing"}
    /\ UNCHANGED <<walk, attempt, loopVars, created, rowVars, ledger, outcome>>

SummaryFails ==
    /\ phase = "summing"
    /\ phase' = "failing"
    /\ UNCHANGED <<walk, attempt, loopVars, usage, created, rowVars, ledger, outcome, billed>>

Leave(status, kept) ==
    /\ phase' = "rest"
    /\ walk' = status
    /\ items' = items \cap kept
    /\ ledger' = ledger \cup {[attempt |-> attempt, tokens |-> usage]}
    /\ outcome' = [outcome EXCEPT ![attempt] = status]
    /\ UNCHANGED <<attempt, loopVars, usage, created, reports, cards, billed>>

\* finish_session_processed: the swap, the status and the cost in one
\* transaction.
ExitProcessed == phase = "finishing" /\ walk # "deleted" /\ Leave("processed", created)

\* finish_session_failed: the status and the cost; the leftovers stay.
ExitFailed == phase = "failing" /\ walk # "deleted" /\ Leave("failed", items)

\* The transaction fails, or finds the walk deleted: nothing is written.
ExitWriteFails ==
    /\ phase \in {"finishing", "failing"}
    /\ phase' = "rest"
    /\ outcome' = [outcome EXCEPT ![attempt] = "lost"]
    /\ UNCHANGED <<walk, attempt, loopVars, usage, created, rowVars, ledger, billed>>

AgentNext ==
    \/ DeleteMeanwhile \/ ProcessDies
    \/ Begin
    \/ ProviderFails \/ TurnsRunOut \/ ProviderAnswers
    \/ AddItem \/ UpsertContact \/ WriteReport \/ UnknownTool
    \/ SendResults
    \/ SummaryAnswers \/ SummaryFails
    \/ ExitProcessed \/ ExitFailed \/ ExitWriteFails

AgentSpec == AgentInit /\ [][AgentNext]_agentVars

-----------------------------------------------------------------------------
(* What processing promises *)

AgentTypeOK ==
    /\ walk \in {"awaiting", "failed", "processed", "deleted"}
    /\ attempt \in 0..MaxAttempts
    /\ phase \in {"rest", "asking", "acting", "summing", "finishing", "failing"}
    /\ phase # "rest" => attempt \in Attempts
    /\ spent \in Nat /\ usage \in Nat
    /\ outcome \in [Attempts -> {"none", "lost", "processed", "failed"}]
    /\ billed \in [Attempts -> Nat]

\* A request the provider will not refuse: the roles alternate from the user's
\* first words to the user's last, nothing unknown is echoed, and every tool
\* use is answered in the very next message, once and in order, whether the
\* tool failed, does not exist or met a deleted walk (Agent::run).
RequestsAreWellFormed ==
    phase = "asking" =>
        /\ Len(messages) % 2 = 1
        /\ \A k \in DOMAIN messages :
              /\ messages[k].role = (IF k % 2 = 1 THEN "user" ELSE "assistant")
              /\ \A b \in DOMAIN messages[k].blocks : messages[k].blocks[b].block.type # "unknown"
        /\ \A k \in DOMAIN messages : messages[k].role = "assistant" =>
              LET uses == ToolUses(messages[k].blocks)
                  sent == messages[k + 1].blocks
              IN  /\ uses # <<>>
                  /\ [n \in DOMAIN sent |-> sent[n].id] = [n \in DOMAIN uses |-> uses[n].id]

\* R9: "cost logged on the failure path too".  A walk is marked Processed or
\* Failed by an attempt together with one row that holds all the attempt was
\* billed, whichever call, turn or answer ended it.
CostIsLogged ==
    \A a \in Attempts :
        LET rows == {r \in ledger : r.attempt = a}
        IN  IF outcome[a] \in {"processed", "failed"}
            THEN rows = {[attempt |-> a, tokens |-> billed[a]]}
            ELSE rows = {}

\* The add_item uses among blocks that sent answers with success.
AddedBy(blocks, sent) ==
    {u.id : u \in {u \in Range(blocks) :
                      /\ IsUse(u) /\ u.block.tool = "add_item"
                      /\ \E r \in Range(sent) : r.id = u.id /\ r.ok}}

\* The add_item uses of a conversation the model was told had worked.
ToldAdded(ms) ==
    UNION {AddedBy(ms[k].blocks, ms[k + 1].blocks) :
              k \in {k \in 1..(Len(ms) - 1) : ms[k].role = "assistant"}}

\* The board of a processed walk is what the model was told it is: the items
\* of the attempt that finished whose add_item was answered with success, and
\* nothing of the attempts that failed, died or lost their exit write.
BoardIsWhatWasTold ==
    walk = "processed" => items = {<<attempt, id>> : id \in ToldAdded(messages)}

\* A person has one card however the model spells the name from walk to walk
\* and from attempt to attempt (story 7: contact cards auto-built).
OneCardPerName ==
    \A c, d \in cards : Lower(c.name) = Lower(d.name) => c = d

=============================================================================
