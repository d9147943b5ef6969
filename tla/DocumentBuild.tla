---------------------------- MODULE DocumentBuild ---------------------------
(***************************************************************************)
(* Building documents from processed walks: DocumentBuilder::build and its *)
(* export build_document (murmur-core/src/pipeline/document.rs,            *)
(* store/documents.rs, ffi/src/document_build.rs).  A tap reads its walk   *)
(* under one lock, then waits for up to two model calls with no lock held, *)
(* then mints a number and writes the document in one transaction.  Taps   *)
(* of the same or other walks run meanwhile, and so do edits of the board  *)
(* and the delete of the walk; the process may be killed.                  *)
(*                                                                         *)
(* An item is what the build tells apart: its kind and the amounts its     *)
(* title speaks, of which only a single total is read.  Which line an      *)
(* amount moves to is SpokenPrices; here it stays on its own line.         *)
(***************************************************************************)
EXTENDS DocumentTypes, SpokenAmounts, SequencesExt, SeqFolds, TLC

CONSTANTS
    Walks,          \* processed sessions
    TemplateOf,     \* the template of each walk
    Items,          \* item ids, of any walk
    ItemKinds,      \* kinds of items on the boards
    Titles,         \* the amounts a title may speak, in order
    NoAmount,       \* the null of an amount; a spoken $0 is not null
    StartBoards,    \* what the walks may have captured
    Replies,        \* price_items rows the model may send, in order
    Taps,           \* calls of build_document
    Kinds,          \* document kinds asked for
    MaxEdits,       \* bound on the board edits
    MaxFaults       \* bound on the store statements that fail

ItemRows == [kind : ItemKinds, money : Titles]

Boards == UNION {[S -> ItemRows] : S \in SUBSET Items}

ASSUME DocumentAssumption ==
    /\ IsFiniteSet(Items)
    /\ Titles \subseteq Money
    /\ NoAmount \notin Nat
    /\ StartBoards \subseteq [Walks -> Boards]
    /\ TemplateOf \in [Walks -> Templates]
    /\ Kinds \subseteq DOMAIN BuiltinTypes
    /\ MaxEdits \in Nat /\ MaxFaults \in Nat
    /\ \A rows \in Replies : \A k \in DOMAIN rows : rows[k].cents \in Nat

VARIABLES
    board,      \* the live items of each walk: id -> [kind, money]
    deleted,    \* walks that were deleted
    offered,    \* kinds whose type resolves; a removed type does not
    taps,       \* the calls of build_document
    sequence,   \* document_sequences: the last number minted of each kind
    documents,  \* document artifacts, the tombstoned ones included
    spend,      \* usage rows of purpose "document", as the calls they cover
    edits, faults

docVars == <<board, deleted, offered, taps, sequence, documents, spend, edits, faults>>

Idle == [pc |-> "idle"]
Over == [pc |-> "over"]
Failed(walk, fault) == [pc |-> "failed", walk |-> walk, fault |-> fault]

DocInit ==
    /\ board \in StartBoards
    /\ deleted = {}
    /\ offered = Kinds
    /\ taps = [t \in Taps |-> Idle]
    /\ sequence = [kind \in Kinds |-> 0]
    /\ documents = {}
    /\ spend = 0
    /\ edits = 0
    /\ faults = 0

-----------------------------------------------------------------------------
(* The rest of the app *)

\* Review edits: an item added, removed or rewritten while a tap waits.
EditBoard(w) ==
    /\ w \notin deleted
    /\ edits < MaxEdits
    /\ \E i \in Items :
          LET others  == [j \in DOMAIN board[w] \ {i} |-> board[w][j]]
              written == {[j \in DOMAIN board[w] \cup {i} |->
                              IF j = i THEN row ELSE board[w][j]] : row \in ItemRows}
          IN  /\ \A v \in Walks \ {w} : i \notin DOMAIN board[v]
              /\ \E new \in ({others} \cup written) \ {board[w]} :
                    board' = [board EXCEPT ![w] = new]
    /\ edits' = edits + 1
    /\ UNCHANGED <<deleted, offered, taps, sequence, documents, spend, faults>>

\* The walk is deleted, and its documents with it.
Tombstoned(d, w) == [d EXCEPT !.live = d.live /\ d.walk # w]

DeleteWalk(w) ==
    /\ w \notin deleted
    /\ deleted' = deleted \cup {w}
    /\ board' = [board EXCEPT ![w] = << >>]
    /\ documents' = {Tombstoned(d, w) : d \in documents}
    /\ UNCHANGED <<offered, taps, sequence, spend, edits, faults>>

\* The operator removes a document type.
RemoveType(kind) ==
    /\ kind \in offered
    /\ offered' = offered \ {kind}
    /\ UNCHANGED <<board, deleted, taps, sequence, documents, spend, edits, faults>>

\* The process dies; every tap in flight is gone, what is stored stays.
Kill ==
    /\ \E t \in Taps : taps[t].pc \notin {"idle", "over"}
    /\ taps' = [t \in Taps |-> IF taps[t].pc = "idle" THEN Idle ELSE Over]
    /\ UNCHANGED <<board, deleted, offered, sequence, documents, spend, edits, faults>>

-----------------------------------------------------------------------------
(* The render *)

\* render_lines, one line: no amount yet, a gap where one belongs.
Line(item, priced) ==
    [item |-> item, amount |-> NoAmount, gap |-> priced, detail |-> FALSE,
     assignee |-> FALSE]

\* The fold's amounts: the totals that titles speak, $0 among them, on priced
\* documents only.
SpokenOf(items, priced) ==
    [i \in {i \in DOMAIN items : priced /\ HasAmount(items[i])} |->
        items[i].money[1].cents]

\* apply_prices
PricedLine(line, amount) == [line EXCEPT !.amount = amount, !.gap = FALSE]

Priced(lines, amounts) ==
    [i \in DOMAIN lines |->
        IF i \in DOMAIN amounts THEN PricedLine(lines[i], amounts[i]) ELSE lines[i]]

\* apply_composition: prose for lines that were rendered, names for the crew.
ComposedLine(line, i, written, named) ==
    [line EXCEPT !.detail = i \in written, !.assignee = i \in named]

Composed(lines, written, named) ==
    [i \in DOMAIN lines |-> ComposedLine(lines[i], i, written, named)]

Drawn(items, type) ==
    [i \in {i \in DOMAIN items : DrawsKind(type.reader, items[i].kind)} |-> items[i]]

Rendered(items, type) ==
    Priced([i \in DOMAIN Drawn(items, type) |-> Line(items[i], type.priced)],
           SpokenOf(Drawn(items, type), type.priced))

\* The pass that sends the whole document and lets the model's amount stand.
AllLines(tap) == {i \in DOMAIN tap.lines : tap.type.priced}

\* What is still unpriced goes to the model, and nothing else: a title with a
\* rate or with two amounts is among it.
Unpriced(tap) ==
    {i \in DOMAIN tap.lines : tap.type.priced /\ ~HasAmount(tap.lines[i].item)}

WantsProse(type) == type.walk > 0 \/ WritesLines(type.reader)

AfterPricing(tap) == IF WantsProse(tap.type) THEN "notes" ELSE "minting"

-----------------------------------------------------------------------------
(* DocumentBuilder::build *)

MoveTo(t, tap) == taps' = [taps EXCEPT ![t] = tap]

\* The store's statement fails: a full disk, a poisoned lock.
Fault(t) ==
    /\ faults < MaxFaults
    /\ faults' = faults + 1
    /\ MoveTo(t, Failed(taps[t].walk, TRUE))
    /\ UNCHANGED <<board, deleted, offered, sequence, documents, spend, edits>>

Only(t, tap) ==
    /\ MoveTo(t, tap)
    /\ UNCHANGED <<board, deleted, offered, sequence, documents, spend, edits, faults>>

\* The first lock: a Processed walk, a legal kind whose type resolves, and at
\* least one item the document draws.
Accept(t, w, kind) ==
    /\ taps[t].pc = "idle"
    /\ w \notin deleted
    /\ kind \in KindsOf(TemplateOf[w]) \/ BuiltinTypes[kind].trade = Universal
    /\ kind \in offered
    /\ LET type  == BuiltinTypes[kind]
           lines == Rendered(board[w], type)
           tap   == [pc |-> "pricing", walk |-> w, kind |-> kind, type |-> type,
                     read |-> board[w], lines |-> lines, filled |-> 0, queued |-> FALSE, calls |-> 0,
                     inferred |-> {}]
       IN  /\ DOMAIN lines # {}
           /\ Only(t, IF Unpriced(tap) = {} THEN [tap EXCEPT !.pc = AfterPricing(tap)] ELSE tap)

\* Any other answer of the first lock mints nothing.
Refuse(t, w, kind) ==
    /\ taps[t].pc = "idle"
    /\ \/ w \in deleted
       \/ kind \notin offered
       \/ kind \notin KindsOf(TemplateOf[w]) /\ BuiltinTypes[kind].trade # Universal
       \/ DOMAIN Rendered(board[w], BuiltinTypes[kind]) = {}
    /\ Only(t, Over)

\* price_items, the rows that count: ids that were sent, amounts that are
\* amounts, and the first of two rows for one id.
ValidPrices(rows, sent) ==
    LET counts(k) == rows[k].id \in sent /\ rows[k].cents > 0
        first(k)  == \A j \in 1..k - 1 : ~(counts(j) /\ rows[j].id = rows[k].id)
        kept      == {k \in DOMAIN rows : counts(k) /\ first(k)}
    IN  [i \in {rows[k].id : k \in kept} |->
            rows[CHOOSE k \in kept : rows[k].id = i].cents]

\* The build that renders again once the prices are in, from a board that may
\* have moved on.
PriceAnswersReread(t) ==
    /\ taps[t].pc = "pricing"
    /\ \E rows \in Replies :
          LET tap    == taps[t]
              prices == ValidPrices(rows, Unpriced(tap))
              again  == Rendered(board[tap.walk], tap.type)
          IN  Only(t, [tap EXCEPT !.pc = AfterPricing(tap),
                                  !.lines = [i \in DOMAIN tap.lines \cap DOMAIN again |->
                                                Priced(again, prices)[i]],
                                  !.calls = @ + 1,
                                  !.inferred = {<<i, prices[i]>> : i \in DOMAIN prices}])

PriceAnswers(t) ==
    /\ taps[t].pc = "pricing"
    /\ \E rows \in Replies :
          LET tap    == taps[t]
              prices == ValidPrices(rows, Unpriced(tap))
          IN  Only(t, [tap EXCEPT !.pc = AfterPricing(tap),
                                  !.lines = Priced(@, prices),
                                  !.calls = @ + 1,
                                  !.inferred = {<<i, prices[i]>> : i \in DOMAIN prices}])

\* The build that gives up on a document it could not price.
PriceFailsHard(t) ==
    /\ taps[t].pc = "pricing"
    /\ Only(t, Failed(taps[t].walk, FALSE))

\* R7: no answer, or one without the forced call (which costs tokens too): the
\* document lands unpriced and queued.
PriceFails(t) ==
    /\ taps[t].pc = "pricing"
    /\ \E calls \in {0, 1} :
          Only(t, [taps[t] EXCEPT !.pc = AfterPricing(taps[t]), !.queued = TRUE,
                                  !.calls = @ + calls])

\* session_notes: a second lock, whose failure fails the build.
NotesRead(t) ==
    /\ taps[t].pc = "notes"
    /\ \/ Only(t, [taps[t] EXCEPT !.pc = "composing"])
       \/ Fault(t)

\* compose_document and apply_composition.  The model may write about any item
\* of the walk; only lines that were rendered take it, and only a work order
\* names the crew.  It writes everything it was asked for, or nothing.
ComposeAnswers(t) ==
    /\ taps[t].pc = "composing"
    /\ LET tap == taps[t]
           named(written) == IF tap.type.reader = "directive" THEN written ELSE {}
       IN  \E written \in {{}, DOMAIN tap.lines} :
              Only(t, [tap EXCEPT !.pc = "minting",
                                  !.lines = Composed(@, written, named(written)),
                                  !.filled = IF written = {} THEN 0 ELSE tap.type.walk,
                                  !.calls = @ + 1])

ComposeFails(t) ==
    /\ taps[t].pc = "composing"
    /\ \E calls \in {0, 1} :
          Only(t, [taps[t] EXCEPT !.pc = "minting", !.queued = TRUE, !.calls = @ + calls])

\* The document's own total: null, rather than 0, when no line has one.
Total(lines) ==
    LET ids == SetToSeq({i \in DOMAIN lines : lines[i].amount # NoAmount})
    IN  IF ids = <<>> THEN NoAmount
        ELSE SumOf([k \in DOMAIN ids |-> lines[ids[k]].amount])

\* assemble_fields: every field the type asks for is on the document, those
\* nobody filled as gaps; the operator's own are always gaps at first.
FieldGaps(type, filled) == type.walk - filled + type.manual

Document(tap, number) ==
    [walk |-> tap.walk, kind |-> tap.kind, number |-> number, live |-> TRUE,
     type |-> tap.type, read |-> tap.read, lines |-> tap.lines, total |-> Total(tap.lines),
     gaps |-> FieldGaps(tap.type, tap.filled), queued |-> tap.queued, inferred |-> tap.inferred]

\* A number minted in a transaction of its own, before the artifact's.
MintThenAdd(t) ==
    /\ taps[t].pc = "minting"
    /\ LET tap == taps[t]
           number == sequence[tap.kind] + 1
       IN  /\ sequence' = [sequence EXCEPT ![tap.kind] = number]
           /\ IF tap.walk \in deleted
              THEN MoveTo(t, Failed(tap.walk, FALSE)) /\ UNCHANGED documents
              ELSE /\ documents' = documents \cup {Document(tap, number)}
                   /\ MoveTo(t, [tap EXCEPT !.pc = "recording"])
    /\ UNCHANGED <<board, deleted, offered, spend, edits, faults>>

\* mint_document_number_and_add_artifact: the number is consumed if and only
\* if the document lands; a walk deleted meanwhile has no session row to hang
\* it on, and the transaction rolls back.
Mint(t) ==
    /\ taps[t].pc = "minting"
    /\ LET tap == taps[t]
           number == sequence[tap.kind] + 1
       IN  IF tap.walk \in deleted
           THEN Only(t, Failed(tap.walk, FALSE))
           ELSE \/ /\ sequence' = [sequence EXCEPT ![tap.kind] = number]
                   /\ documents' = documents \cup {Document(tap, number)}
                   /\ MoveTo(t, [tap EXCEPT !.pc = "recording"])
                   /\ UNCHANGED <<board, deleted, offered, spend, edits, faults>>
                \/ Fault(t)

\* record_llm_usage, one row for the calls that were made.  If it fails the
\* tap reports an error although its document has landed.
RecordUsage(t) ==
    /\ taps[t].pc = "recording"
    /\ \/ /\ spend' = spend + taps[t].calls
          /\ MoveTo(t, [pc |-> "reading", walk |-> taps[t].walk])
          /\ UNCHANGED <<board, deleted, offered, sequence, documents, edits, faults>>
       \/ taps[t].calls > 0 /\ Fault(t)

\* build_document reads the artifact it wrote back by its id.
ReadBack(t) ==
    /\ taps[t].pc = "reading"
    /\ IF taps[t].walk \in deleted
       THEN Only(t, Failed(taps[t].walk, FALSE))
       ELSE Only(t, Over) \/ Fault(t)

TapNext(t) ==
    \/ \E w \in Walks, kind \in Kinds : Accept(t, w, kind) \/ Refuse(t, w, kind)
    \/ PriceAnswers(t) \/ PriceFails(t)
    \/ NotesRead(t)
    \/ ComposeAnswers(t) \/ ComposeFails(t)
    \/ Mint(t) \/ RecordUsage(t) \/ ReadBack(t)

DocNext ==
    \/ \E t \in Taps : TapNext(t)
    \/ \E w \in Walks : EditBoard(w) \/ DeleteWalk(w)
    \/ \E kind \in Kinds : RemoveType(kind)
    \/ Kill

DocSpec == DocInit /\ [][DocNext]_docVars

-----------------------------------------------------------------------------
(* What a document promises *)

\* "A number is durably consumed if and only if the artifact lands": whatever
\* taps, deletes, faults and kills interleave, the documents of a kind carry
\* the numbers 1..n, each once, with no gap an accountant would ask about.
NumbersAreDense ==
    \A kind \in Kinds :
        LET minted == {d \in documents : d.kind = kind}
        IN  /\ {d.number : d \in minted} = 1..sequence[kind]
            /\ Cardinality(minted) = sequence[kind]

\* A document shows one state of its walk's board, the one under the
\* operator's thumb at the tap ("read"), however the board, the types and the
\* other taps move while the model is asked.
OneBoardPerDocument ==
    \A d \in documents :
        /\ DOMAIN d.lines = DOMAIN Drawn(d.read, d.type)
        /\ \A i \in DOMAIN d.lines : d.lines[i].item = d.read[i]

\* "A price the operator said outranks a price the model inferred", and "an
\* honest gap says: this needs a number": a line that was read a price shows
\* that price, $0 included; any other amount was inferred for a line that was
\* read none, and is not 0; a priced line is a gap exactly when it has no
\* amount; and a total is null exactly when no line has one.
AmountsHaveASource ==
    \A d \in documents :
        /\ \A i \in DOMAIN d.lines :
              LET line == d.lines[i]
                  read == d.type.priced /\ HasAmount(line.item)
              IN  /\ read => line.amount = line.item.money[1].cents
                  /\ ~read => \/ line.amount = NoAmount
                              \/ /\ d.type.priced
                                 /\ line.amount > 0
                                 /\ <<i, line.amount>> \in d.inferred
                  /\ line.gap <=> d.type.priced /\ line.amount = NoAmount
        /\ d.total = NoAmount <=> \A i \in DOMAIN d.lines : d.lines[i].amount = NoAmount

\* "A document always lands" (R7): a tap whose walk had something to build is
\* not failed by the model, only by the store or by the delete of its walk.
ModelNeverFailsABuild ==
    \A t \in Taps :
        taps[t].pc = "failed" => taps[t].fault \/ taps[t].walk \in deleted

-----------------------------------------------------------------------------
(* A claim of a comment that the code does not keep (section 7 of the        *)
(* README).  No run checks it: as an invariant TLC refutes it.               *)

\* "Only what is still unpriced goes to the model - ... it removes any chance of
\* the pass contradicting the operator" (document.rs:919): no line whose title
\* speaks money shows an amount that was inferred.
OperatorIsNotContradicted ==
    \A d \in documents : \A i \in DOMAIN d.lines :
        d.lines[i].item.money # <<>> => <<i, d.lines[i].amount>> \notin d.inferred

=============================================================================
