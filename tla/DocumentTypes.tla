---------------------------- MODULE DocumentTypes ---------------------------
(***************************************************************************)
(* Document types as data: the built-in types every store is seeded with,  *)
(* what each draws from a walk and for whom, and the vocabulary of kinds   *)
(* each trade may build (murmur-core/src/domain.rs, pipeline/mod.rs,       *)
(* pipeline/document.rs).  A type is abstracted to its kind, its trade,    *)
(* whether its lines carry amounts, how its total is labelled, the reader  *)
(* of its second lines, and how many fields the model and the operator     *)
(* fill; labels, hints and prefixes are wording.                           *)
(***************************************************************************)
EXTENDS Naturals, Sequences, FiniteSets

\* trade_key IS NULL: the type is for every trade.
Universal == "universal"

Templates == {"landscape", "property", "inspection", "other"}

\* builtin_schema: sections of fields, then exactly one line_items section.
Builtin(kind, trade, priced, total, reader, walk, manual) ==
    [kind |-> kind, trade |-> trade, priced |-> priced, total |-> total,
     reader |-> reader, walk |-> walk, manual |-> manual,
     lineItems |-> 1, known |-> TRUE]

\* builtin_schemas, the types for every trade.
UniversalTypes ==
    [estimate   |-> Builtin("estimate", Universal, TRUE, "total", "inclusion", 1, 3),
     invoice    |-> Builtin("invoice", Universal, TRUE, "amount_due", "inclusion", 1, 3),
     work_order |-> Builtin("work_order", Universal, FALSE, "total", "directive", 5, 0),
     report     |-> Builtin("report", Universal, FALSE, "total", "observation", 1, 0)]

\* builtin_schemas, the types of one trade.
TradeTypes ==
    [condition  |-> Builtin("condition", "property", FALSE, "total", "observation", 1, 0),
     move_out   |-> Builtin("move_out", "property", TRUE, "deposit_deduction", "observation", 1, 1),
     inspection |-> Builtin("inspection", "inspection", FALSE, "findings", "observation", 1, 0)]

BuiltinTypes ==
    [id \in DOMAIN UniversalTypes \cup DOMAIN TradeTypes |->
        IF id \in DOMAIN UniversalTypes THEN UniversalTypes[id] ELSE TradeTypes[id]]

\* doc_kinds_for_template, in order of preference.
DocKinds(template) ==
    CASE template = "landscape"  -> <<"estimate", "invoice", "work_order">>
      [] template = "property"   -> <<"condition", "move_out">>
      [] template = "inspection" -> <<"inspection">>
      [] OTHER                   -> <<"report">>

KindsOf(template) == {DocKinds(template)[k] : k \in DOMAIN DocKinds(template)}

\* is_pricing_kind
IsPricingKind(kind) == kind \in {"estimate", "invoice", "move_out"}

\* total_shape: what the foot of the document says of its lines.
TotalShape(kind) ==
    CASE kind = "inspection" -> "findings"
      [] kind = "invoice"    -> "amount_due"
      [] kind = "move_out"   -> "deposit_deduction"
      [] OTHER               -> "total"

\* draws_kind: the client is shown work and its money, the crew work alone,
\* the record everything.
DrawsKind(reader, kind) ==
    CASE reader = "inclusion" -> kind \in {"todo", "part", "price"}
      [] reader = "directive" -> kind \in {"todo", "part"}
      [] OTHER                -> TRUE

\* line_brief: the readers whose lines get a second line at all.
WritesLines(reader) == reader \in {"inclusion", "directive", "observation"}

\* The vocabulary and the seeded rows agree ("reproduce EXACTLY"), and every
\* kind a trade may build has a built-in type that trade can resolve.
ASSUME BuiltinsAgree ==
    /\ \A id \in DOMAIN BuiltinTypes :
          /\ BuiltinTypes[id].priced = IsPricingKind(BuiltinTypes[id].kind)
          /\ BuiltinTypes[id].total = TotalShape(BuiltinTypes[id].kind)
    /\ \A t \in Templates : \A kind \in KindsOf(t) :
          \E id \in DOMAIN BuiltinTypes :
              /\ BuiltinTypes[id].kind = kind
              /\ BuiltinTypes[id].trade \in {t, Universal}

=============================================================================
