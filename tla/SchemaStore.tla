----------------------------- MODULE SchemaStore ----------------------------
(***************************************************************************)
(* The stored document types (murmur-core/src/store/schemas.rs and the     *)
(* engine's calls on them in ffi/src/schemas.rs): migrated and seeded on   *)
(* every launch, edited and removed by the operator, and resolved when a   *)
(* document is built.  The app may be killed at any point, also halfway    *)
(* through seeding, and comes back with the same or a newer release, whose *)
(* built-in types may differ.                                              *)
(***************************************************************************)
EXTENDS DocumentTypes, SeqFolds

CONSTANTS
    Releases,       \* the releases of the app, 1..n
    Catalog,        \* the built-in types of each release, by id
    SeedOrder,      \* every id, in id order: built-ins first, then customs
    Shapes,         \* what an operator may save
    OldStores,      \* what an older app may have left behind
    MaxClock        \* bound on the number of clock ticks

VARIABLES
    schemas,    \* document_schemas: id -> row
    migrated,   \* user_version has reached 9
    release,    \* the release installed
    launch,     \* "closed", "seeding" or "open"
    unseeded,   \* built-ins this launch has still to seed, in id order
    clock,
    theirs      \* history: the operator's last word on each id

schemaVars == <<schemas, migrated, release, launch, unseeded, clock, theirs>>

SchemaIds == {SeedOrder[k] : k \in DOMAIN SeedOrder}

\* What theirs and schemas hold for an id nobody has written.
Absent == [state |-> "absent"]
Removed == [state |-> "removed"]
Saved(shape) == [state |-> "saved", shape |-> shape]

Row(shape, stamp, device) ==
    [state |-> "live", shape |-> shape, stamp |-> stamp, device |-> device]

\* What a type says, and the rows there may be of it.
ShapeRows ==
    [kind : STRING, trade : STRING \cup {Universal}, priced : BOOLEAN, total : STRING,
     reader : STRING, walk : Nat, manual : Nat, lineItems : Nat, known : BOOLEAN]

StoredRows ==
    [state : {"live", "dead"}, shape : ShapeRows, stamp : Nat,
     device : {"builtin", "operator"}]

ASSUME SchemaAssumption ==
    /\ Releases \subseteq Nat
    /\ MaxClock \in Nat
    /\ SeedOrder \in Seq(SchemaIds)
    /\ \A r \in Releases : \E ids \in SUBSET SchemaIds : Catalog[r] \in [ids -> ShapeRows]
    /\ Shapes \subseteq ShapeRows
    /\ OldStores \subseteq [SchemaIds -> {Absent} \cup StoredRows]
    \* Only the seeding writes the clock 0, and it writes the device "builtin".
    /\ \A old \in OldStores : \A id \in SchemaIds :
          old[id].state = "live" /\ old[id].stamp = 0 => old[id].device = "builtin"

Live(id) == schemas[id].state = "live"

Builtins == Catalog[release]

-----------------------------------------------------------------------------
(* Launch: Store::open *)

SchemaInit ==
    /\ schemas \in OldStores
    /\ theirs = [id \in SchemaIds |->
                    CASE schemas[id].state = "absent" -> Absent
                      [] schemas[id].state = "dead" -> Removed
                      [] OTHER -> IF schemas[id].stamp = 0 THEN Absent
                                  ELSE Saved(schemas[id].shape)]
    /\ migrated = FALSE
    /\ release \in Releases
    /\ launch = "closed"
    /\ unseeded = <<>>
    /\ clock = 1

\* MIGRATIONS v9: the general types become universal, wherever the row is
\* still marked as ours, which it is after an operator's edit too.
Universalised(row) ==
    IF row.state # "absent" /\ row.device = "builtin"
    THEN [row EXCEPT !.shape.trade = Universal]
    ELSE row

\* The migration that rebuilds the table from the rows it repoints.
MigrateRebuilt ==
    /\ migrated' = TRUE
    /\ schemas' = [id \in SchemaIds \cap DOMAIN UniversalTypes |->
                    IF migrated THEN schemas[id] ELSE Universalised(schemas[id])]

\* migrate: each migration and its user_version commit together.
Migrate ==
    /\ migrated' = TRUE
    /\ IF migrated
       THEN UNCHANGED schemas
       ELSE schemas' = [id \in SchemaIds |->
                IF id \in DOMAIN UniversalTypes \ {"report"}
                THEN Universalised(schemas[id]) ELSE schemas[id]]

\* from_connection: migrate, then seed.
Launch ==
    /\ launch = "closed"
    /\ launch' = "seeding"
    /\ Migrate
    /\ unseeded' = Keep(SeedOrder, DOMAIN Builtins)
    /\ UNCHANGED <<release, clock, theirs>>

\* The seeding that undeletes: INSERT OR REPLACE over a tombstone.
SeededOver(row, shape) ==
    IF row.state # "live" THEN Row(shape, 0, "builtin")
    ELSE IF row.device = "builtin" /\ row.stamp = 0 THEN [row EXCEPT !.shape = shape]
    ELSE row

\* The seeding before the upgrade existed: insert if absent, nothing else.
SeededOnce(row, shape) ==
    IF row.state = "absent" THEN Row(shape, 0, "builtin") ELSE row

\* The seeding that trusts device_id alone: a save does not restamp it.
SeededByDevice(row, shape) ==
    IF row.state = "absent" THEN Row(shape, 0, "builtin")
    ELSE IF row.state = "live" /\ row.device = "builtin" THEN [row EXCEPT !.shape = shape]
    ELSE row

\* seed_schemas, one type: insert it if there is no row, not even a tombstone,
\* and upgrade the row that is still the seeded one.
Seeded(row, shape) ==
    IF row.state = "absent" THEN Row(shape, 0, "builtin")
    ELSE IF row.state = "live" /\ row.device = "builtin" /\ row.stamp = 0
         THEN [row EXCEPT !.shape = shape]
    ELSE row

SeedNext ==
    /\ launch = "seeding"
    /\ unseeded # <<>>
    /\ LET id == Head(unseeded)
       IN  schemas' = [schemas EXCEPT ![id] = Seeded(@, Builtins[id])]
    /\ unseeded' = Tail(unseeded)
    /\ UNCHANGED <<migrated, release, launch, clock, theirs>>

Opened ==
    /\ launch = "seeding"
    /\ unseeded = <<>>
    /\ launch' = "open"
    /\ UNCHANGED <<schemas, migrated, release, unseeded, clock, theirs>>

\* The process ends, also between two statements of the seeding; an update of
\* the app may be installed before the next launch.
Killed ==
    /\ launch # "closed"
    /\ launch' = "closed"
    /\ unseeded' = <<>>
    /\ \E r \in Releases : r >= release /\ release' = r
    /\ UNCHANGED <<schemas, migrated, clock, theirs>>

-----------------------------------------------------------------------------
(* The operator *)

\* Two writes may land in one second.
ClockTick ==
    /\ launch = "open"
    /\ clock < MaxClock
    /\ clock' = clock + 1
    /\ UNCHANGED <<schemas, migrated, release, launch, unseeded, theirs>>

\* validate_schema: kinds on the allowlists and exactly one line_items section.
ValidShape(shape) == shape.known /\ shape.lineItems = 1

\* save_document_schema: the live row is updated in place, keeping its device,
\* else a row is inserted; saving over a tombstone is a primary key conflict.
SaveSchema(id, shape) ==
    /\ launch = "open"
    /\ ValidShape(shape)
    /\ schemas[id].state # "dead"
    /\ schemas' = [schemas EXCEPT ![id] =
            IF Live(id) THEN [@ EXCEPT !.shape = shape, !.stamp = clock]
            ELSE Row(shape, clock, "operator")]
    /\ theirs' = [theirs EXCEPT ![id] = Saved(shape)]
    /\ UNCHANGED <<migrated, release, launch, unseeded, clock>>

\* remove_document_schema: a tombstone; a second remove finds no row.
RemoveSchema(id) ==
    /\ launch = "open"
    /\ Live(id)
    /\ schemas' = [schemas EXCEPT ![id].state = "dead", ![id].stamp = clock]
    /\ theirs' = [theirs EXCEPT ![id] = Removed]
    /\ UNCHANGED <<migrated, release, launch, unseeded, clock>>

SchemaNext ==
    \/ Launch \/ SeedNext \/ Opened \/ Killed
    \/ ClockTick
    \/ \E id \in SchemaIds : RemoveSchema(id) \/ \E shape \in Shapes : SaveSchema(id, shape)

SchemaSpec == SchemaInit /\ [][SchemaNext]_schemaVars

-----------------------------------------------------------------------------
(* Reads *)

\* list_document_schemas, for the trade of the app.
Listed(trade) ==
    {id \in SchemaIds : Live(id) /\ schemas[id].shape.trade \in {trade, Universal}}

\* The resolver before #306: a universal type answered to no template.
CandidatesOfTrade(kind, template) ==
    {id \in Listed(template) :
        schemas[id].shape.kind = kind /\ schemas[id].shape.trade = template}

Candidates(kind, template) ==
    {id \in Listed(template) : schemas[id].shape.kind = kind}

Position(id) == CHOOSE k \in DOMAIN SeedOrder : SeedOrder[k] = id

\* The ORDER BY: the trade's own over universal, then the newest, then the
\* lowest id.
Outranks(a, b) ==
    LET own(id) == schemas[id].shape.trade # Universal
        tied == own(a) = own(b)
    IN  \/ own(a) /\ ~own(b)
        \/ tied /\ schemas[a].stamp > schemas[b].stamp
        \/ tied /\ schemas[a].stamp = schemas[b].stamp /\ Position(a) < Position(b)

\* resolve_active_schema, with the id of the row that answers, if one does.
Resolved(kind, template) ==
    {id \in Candidates(kind, template) :
        \A other \in Candidates(kind, template) \ {id} : Outranks(id, other)}

\* The legality of a build (DocumentBuilder::build): the trade's vocabulary or
\* any type that resolves (has_active_schema).
LegalKind(kind, template) ==
    kind \in KindsOf(template) \/ Resolved(kind, template) # {}

-----------------------------------------------------------------------------
(* What the stored types promise *)

SchemaTypeOK ==
    /\ schemas \in [SchemaIds -> {Absent} \cup StoredRows]
    /\ theirs \in [SchemaIds -> {Absent, Removed} \cup [state : {"saved"}, shape : ShapeRows]]
    /\ migrated \in BOOLEAN
    /\ release \in Releases
    /\ launch \in {"closed", "seeding", "open"}
    /\ unseeded \in Seq(DOMAIN Builtins)
    /\ clock \in Nat

\* "A removed BUILT-IN stays removed forever": no launch, no release and no
\* save brings back what the operator removed (the resurrection guard, WE-A).
RemovedStaysRemoved ==
    \A id \in SchemaIds : theirs[id].state = "removed" => ~Live(id)

\* "Their edit outranks our update, always": a type the operator saved keeps
\* its kind and its sections over every launch (seed_schemas).
OperatorsEditStands ==
    \A id \in SchemaIds :
        theirs[id].state = "saved" =>
            /\ Live(id)
            /\ [schemas[id].shape EXCEPT !.trade = theirs[id].shape.trade] = theirs[id].shape

\* An update reaches the devices that were seeded by an older one: while the
\* app is open every built-in the operator never touched is the one of the
\* release that runs (the trap of 2026-08-09).
UntouchedFollowRelease ==
    launch = "open" =>
        \A id \in DOMAIN Builtins :
            theirs[id] = Absent => Live(id) /\ schemas[id].shape = Builtins[id]

\* "LISTED and never BUILT ... is the one combination that cannot be right"
\* (#284): every type offered under a trade is legal for a walk of that trade
\* and resolves to exactly one row of its kind.
OfferedCanBeBuilt ==
    \A t \in Templates : \A id \in Listed(t) :
        /\ LegalKind(schemas[id].shape.kind, t)
        /\ Cardinality(Resolved(schemas[id].shape.kind, t)) = 1

=============================================================================
