----------------------------- MODULE MCPaperwork ----------------------------
(* TLC instance of what a walk's paperwork rests on, four machines each from *)
(* every start of its own: SchemaStore keeps the types of document there     *)
(* are, AgentLoop takes a finished walk to a processed one, SpokenPrices     *)
(* folds what its items say, and DocumentBuild makes documents of it.        *)
EXTENDS AgentLoop, DocumentBuild, SpokenPrices, SchemaStore

CONSTANTS i1, i2

VARIABLE stage

\* What a title may say of money: nothing, "$0", and a rate.
Spoken(c) == [cents |-> c, rate |-> FALSE]
ARate == <<[cents |-> 2, rate |-> TRUE]>>
TheTitles == {<<>>, <<Spoken(0)>>, ARate}

\* An item that is work and speaks no price, and one that is no work and does:
\* an edit can make it work, or leave the estimate nothing to draw.
Item(kind, money) == [kind |-> kind, money |-> money]
TheBoards ==
    {[w \in Walks |-> (i1 :> Item("todo", <<>>) @@ i2 :> Item("safety", <<Spoken(0)>>))]}

TheTemplates == [w \in Walks |-> "landscape"]

\* 0 before a price, and two prices, all for one item, which may not have been
\* sent; the other item gets none.
R(i, c) == [id |-> i, cents |-> c]
TheReplies == {<<R(i1, 0), R(i1, 5), R(i1, 6)>>}

\* Work of one word, with and without a number, and of three, prices that name
\* it by either word, work that states its own price, two amounts, a rate, and
\* a price for nothing.
Text(words, numbers, money) ==
    [words |-> words, numbers |-> numbers, money |-> money]
TheTexts ==
    {Text(<<"mulch">>, {}, <<>>),
     Text(<<"mulch">>, {"2"}, <<>>),
     Text(<<"front", "bed", "mulch">>, {}, <<>>),
     Text(<<"mulch">>, {}, <<Spoken(200)>>),
     Text(<<"bed">>, {}, <<Spoken(100)>>),
     Text(<<"yard", "mulch">>, {"5"}, <<Spoken(450)>>),
     Text(<<"mulch">>, {}, <<Spoken(200), Spoken(100)>>),
     Text(<<"mulch">>, {}, <<[cents |-> 95, rate |-> TRUE]>>),
     Text(<<>>, {}, <<Spoken(300)>>)}

\* An unknown block, tools that work, fail and do not exist, and one person
\* under two spellings.
Use(tool) == [type |-> "use", tool |-> tool, valid |-> TRUE]
Person(name, known) == Use("upsert_contact") @@ [name |-> name, known |-> known]
TheBlocks ==
    {[type |-> "unknown"],
     Use("add_item"), [Use("add_item") EXCEPT !.valid = FALSE],
     Use("write_report"), Use("no_such_tool"),
     Person("juan", {"trade"}), Person("JUAN", {})}
TheLower(name) == IF name = "JUAN" THEN "juan" ELSE name

\* Two built-in ids and one the operator mints; the second release rewrites
\* the estimate and brings the report, unless a store already has one.
TheOrder == <<"estimate", "report", "custom">>
TheReleases == {1, 2}
Newer == [BuiltinTypes["estimate"] EXCEPT !.walk = 2]
TheCatalog ==
    <<[id \in {"estimate"} |-> BuiltinTypes["estimate"]],
      [id \in {"estimate", "report"} |->
            IF id = "estimate" THEN Newer ELSE BuiltinTypes["report"]]>>

\* A save may leave a type's kind, change its trade, or be malformed.
Mine(kind, trade) == Builtin(kind, trade, TRUE, "total", "inclusion", 0, 1)
TheShapes ==
    {Mine("estimate", "landscape"), Mine("estimate", Universal), Mine("rfp", "property"),
     [Mine("estimate", Universal) EXCEPT !.lineItems = 2]}

\* A store of before v9 held the estimate for landscape only: seeded, edited
\* (the device is kept, the clock is not), or deleted.  Or there is no store.
Scoped == [BuiltinTypes["estimate"] EXCEPT !.trade = "landscape"]
TheOldStores ==
    {[id \in {"estimate", "report", "custom"} |-> IF id = "estimate" THEN row ELSE Absent] :
        row \in {Absent, Row(Scoped, 0, "builtin"), Row(Mine("estimate", "landscape"), 1, "builtin"),
                 [Row(Scoped, 1, "builtin") EXCEPT !.state = "dead"]}}

Init ==
    /\ stage \in {"types", "process", "fold", "build"}
    /\ AgentInit /\ DocInit /\ PriceInit /\ SchemaInit
    /\ stage # "fold" => said = <<>>
    /\ stage # "types" => release = 1 /\ \A id \in SchemaIds : schemas[id] = Absent

Next ==
    /\ \/ stage = "types" /\ SchemaNext /\ UNCHANGED <<docVars, priceVars, agentVars>>
       \/ stage = "process" /\ AgentNext /\ UNCHANGED <<docVars, priceVars, schemaVars>>
       \/ stage = "fold" /\ PriceNext /\ UNCHANGED <<docVars, agentVars, schemaVars>>
       \/ stage = "build" /\ DocNext /\ UNCHANGED <<priceVars, agentVars, schemaVars>>
    /\ UNCHANGED stage

Spec == Init /\ [][Next]_<<stage, agentVars, docVars, priceVars, schemaVars>>

Symmetry == Permutations(Taps)
=============================================================================
