-------------------------- MODULE AgentLoop_proofs --------------------------
(***************************************************************************)
(* Proofs about processing a walk, for every response the model may send   *)
(* and any number of attempts and turns: the cost that is logged with an   *)
(* exit is what was billed, a person has one card, every request of the    *)
(* loop is well formed, and a finished walk's board is what the model was  *)
(* told.                                                                   *)
(***************************************************************************)
EXTENDS AgentLoop, SeqFolds_proofs

-----------------------------------------------------------------------------
(* The cost of an attempt *)

\* Until the loop ends its cost is in Agent::run; after that, in process().
\* What is asked next, the summary included, is added as it is answered.
RunningCost ==
    /\ phase \in {"asking", "acting"} => usage = 0 /\ spent = billed[attempt]
    /\ phase \in {"summing", "finishing", "failing"} => usage = billed[attempt]

\* The attempt that runs has written nothing, and a later one has not begun.
NothingAhead ==
    /\ phase # "rest" => outcome[attempt] = "none"
    /\ \A a \in Attempts : a > attempt => outcome[a] = "none" /\ billed[a] = 0

CostInv == AgentTypeOK /\ RunningCost /\ NothingAhead /\ CostIsLogged

LEMMA CostInvInit == AgentInit => CostInv
BY AgentAssumption
   DEF AgentInit, CostInv, AgentTypeOK, RunningCost, NothingAhead, CostIsLogged, Attempts

\* A step that writes neither an outcome nor the ledger leaves the log as it
\* is when no earlier attempt is billed.
LEMMA LogStands ==
    ASSUME CostInv, ledger' = ledger, outcome' = outcome,
           billed' = billed \/ (/\ attempt \in Attempts
                                /\ outcome[attempt] = "none"
                                /\ \A a \in Attempts : a # attempt => billed'[a] = billed[a])
    PROVE  CostIsLogged'
BY DEF CostInv, CostIsLogged

\* An attempt that is lost logs nothing.
LEMMA LostLogsNothing ==
    ASSUME CostInv, phase # "rest", ledger' = ledger, billed' = billed,
           outcome' = [outcome EXCEPT ![attempt] = "lost"]
    PROVE  CostIsLogged'
<1>1. attempt \in Attempts /\ outcome[attempt] = "none"
  BY DEF CostInv, AgentTypeOK, NothingAhead
<1>2. outcome \in [Attempts -> {"none", "lost", "processed", "failed"}]
  BY DEF CostInv, AgentTypeOK
<1>3. \A a \in Attempts : a # attempt => outcome'[a] = outcome[a]
  BY <1>2
<1>4. outcome'[attempt] = "lost"
  BY <1>1, <1>2
<1> QED
  BY <1>1, <1>3, <1>4 DEF CostInv, CostIsLogged

\* An exit logs one row, with all the attempt was billed.
LEMMA ExitLogsTheBill ==
    ASSUME CostInv, phase \in {"finishing", "failing"},
           NEW status \in {"processed", "failed"}, NEW kept, Leave(status, kept)
    PROVE  CostInv'
<1>1. /\ attempt \in Attempts /\ outcome[attempt] = "none"
      /\ usage = billed[attempt]
      /\ outcome \in [Attempts -> {"none", "lost", "processed", "failed"}]
  BY DEF CostInv, AgentTypeOK, NothingAhead, RunningCost
<1>2. /\ phase' = "rest" /\ walk' = status
      /\ ledger' = ledger \cup {[attempt |-> attempt, tokens |-> usage]}
      /\ outcome' = [outcome EXCEPT ![attempt] = status]
      /\ UNCHANGED <<attempt, spent, usage, billed>>
  BY DEF Leave, loopVars
<1>3. /\ outcome'[attempt] = status
      /\ \A a \in Attempts : a # attempt => outcome'[a] = outcome[a]
      /\ outcome' \in [Attempts -> {"none", "lost", "processed", "failed"}]
  BY <1>1, <1>2
<1>4. ASSUME NEW a \in Attempts
      PROVE  LET rows == {r \in ledger' : r.attempt = a}
             IN  IF outcome'[a] \in {"processed", "failed"}
                 THEN rows = {[attempt |-> a, tokens |-> billed'[a]]}
                 ELSE rows = {}
  <2> DEFINE row == [attempt |-> attempt, tokens |-> usage]
  <2>1. row.attempt = attempt
    OBVIOUS
  <2>2. {r \in ledger : r.attempt = attempt} = {}
    BY <1>1 DEF CostInv, CostIsLogged
  <2>3. CASE a = attempt
    <3>1. {r \in ledger' : r.attempt = a} = {row}
      BY <2>1, <2>2, <2>3, <1>2
    <3> QED
      BY <3>1, <2>3, <1>1, <1>2, <1>3
  <2>4. CASE a # attempt
    <3>1. {r \in ledger' : r.attempt = a} = {r \in ledger : r.attempt = a}
      BY <2>1, <2>4, <1>2
    <3>2. LET rows == {r \in ledger : r.attempt = a}
          IN  IF outcome[a] \in {"processed", "failed"}
              THEN rows = {[attempt |-> a, tokens |-> billed[a]]}
              ELSE rows = {}
      BY DEF CostInv, CostIsLogged
    <3> QED
      BY <3>1, <3>2, <2>4, <1>2, <1>3
  <2> QED
    BY <2>3, <2>4
<1>5. CostIsLogged'
  BY <1>4 DEF CostIsLogged
<1>6. AgentTypeOK'
  BY <1>2, <1>3 DEF CostInv, AgentTypeOK
<1>7. RunningCost' /\ NothingAhead'
  BY <1>2, <1>3 DEF CostInv, RunningCost, NothingAhead, AgentTypeOK, Attempts
<1> QED
  BY <1>5, <1>6, <1>7 DEF CostInv

LEMMA BeginStep == CostInv /\ Begin => CostInv'
<1> SUFFICES ASSUME CostInv, Begin PROVE CostInv'
  OBVIOUS
<1>1. /\ attempt' = attempt + 1 /\ attempt' \in Attempts /\ attempt \in Nat
      /\ phase' \in {"asking", "finishing"}
      /\ spent' = 0 /\ usage' = 0
      /\ UNCHANGED <<walk, ledger, outcome, billed>>
  BY AgentAssumption DEF Begin, CostInv, AgentTypeOK, Attempts
<1>2. outcome[attempt'] = "none" /\ billed[attempt'] = 0
  BY <1>1 DEF CostInv, NothingAhead
<1>3. AgentTypeOK'
  BY <1>1 DEF CostInv, AgentTypeOK, Attempts
<1>4. RunningCost' /\ NothingAhead'
  BY <1>1, <1>2 DEF CostInv, RunningCost, NothingAhead, Attempts
<1>5. CostIsLogged'
  BY <1>1, LogStands
<1> QED
  BY <1>3, <1>4, <1>5 DEF CostInv

\* A response costs one unit, in Agent::run until the loop ends.
LEMMA ProviderAnswersStep == CostInv /\ ProviderAnswers => CostInv'
<1> SUFFICES ASSUME CostInv, ProviderAnswers PROVE CostInv'
  OBVIOUS
<1>1. /\ phase = "asking" /\ spent' = spent + 1
      /\ billed' = [billed EXCEPT ![attempt] = @ + 1]
      /\ \/ phase' = "summing" /\ usage' = usage + spent'
         \/ phase' = "acting" /\ usage' = usage
      /\ UNCHANGED <<walk, attempt, ledger, outcome>>
  BY Zenon DEF ProviderAnswers
<1>2. /\ attempt \in Attempts /\ outcome[attempt] = "none"
      /\ usage = 0 /\ spent = billed[attempt]
      /\ billed \in [Attempts -> Nat]
  BY <1>1 DEF CostInv, AgentTypeOK, RunningCost, NothingAhead
<1>3. /\ billed'[attempt] = spent + 1
      /\ billed' \in [Attempts -> Nat]
      /\ \A a \in Attempts : a # attempt => billed'[a] = billed[a]
  BY <1>1, <1>2
<1>4. AgentTypeOK'
  BY <1>1, <1>2, <1>3 DEF CostInv, AgentTypeOK
<1>5. RunningCost'
  BY <1>1, <1>2, <1>3 DEF RunningCost
<1>6. NothingAhead'
  BY <1>1, <1>2, <1>3 DEF CostInv, NothingAhead, Attempts
<1>7. CostIsLogged'
  BY <1>1, <1>2, <1>3, LogStands
<1> QED
  BY <1>4, <1>5, <1>6, <1>7 DEF CostInv

\* The summary's cost counts before its content is judged.
LEMMA SummaryAnswersStep == CostInv /\ SummaryAnswers => CostInv'
<1> SUFFICES ASSUME CostInv, SummaryAnswers PROVE CostInv'
  OBVIOUS
<1>1. /\ phase = "summing" /\ usage' = usage + 1
      /\ billed' = [billed EXCEPT ![attempt] = @ + 1]
      /\ phase' \in {"finishing", "failing"}
      /\ UNCHANGED <<walk, attempt, spent, ledger, outcome>>
  BY DEF SummaryAnswers, loopVars
<1>2. /\ attempt \in Attempts /\ outcome[attempt] = "none"
      /\ usage = billed[attempt]
      /\ billed \in [Attempts -> Nat]
  BY <1>1 DEF CostInv, AgentTypeOK, RunningCost, NothingAhead
<1>3. /\ billed'[attempt] = usage + 1
      /\ billed' \in [Attempts -> Nat]
      /\ \A a \in Attempts : a # attempt => billed'[a] = billed[a]
  BY <1>1, <1>2
<1>4. AgentTypeOK'
  BY <1>1, <1>2, <1>3 DEF CostInv, AgentTypeOK
<1>5. RunningCost' /\ NothingAhead'
  BY <1>1, <1>2, <1>3 DEF CostInv, RunningCost, NothingAhead, Attempts
<1>6. CostIsLogged'
  BY <1>1, <1>2, <1>3, LogStands
<1> QED
  BY <1>4, <1>5, <1>6 DEF CostInv

LEMMA RunFailsStep ==
    CostInv /\ (ProviderFails \/ TurnsRunOut \/ SummaryFails) => CostInv'
<1> SUFFICES ASSUME CostInv, ProviderFails \/ TurnsRunOut \/ SummaryFails
             PROVE  CostInv'
  OBVIOUS
<1>1. /\ phase \in {"asking", "summing"} /\ phase' = "failing"
      /\ usage' = IF phase = "asking" THEN usage + spent ELSE usage
      /\ UNCHANGED <<walk, attempt, spent, ledger, outcome, billed>>
  BY DEF ProviderFails, TurnsRunOut, RunFails, SummaryFails, loopVars
<1>2. AgentTypeOK'
  BY <1>1 DEF CostInv, AgentTypeOK
<1>3. RunningCost' /\ NothingAhead'
  BY <1>1 DEF CostInv, AgentTypeOK, RunningCost, NothingAhead
<1>4. CostIsLogged'
  BY <1>1, LogStands
<1> QED
  BY <1>2, <1>3, <1>4 DEF CostInv

LEMMA LostStep == CostInv /\ (ProcessDies \/ ExitWriteFails) => CostInv'
<1> SUFFICES ASSUME CostInv, ProcessDies \/ ExitWriteFails PROVE CostInv'
  OBVIOUS
<1>1. /\ phase # "rest" /\ phase' = "rest"
      /\ outcome' = [outcome EXCEPT ![attempt] = "lost"]
      /\ UNCHANGED <<walk, attempt, spent, usage, ledger, billed>>
  BY DEF ProcessDies, ExitWriteFails, loopVars
<1>2. AgentTypeOK'
  BY <1>1 DEF CostInv, AgentTypeOK
<1>3. RunningCost' /\ NothingAhead'
  BY <1>1 DEF CostInv, AgentTypeOK, RunningCost, NothingAhead, Attempts
<1>4. CostIsLogged'
  BY <1>1, LostLogsNothing
<1> QED
  BY <1>2, <1>3, <1>4 DEF CostInv

\* Tools, their results and a delete cost nothing.
LEMMA FreeStep ==
    ASSUME CostInv,
           UNCHANGED <<attempt, spent, usage, ledger, outcome, billed>>,
           walk' = walk \/ walk' = "deleted",
           phase' = phase \/ (phase = "acting" /\ phase' = "asking")
    PROVE  CostInv'
<1>1. AgentTypeOK'
  BY DEF CostInv, AgentTypeOK
<1>2. RunningCost' /\ NothingAhead'
  BY DEF CostInv, RunningCost, NothingAhead
<1>3. CostIsLogged'
  BY LogStands
<1> QED
  BY <1>1, <1>2, <1>3 DEF CostInv

LEMMA ToolsAreFree ==
    ASSUME AddItem \/ UpsertContact \/ WriteReport \/ UnknownTool
    PROVE  UNCHANGED <<walk, attempt, phase, spent, usage, ledger, outcome, billed>>
BY Zenon DEF AddItem, UpsertContact, WriteReport, UnknownTool, Answered

LEMMA CostInvStep == CostInv /\ [AgentNext]_agentVars => CostInv'
<1> SUFFICES ASSUME CostInv, [AgentNext]_agentVars PROVE CostInv'
  OBVIOUS
<1>1. CASE DeleteMeanwhile
  BY <1>1, FreeStep DEF DeleteMeanwhile, loopVars
<1>2. CASE ProcessDies \/ ExitWriteFails
  BY <1>2, LostStep
<1>3. CASE Begin
  BY <1>3, BeginStep
<1>4. CASE ProviderFails \/ TurnsRunOut \/ SummaryFails
  BY <1>4, RunFailsStep
<1>5. CASE ProviderAnswers
  BY <1>5, ProviderAnswersStep
<1>6. CASE AddItem \/ UpsertContact \/ WriteReport \/ UnknownTool
  BY <1>6, ToolsAreFree, FreeStep
<1>7. CASE SendResults
  BY <1>7, FreeStep DEF SendResults
<1>8. CASE SummaryAnswers
  BY <1>8, SummaryAnswersStep
<1>9. CASE ExitProcessed \/ ExitFailed
  BY <1>9, ExitLogsTheBill DEF ExitProcessed, ExitFailed
<1>10. CASE UNCHANGED agentVars
  BY <1>10, FreeStep DEF agentVars
<1> QED
  BY <1>1, <1>2, <1>3, <1>4, <1>5, <1>6, <1>7, <1>8, <1>9, <1>10 DEF AgentNext

-----------------------------------------------------------------------------
(* Contact cards *)

\* A card is a name and what is known of the person.
CardInv ==
    /\ \A c \in cards : DOMAIN c = {"name", "known"}
    /\ OneCardPerName

LEMMA CardInvInit == AgentInit => CardInv
BY DEF AgentInit, CardInv, OneCardPerName

LEMMA UpsertKeepsOneCard == CardInv /\ UpsertContact => CardInv'
<1> SUFFICES ASSUME CardInv, UpsertContact PROVE CardInv'
  OBVIOUS
<1> DEFINE call == Head(pending).block
           of == CardsNamed(call.name)
           fresh == [name |-> call.name, known |-> call.known]
<1>1. CASE ~call.valid
  BY <1>1 DEF UpsertContact, CardInv, OneCardPerName
<1>2. CASE call.valid /\ of = {}
  <2>1. cards' = cards \cup {fresh}
    BY <1>2 DEF UpsertContact
  <2>2. \A c \in cards : Lower(c.name) # Lower(call.name)
    BY <1>2 DEF CardsNamed
  <2>3. fresh.name = call.name /\ DOMAIN fresh = {"name", "known"}
    OBVIOUS
  <2> QED
    BY <2>1, <2>2, <2>3 DEF CardInv, OneCardPerName
<1>3. CASE call.valid /\ of # {}
  <2> DEFINE card == CHOOSE c \in of : TRUE
             new == [card EXCEPT !.known = @ \cup call.known]
  <2>1. card \in cards
    BY <1>3 DEF CardsNamed
  <2>2. cards' = (cards \ {card}) \cup {new}
    BY <1>3 DEF UpsertContact
  <2>3. new.name = card.name /\ DOMAIN new = {"name", "known"}
    BY <2>1 DEF CardInv
  <2> HIDE DEF card, new
  <2>4. \A c \in cards \ {card} : Lower(c.name) # Lower(new.name)
    BY <2>1, <2>3 DEF CardInv, OneCardPerName
  <2> QED
    BY <2>2, <2>3, <2>4 DEF CardInv, OneCardPerName
<1> QED
  BY <1>1, <1>2, <1>3

LEMMA OtherStepsKeepCards ==
    ASSUME [AgentNext]_agentVars, ~UpsertContact
    PROVE  cards' = cards
BY Zenon DEF AgentNext, agentVars, rowVars, DeleteMeanwhile, ProcessDies, Begin,
       ProviderFails, TurnsRunOut, RunFails, ProviderAnswers, AddItem,
       WriteReport, UnknownTool, SendResults, SummaryAnswers, SummaryFails,
       ExitProcessed, ExitFailed, Leave, ExitWriteFails

LEMMA CardInvStep == CardInv /\ [AgentNext]_agentVars => CardInv'
<1> SUFFICES ASSUME CardInv, [AgentNext]_agentVars PROVE CardInv'
  OBVIOUS
<1>1. CASE ~UpsertContact
  BY <1>1, OtherStepsKeepCards DEF CardInv, OneCardPerName
<1> QED
  BY <1>1, UpsertKeepsOneCard

-----------------------------------------------------------------------------
(* The theorems *)

\* R9 for every conversation: an attempt that marks the walk Processed or
\* Failed logs exactly what it was billed, and any other attempt logs nothing.
THEOREM ExitsLogTheirCost == AgentSpec => []CostIsLogged
<1>1. CostInv => CostIsLogged
  BY DEF CostInv
<1> QED
  BY <1>1, CostInvInit, CostInvStep, PTL DEF AgentSpec

\* A person has one card, however the model spells the name.
THEOREM CardsStayUnique == AgentSpec => []OneCardPerName
<1>1. CardInv => OneCardPerName
  BY DEF CardInv
<1> QED
  BY <1>1, CardInvInit, CardInvStep, PTL DEF AgentSpec

-----------------------------------------------------------------------------
(* The conversation *)

Ids == Nat \X Nat
Contents == [block : Blocks, id : Ids]
Answers == [block : {[type |-> "result"]}, id : Ids, ok : BOOLEAN]
Messages == [role : {"user", "assistant"}, blocks : Seq(Contents \cup Answers)]

NothingUnknown(blocks) == \A b \in DOMAIN blocks : blocks[b].block.type # "unknown"
DistinctIds(blocks) == \A i, j \in 1..Len(blocks) : blocks[i].id = blocks[j].id => i = j

\* The results sent answer the uses, once and in order.
AnswersTo(sent, uses) ==
    /\ Len(sent) = Len(uses)
    /\ \A i \in 1..Len(sent) : sent[i].id = uses[i].id

Speaker(k) == IF k % 2 = 1 THEN "user" ELSE "assistant"

Conversation(ms) ==
    /\ \A k \in 1..Len(ms) : ms[k].role = Speaker(k) /\ NothingUnknown(ms[k].blocks)
    /\ \A k \in 1..(Len(ms) - 1) : ms[k].role = "assistant" =>
          /\ ToolUses(ms[k].blocks) # <<>>
          /\ AnswersTo(ms[k + 1].blocks, ToolUses(ms[k].blocks))

\* What a filter keeps of blocks with ids of their own has ids of its own.
LEMMA KeptIdsDiffer ==
    ASSUME NEW X, NEW s \in Seq(X), NEW T, DistinctIds(s)
    PROVE  DistinctIds(Keep(s, T))
<1> DEFINE r == Keep(s, T)
<1>1. PICK place : Picks(place, r, s, Len(s))
  BY KeepPicks
<1>2. r \in Seq(X) /\ Len(r) \in Nat /\ Len(s) \in Nat
  BY KeepIsSeq, LenProperties
<1> HIDE DEF r
<1>3. ASSUME NEW i \in 1..Len(r), NEW j \in 1..Len(r), r[i].id = r[j].id PROVE i = j
  <2>1. /\ place[i] \in 1..Len(s) /\ place[j] \in 1..Len(s)
        /\ r[i] = s[place[i]] /\ r[j] = s[place[j]]
    BY <1>1 DEF Picks
  <2>2. place[i] = place[j]
    BY <1>3, <2>1 DEF DistinctIds
  <2>3. ~(i < j) /\ ~(j < i)
    BY <1>1, <2>1, <2>2 DEF Picks
  <2> QED
    BY <1>2, <2>3
<1> QED
  BY <1>3 DEF DistinctIds, r

\* What is kept is in the set and in the sequence.
LEMMA KeptElements ==
    ASSUME NEW X, NEW s \in Seq(X), NEW T, NEW i \in 1..Len(Keep(s, T))
    PROVE  Keep(s, T)[i] \in T /\ Keep(s, T)[i] \in Range(s)
<1> DEFINE r == Keep(s, T)
<1>1. PICK place : Picks(place, r, s, Len(s))
  BY KeepPicks
<1>2. Covers(r, s, T, Len(s))
  BY KeepCovers
<1>3. DOMAIN s = 1..Len(s)
  BY LenProperties
<1> HIDE DEF r
<1>4. i \in 1..Len(r)
  BY DEF r
<1>5. r[i] \in T
  BY <1>2, <1>4 DEF Covers
<1>6. place[i] \in 1..Len(s) /\ r[i] = s[place[i]]
  BY <1>1, <1>4 DEF Picks
<1>7. r[i] \in Range(s)
  BY <1>3, <1>6 DEF Range
<1> QED
  BY <1>5, <1>7 DEF r

\* The blocks of a response that are kept: known, with ids of their own.
LEMMA KnownHolds ==
    ASSUME NEW content \in BoundedSeq(Blocks, MaxBlocks), NEW turn \in Nat
    PROVE  LET known == KnownBlocks(Identified(content, turn))
           IN  /\ known \in Seq(Contents)
               /\ NothingUnknown(known) /\ DistinctIds(known)
<1> DEFINE all == Identified(content, turn)
           T == {b \in Range(all) : b.block.type # "unknown"}
           known == KnownBlocks(all)
<1>1. PICK n \in 0..MaxBlocks : content \in [1..n -> Blocks]
  BY DEF BoundedSeq, SeqOf
<1>2. n \in Nat
  BY <1>1, AgentAssumption
<1>3. all \in [1..n -> Contents] /\ \A k \in 1..n : all[k].id = <<turn, k>>
  BY <1>1, <1>2 DEF Identified, Contents, Ids
<1>4. known = Keep(all, T)
  BY DEF KnownBlocks
<1> HIDE DEF all, T, known
<1>5. all \in Seq(Contents) /\ Len(all) = n
  BY <1>2, <1>3, FunctionIsSeq
<1>6. DistinctIds(all)
  BY <1>2, <1>3, <1>5 DEF DistinctIds
<1>7. known \in Seq(Contents) /\ DistinctIds(known)
  BY <1>4, <1>5, <1>6, KeepIsSeq, KeptIdsDiffer
<1>8. NothingUnknown(known)
  <2>1. DOMAIN known = 1..Len(known)
    BY <1>7, LenProperties
  <2>2. \A i \in 1..Len(known) : known[i] \in T
    BY <1>4, <1>5, KeptElements
  <2> QED
    BY <2>1, <2>2 DEF NothingUnknown, T
<1> QED
  BY <1>7, <1>8 DEF known, all

LEMMA UsesHold ==
    ASSUME NEW X, NEW blocks \in Seq(X)
    PROVE  /\ ToolUses(blocks) \in Seq(X)
           /\ \A i \in 1..Len(ToolUses(blocks)) :
                 ToolUses(blocks)[i] \in Range(blocks) /\ IsUse(ToolUses(blocks)[i])
<1> DEFINE T == {b \in Range(blocks) : IsUse(b)}
<1>1. ToolUses(blocks) = Keep(blocks, T)
  BY DEF ToolUses
<1>2. \A b \in T : IsUse(b)
  OBVIOUS
<1> HIDE DEF T
<1>3. Keep(blocks, T) \in Seq(X)
  BY KeepIsSeq
<1>4. \A i \in 1..Len(Keep(blocks, T)) :
         Keep(blocks, T)[i] \in T /\ Keep(blocks, T)[i] \in Range(blocks)
  BY KeptElements
<1> QED
  BY <1>1, <1>2, <1>3, <1>4

\* A message more, of the other speaker; after a response, the results of its
\* uses.
LEMMA ConversationGrows ==
    ASSUME NEW ms \in Seq(Messages), NEW m \in Messages, Conversation(ms),
           m.role = Speaker(Len(ms) + 1), NothingUnknown(m.blocks),
           Len(ms) > 0 /\ ms[Len(ms)].role = "assistant" =>
              /\ ToolUses(ms[Len(ms)].blocks) # <<>>
              /\ AnswersTo(m.blocks, ToolUses(ms[Len(ms)].blocks))
    PROVE  Conversation(Append(ms, m))
<1> DEFINE n == Len(ms)
           q == Append(ms, m)
<1>1. /\ n \in Nat /\ q \in Seq(Messages) /\ Len(q) = n + 1 /\ q[n + 1] = m
      /\ \A k \in 1..n : q[k] = ms[k]
  BY LenProperties, AppendProperties
<1> HIDE DEF n, q
<1>2. ASSUME NEW k \in 1..Len(q) PROVE q[k].role = Speaker(k) /\ NothingUnknown(q[k].blocks)
  <2>1. CASE k = n + 1
    BY <1>1, <2>1 DEF n
  <2>2. CASE k # n + 1
    <3>1. k \in 1..n /\ q[k] = ms[k]
      BY <1>1, <2>2
    <3> QED
      BY <3>1 DEF Conversation, n
  <2> QED
    BY <2>1, <2>2
<1>3. ASSUME NEW k \in 1..(Len(q) - 1), q[k].role = "assistant"
      PROVE  /\ ToolUses(q[k].blocks) # <<>>
             /\ AnswersTo(q[k + 1].blocks, ToolUses(q[k].blocks))
  <2>1. k \in 1..n /\ q[k] = ms[k]
    BY <1>1
  <2>2. CASE k = n
    <3>1. q[k + 1] = m /\ n > 0
      BY <1>1, <2>2
    <3> QED
      BY <1>3, <2>1, <2>2, <3>1 DEF n
  <2>3. CASE k # n
    <3>1. k \in 1..(n - 1) /\ k + 1 \in 1..n /\ q[k + 1] = ms[k + 1]
      BY <1>1, <2>1, <2>3
    <3> QED
      BY <1>3, <2>1, <3>1 DEF Conversation, n
  <2> QED
    BY <2>2, <2>3
<1> QED
  BY <1>2, <1>3 DEF Conversation, q

\* What the model is told grows with the results of its last response.
LEMMA ToldGrows ==
    ASSUME NEW ms \in Seq(Messages), NEW m \in Messages
    PROVE  ToldAdded(Append(ms, m)) =
             IF Len(ms) > 0 /\ ms[Len(ms)].role = "assistant"
             THEN ToldAdded(ms) \cup AddedBy(ms[Len(ms)].blocks, m.blocks)
             ELSE ToldAdded(ms)
<1> DEFINE n == Len(ms)
           q == Append(ms, m)
           Asked(s) == {k \in 1..(Len(s) - 1) : s[k].role = "assistant"}
           AddedAt(s, k) == AddedBy(s[k].blocks, s[k + 1].blocks)
<1>1. /\ n \in Nat /\ q \in Seq(Messages) /\ Len(q) = n + 1 /\ q[n + 1] = m
      /\ \A k \in 1..n : q[k] = ms[k]
  BY LenProperties, AppendProperties
<1>2. /\ ToldAdded(q) = UNION {AddedAt(q, k) : k \in Asked(q)}
      /\ ToldAdded(ms) = UNION {AddedAt(ms, k) : k \in Asked(ms)}
  BY DEF ToldAdded
<1> HIDE DEF q
<1>3. ASSUME NEW k \in Asked(ms) PROVE k \in Asked(q) /\ AddedAt(q, k) = AddedAt(ms, k)
  <2>1. k \in 1..n /\ k + 1 \in 1..n /\ k \in 1..(Len(q) - 1)
    BY <1>1
  <2>2. q[k] = ms[k] /\ q[k + 1] = ms[k + 1]
    BY <1>1, <2>1
  <2> QED
    BY <2>1, <2>2
<1>4. ASSUME NEW k \in Asked(q) PROVE k \in Asked(ms) \/ (k = n /\ n > 0 /\ ms[n].role = "assistant")
  <2>1. k \in 1..n /\ q[k] = ms[k]
    BY <1>1
  <2>2. CASE k = n
    BY <2>1, <2>2
  <2>3. CASE k # n
    BY <1>1, <2>1, <2>3
  <2> QED
    BY <2>2, <2>3
<1>5. CASE n > 0 /\ ms[n].role = "assistant"
  <2>1. n \in Asked(q) /\ AddedAt(q, n) = AddedBy(ms[n].blocks, m.blocks)
    BY <1>1, <1>5
  <2> HIDE DEF n, Asked, AddedAt
  <2>2. UNION {AddedAt(q, k) : k \in Asked(q)}
          = (UNION {AddedAt(ms, k) : k \in Asked(ms)}) \cup AddedAt(q, n)
    BY <1>3, <1>4, <2>1
  <2> QED
    BY <1>2, <1>5, <2>1, <2>2 DEF n, q
<1>6. CASE ~(n > 0 /\ ms[n].role = "assistant")
  <2> HIDE DEF n, Asked, AddedAt
  <2>1. UNION {AddedAt(q, k) : k \in Asked(q)} = UNION {AddedAt(ms, k) : k \in Asked(ms)}
    BY <1>3, <1>4, <1>6
  <2> QED
    BY <1>2, <1>6, <2>1 DEF n, q
<1> QED
  BY <1>5, <1>6 DEF q

\* One more result adds the item of the use it answers, if that is add_item's.
LEMMA OneMoreAnswered ==
    ASSUME NEW blocks \in Seq(Contents \cup Answers), DistinctIds(blocks),
           NEW use \in Range(blocks), IsUse(use),
           NEW sent \in Seq(Answers), NEW ok \in BOOLEAN, use.id \in Ids
    PROVE  AddedBy(blocks, Append(sent, Result(use, ok))) =
             IF ok /\ use.block.tool = "add_item"
             THEN AddedBy(blocks, sent) \cup {use.id}
             ELSE AddedBy(blocks, sent)
<1> DEFINE r == Result(use, ok)
           q == Append(sent, r)
<1>1. r \in Answers /\ r.id = use.id /\ r.ok = ok
  BY DEF Result, Answers
<1> HIDE DEF r
<1>2. /\ Len(sent) \in Nat /\ q \in Seq(Answers) /\ Len(q) = Len(sent) + 1
      /\ q[Len(sent) + 1] = r /\ \A i \in 1..Len(sent) : q[i] = sent[i]
  BY <1>1, LenProperties, AppendProperties
<1>3. DOMAIN q = 1..(Len(sent) + 1) /\ DOMAIN sent = 1..Len(sent)
  BY <1>2, LenProperties
<1>4. Range(q) = Range(sent) \cup {r}
  <2> HIDE DEF q
  <2>1. ASSUME NEW x \in Range(q) PROVE x \in Range(sent) \cup {r}
    <3>1. PICK i \in 1..(Len(sent) + 1) : x = q[i]
      BY <1>3, <2>1 DEF Range
    <3>2. i = Len(sent) + 1 \/ i \in 1..Len(sent)
      BY <1>2
    <3> QED
      BY <1>2, <1>3, <3>1, <3>2 DEF Range
  <2>2. ASSUME NEW i \in 1..Len(sent) PROVE sent[i] \in Range(q)
    <3>1. i \in 1..(Len(sent) + 1) /\ q[i] = sent[i]
      BY <1>2
    <3> QED
      BY <1>3, <3>1 DEF Range
  <2>3. r \in Range(q)
    BY <1>2, <1>3 DEF Range
  <2> QED
    BY <1>3, <2>1, <2>2, <2>3 DEF Range
<1>5. ASSUME NEW u \in Range(blocks), u.id = use.id PROVE u = use
  <2>1. DOMAIN blocks = 1..Len(blocks)
    BY LenProperties
  <2>2. PICK i \in 1..Len(blocks), j \in 1..Len(blocks) : u = blocks[i] /\ use = blocks[j]
    BY <2>1 DEF Range
  <2> QED
    BY <1>5, <2>2 DEF DistinctIds
<1> DEFINE Adds(u) == IsUse(u) /\ u.block.tool = "add_item"
           Told(u, s) == \E x \in Range(s) : x.id = u.id /\ x.ok
<1>6. \A s : AddedBy(blocks, s) = {u.id : u \in {u \in Range(blocks) : Adds(u) /\ Told(u, s)}}
  BY DEF AddedBy
<1>7. ASSUME NEW u \in Range(blocks) PROVE Told(u, q) <=> Told(u, sent) \/ (u = use /\ ok)
  BY <1>1, <1>4, <1>5
<1> HIDE DEF q, Told
<1>8. CASE ok /\ use.block.tool = "add_item"
  <2>1. Adds(use)
    BY <1>8
  <2> HIDE DEF Adds
  <2>2. {u.id : u \in {u \in Range(blocks) : Adds(u) /\ Told(u, q)}}
          = {u.id : u \in {u \in Range(blocks) : Adds(u) /\ Told(u, sent)}} \cup {use.id}
    BY <1>7, <1>8, <2>1
  <2> QED
    BY <1>6, <1>8, <2>2 DEF q, r
<1>9. CASE ~(ok /\ use.block.tool = "add_item")
  <2>1. \A u \in Range(blocks) : (Adds(u) /\ Told(u, q)) <=> (Adds(u) /\ Told(u, sent))
    BY <1>7, <1>9
  <2> HIDE DEF Adds
  <2>2. {u \in Range(blocks) : Adds(u) /\ Told(u, q)}
          = {u \in Range(blocks) : Adds(u) /\ Told(u, sent)}
    BY <2>1
  <2> QED
    BY <1>6, <1>9, <2>2 DEF q, r
<1> QED
  BY <1>8, <1>9

-----------------------------------------------------------------------------
(* The conversation of a run *)

\* While tools run: the response ends the conversation, the results so far
\* answer its first uses and the rest of them are pending.
MidTurn ==
    LET n    == Len(messages)
        uses == ToolUses(messages[n].blocks)
    IN  /\ n > 0 /\ Speaker(n) = "assistant"
        /\ uses # <<>> /\ DistinctIds(messages[n].blocks)
        /\ Len(results) + Len(pending) = Len(uses)
        /\ \A i \in 1..Len(results) : results[i].id = uses[i].id
        /\ \A i \in 1..Len(pending) : pending[i] = uses[Len(results) + i]

TalkInv ==
    /\ messages \in Seq(Messages)
    /\ pending \in Seq(Contents)
    /\ results \in Seq(Answers)
    /\ phase = "asking" => Speaker(Len(messages)) = "user" /\ Conversation(messages)
    /\ phase = "acting" => MidTurn /\ Conversation(messages)

LEMMA Alternate ==
    ASSUME NEW n \in Nat
    PROVE  Speaker(n + 1) = "user" <=> Speaker(n) = "assistant"
BY DEF Speaker

LEMMA TalkInvInit == AgentInit => TalkInv
BY DEF AgentInit, TalkInv

LEMMA BeginTalk == TalkInv /\ Begin => TalkInv'
<1> SUFFICES ASSUME Begin PROVE TalkInv'
  OBVIOUS
<1> DEFINE first == User(<<>>)
           e == <<>>
<1>1. messages' = <<first>> /\ pending' = e /\ results' = e /\ phase' \in {"asking", "finishing"}
  BY DEF Begin
<1>2. first \in Messages /\ first.role = "user" /\ NothingUnknown(first.blocks)
  BY DEF User, Messages, NothingUnknown
<1> HIDE DEF first
<1>3. /\ <<first>> \in Seq(Messages) /\ Len(<<first>>) = 1 /\ <<first>>[1] = first
  BY <1>2
<1>4. Conversation(<<first>>)
  BY <1>2, <1>3 DEF Conversation, Speaker
<1>5. Speaker(1) = "user"
  BY DEF Speaker
<1>6. e \in Seq(Contents) /\ e \in Seq(Answers)
  OBVIOUS
<1> HIDE DEF e
<1> QED
  BY <1>1, <1>3, <1>4, <1>5, <1>6 DEF TalkInv

LEMMA AnswerTalk == TalkInv /\ ProviderAnswers => TalkInv'
<1> SUFFICES ASSUME TalkInv, ProviderAnswers PROVE TalkInv'
  OBVIOUS
<1>1. PICK content \in BoundedSeq(Blocks, MaxBlocks) :
         LET known == KnownBlocks(Identified(content, Turns))
         IN  /\ messages' = Append(messages, Assistant(known))
             /\ pending' = ToolUses(known)
             /\ results' = <<>>
             /\ IF ToolUses(known) = <<>>
                THEN phase' = "summing" /\ usage' = usage + spent'
                ELSE phase' = "acting" /\ UNCHANGED usage
  BY Zenon DEF ProviderAnswers
<1> DEFINE known == KnownBlocks(Identified(content, Turns))
           uses == ToolUses(known)
           m == Assistant(known)
           n == Len(messages)
           e == <<>>
<1>2. phase = "asking" /\ messages \in Seq(Messages) /\ n \in Nat
  BY LenProperties DEF ProviderAnswers, TalkInv
<1>3. Turns \in Nat
  BY <1>2 DEF Turns
<1>4. known \in Seq(Contents) /\ NothingUnknown(known) /\ DistinctIds(known)
  BY <1>3, KnownHolds
<1>5. /\ messages' = Append(messages, m) /\ pending' = uses /\ results' = e
      /\ phase' = IF uses = <<>> THEN "summing" ELSE "acting"
  BY <1>1
<1>6. m.role = "assistant" /\ m.blocks = known
  BY DEF Assistant
<1> HIDE DEF known
<1>7. m \in Messages
  <2>1. known \in Seq(Contents \cup Answers)
    BY <1>4, SeqMonotonic
  <2> QED
    BY <2>1 DEF Assistant, Messages
<1>8. uses \in Seq(Contents)
  BY <1>4, UsesHold
<1> HIDE DEF m, uses
<1>9. Speaker(n) = "user" /\ Conversation(messages)
  BY <1>2 DEF TalkInv
<1>10. Speaker(n + 1) = "assistant"
  BY <1>2, <1>9, Alternate DEF Speaker
<1>11. ~(n > 0 /\ messages[n].role = "assistant")
  BY <1>2, <1>9 DEF Conversation
<1>12. Conversation(messages')
  BY <1>2, <1>4, <1>5, <1>6, <1>7, <1>9, <1>10, <1>11, ConversationGrows
<1>13. /\ messages' \in Seq(Messages) /\ Len(messages') = n + 1
       /\ messages'[n + 1] = m
  BY <1>2, <1>5, <1>7, AppendProperties
<1>14. e \in Seq(Answers) /\ Len(e) = 0
  OBVIOUS
<1> HIDE DEF e, n
<1>15. MidTurn' \/ uses = <<>>
  <2> SUFFICES ASSUME uses # <<>> PROVE MidTurn'
    OBVIOUS
  <2>1. ToolUses(messages'[Len(messages')].blocks) = uses /\ messages'[Len(messages')].blocks = known
    BY <1>6, <1>13 DEF uses
  <2>2. Len(uses) \in Nat /\ Len(results') = 0 /\ Len(pending') = Len(uses)
    BY <1>5, <1>8, <1>14, LenProperties
  <2>3. n + 1 > 0
    BY <1>2
  <2> QED
    BY <1>4, <1>5, <1>10, <1>13, <2>1, <2>2, <2>3 DEF MidTurn
<1> QED
  BY <1>5, <1>8, <1>12, <1>13, <1>14, <1>15 DEF TalkInv

\* The next use of a response, and what has been answered before it.
NextUse ==
    LET n == Len(messages) IN
    /\ Head(pending) \in Range(messages[n].blocks)
    /\ IsUse(Head(pending)) /\ Head(pending) \in Contents
    /\ Head(pending).block.valid \in BOOLEAN
    /\ Head(pending) = ToolUses(messages[n].blocks)[Len(results) + 1]
    /\ n > 0 /\ messages[n] \in Messages

LEMMA NextUseHolds ==
    ASSUME TalkInv, phase = "acting", pending # <<>>
    PROVE  NextUse
<1> DEFINE n == Len(messages)
           blocks == messages[n].blocks
           uses == ToolUses(blocks)
           use == Head(pending)
<1>1. /\ messages \in Seq(Messages) /\ pending \in Seq(Contents) /\ results \in Seq(Answers)
      /\ MidTurn
  BY DEF TalkInv
<1>2. n \in Nat /\ n > 0
  BY <1>1, LenProperties DEF MidTurn
<1>3. messages[n] \in Messages
  BY <1>1, <1>2, ElementOfSeq
<1>4. blocks \in Seq(Contents \cup Answers)
  BY <1>3 DEF Messages
<1>5. use \in Contents /\ use = pending[1] /\ Len(pending) > 0
  BY <1>1, HeadTailProperties, EmptySeq
<1>6. Len(results) \in Nat /\ Len(pending) \in Nat
  BY <1>1, LenProperties
<1>7. use = uses[Len(results) + 1] /\ Len(results) + 1 \in 1..Len(uses)
  BY <1>1, <1>5, <1>6 DEF MidTurn
<1>8. use \in Range(blocks) /\ IsUse(use)
  <2> HIDE DEF blocks, use
  <2> QED
    BY <1>4, <1>7, UsesHold
<1>9. use.block \in Blocks /\ use.block.type = "use"
  <2> HIDE DEF use
  <2> QED
    BY <1>5, <1>8 DEF Contents, IsUse
<1>10. use.block.valid \in BOOLEAN
  BY <1>9, AgentAssumption
<1> QED
  BY <1>2, <1>3, <1>5, <1>7, <1>8, <1>10 DEF NextUse

\* A tool answers, whatever it answers.
LEMMA ToolTalk ==
    ASSUME TalkInv, phase = "acting", pending # <<>>, NEW ok \in BOOLEAN, Answered(ok)
    PROVE  TalkInv'
<1> DEFINE n == Len(messages)
           uses == ToolUses(messages[n].blocks)
           use == Head(pending)
           r == Result(use, ok)
<1>1. /\ messages \in Seq(Messages) /\ pending \in Seq(Contents) /\ results \in Seq(Answers)
      /\ MidTurn /\ Conversation(messages)
  BY DEF TalkInv
<1>2. NextUse
  BY NextUseHolds
<1>3. r \in Answers /\ r.id = use.id
  BY <1>2 DEF NextUse, Contents, Answers, Result
<1>4. /\ results' = Append(results, r) /\ pending' = Tail(pending)
      /\ messages' = messages /\ phase' = phase
  BY DEF Answered
<1> HIDE DEF r
<1>5. /\ results' \in Seq(Answers) /\ Len(results') = Len(results) + 1
      /\ results'[Len(results) + 1] = r
      /\ \A i \in 1..Len(results) : results'[i] = results[i]
      /\ Len(results) \in Nat
  BY <1>1, <1>3, <1>4, AppendProperties, LenProperties
<1>6. /\ pending' \in Seq(Contents) /\ Len(pending') = Len(pending) - 1
      /\ \A i \in 1..Len(pending') : pending'[i] = pending[i + 1]
      /\ Len(pending) \in Nat \ {0}
  BY <1>1, <1>4, HeadTailProperties, EmptySeq
<1>7. use = uses[Len(results) + 1]
  BY <1>2 DEF NextUse
<1>8. /\ n > 0 /\ Speaker(n) = "assistant"
      /\ uses # <<>> /\ DistinctIds(messages[n].blocks)
      /\ Len(results) + Len(pending) = Len(uses)
      /\ \A i \in 1..Len(results) : results[i].id = uses[i].id
      /\ \A i \in 1..Len(pending) : pending[i] = uses[Len(results) + i]
  BY <1>1 DEF MidTurn
<1> HIDE DEF use, uses, n
<1>9. Len(results') + Len(pending') = Len(uses)
  <2>1. Len(results') + Len(pending') = Len(results) + Len(pending)
    BY ONLY <1>5, <1>6
  <2> QED
    BY <1>8, <2>1
<1>10. ASSUME NEW i \in 1..Len(results') PROVE results'[i].id = uses[i].id
  <2>1. i = Len(results) + 1 \/ i \in 1..Len(results)
    BY <1>5
  <2> QED
    BY <1>3, <1>5, <1>7, <1>8, <2>1
<1>11. ASSUME NEW i \in 1..Len(pending') PROVE pending'[i] = uses[Len(results') + i]
  <2>1. i + 1 \in 1..Len(pending) /\ Len(results) + (i + 1) = Len(results') + i
    BY <1>5, <1>6
  <2> QED
    BY <1>6, <1>8, <2>1
<1>12. MidTurn'
  BY <1>4, <1>8, <1>9, <1>10, <1>11 DEF MidTurn, n, uses
<1> QED
  BY <1>1, <1>4, <1>5, <1>6, <1>12 DEF TalkInv

LEMMA SendTalk == TalkInv /\ SendResults => TalkInv'
<1> SUFFICES ASSUME TalkInv, SendResults PROVE TalkInv'
  OBVIOUS
<1> DEFINE n == Len(messages)
           m == User(results)
<1>1. /\ messages \in Seq(Messages) /\ pending \in Seq(Contents) /\ results \in Seq(Answers)
      /\ MidTurn /\ Conversation(messages) /\ n \in Nat
  BY LenProperties DEF TalkInv, SendResults
<1>2. /\ messages' = Append(messages, m) /\ phase' = "asking"
      /\ pending' = pending /\ results' = results /\ pending = <<>>
  BY DEF SendResults
<1>3. m.role = "user" /\ m.blocks = results
  BY DEF User
<1>4. m \in Messages
  <2>1. results \in Seq(Contents \cup Answers)
    BY <1>1, SeqMonotonic
  <2> QED
    BY <2>1 DEF User, Messages
<1>5. NothingUnknown(results)
  <2>1. ASSUME NEW i \in DOMAIN results PROVE results[i].block.type # "unknown"
    <3>1. results[i] \in Answers
      BY <1>1, <2>1, LenProperties, ElementOfSeq
    <3> QED
      BY <3>1 DEF Answers
  <2> QED
    BY <2>1 DEF NothingUnknown
<1> HIDE DEF m
<1>6. Len(pending) = 0 /\ Len(results) \in Nat
  BY <1>1, <1>2, LenProperties, EmptySeq
<1>7. /\ Speaker(n) = "assistant" /\ ToolUses(messages[n].blocks) # <<>>
      /\ AnswersTo(m.blocks, ToolUses(messages[n].blocks))
  BY <1>1, <1>3, <1>6 DEF MidTurn, AnswersTo
<1>8. Speaker(n + 1) = "user"
  BY <1>1, <1>7, Alternate
<1>9. Conversation(messages')
  BY <1>1, <1>2, <1>3, <1>4, <1>5, <1>7, <1>8, ConversationGrows
<1>10. messages' \in Seq(Messages) /\ Len(messages') = n + 1
  BY <1>1, <1>2, <1>4, AppendProperties
<1> QED
  BY <1>1, <1>2, <1>8, <1>9, <1>10 DEF TalkInv

LEMMA TalkInvStep == TalkInv /\ [AgentNext]_agentVars => TalkInv'
<1> SUFFICES ASSUME TalkInv, [AgentNext]_agentVars PROVE TalkInv'
  OBVIOUS
<1>1. ASSUME UNCHANGED <<messages, pending, results>>,
             phase' = phase \/ phase' \in {"rest", "failing", "finishing"}
      PROVE  TalkInv'
  BY <1>1 DEF TalkInv, MidTurn
<1>2. CASE Begin
  BY <1>2, BeginTalk
<1>3. CASE ProviderAnswers
  BY <1>3, AnswerTalk
<1>4. CASE AddItem \/ UpsertContact \/ WriteReport \/ UnknownTool
  <2>1. phase = "acting" /\ pending # <<>>
    BY <1>4 DEF AddItem, UpsertContact, WriteReport, UnknownTool, Due
  <2>2. Head(pending).block.valid \in BOOLEAN
    BY <2>1, NextUseHolds DEF NextUse
  <2>3. \E ok \in BOOLEAN : Answered(ok)
    BY <1>4, <2>2 DEF AddItem, UpsertContact, WriteReport, UnknownTool
  <2> QED
    BY <2>1, <2>3, ToolTalk
<1>5. CASE SendResults
  BY <1>5, SendTalk
<1>6. CASE DeleteMeanwhile \/ ProcessDies \/ ExitWriteFails
  BY <1>1, <1>6 DEF DeleteMeanwhile, ProcessDies, ExitWriteFails, loopVars
<1>7. CASE ProviderFails \/ TurnsRunOut \/ SummaryFails \/ SummaryAnswers
  BY <1>1, <1>7 DEF ProviderFails, TurnsRunOut, RunFails, SummaryFails, SummaryAnswers, loopVars
<1>8. CASE ExitProcessed \/ ExitFailed \/ UNCHANGED agentVars
  BY <1>1, <1>8 DEF ExitProcessed, ExitFailed, Leave, loopVars, agentVars
<1> QED
  BY <1>2, <1>3, <1>4, <1>5, <1>6, <1>7, <1>8 DEF AgentNext

-----------------------------------------------------------------------------
(* The board of a run *)

ItemsOf(ids) == {<<attempt, id>> : id \in ids}

\* What the answers of the response under way have added.
NowAdded == AddedBy(messages[Len(messages)].blocks, results)

\* The sink holds what the model is told, the board what the sink holds unless
\* the walk is deleted meanwhile.
BoardInv ==
    /\ phase \in {"asking", "summing", "finishing"} => created = ItemsOf(ToldAdded(messages))
    /\ phase = "acting" => created = ItemsOf(ToldAdded(messages) \cup NowAdded)
    /\ phase # "rest" => walk # "processed" /\ (walk # "deleted" => items = created)
    /\ walk = "processed" => items = ItemsOf(ToldAdded(messages))

LEMMA BoardInvInit == AgentInit => BoardInv
BY DEF AgentInit, BoardInv

\* A conversation of one message tells nothing.
LEMMA NothingToldYet ==
    ASSUME NEW m
    PROVE  ToldAdded(<<m>>) = {}
<1>1. Len(<<m>>) = 1
  OBVIOUS
<1> QED
  BY <1>1 DEF ToldAdded

LEMMA NothingAnsweredYet ==
    ASSUME NEW blocks
    PROVE  AddedBy(blocks, <<>>) = {}
<1>1. Range(<<>>) = {}
  BY DEF Range
<1> QED
  BY <1>1 DEF AddedBy

LEMMA AnswerBoard == TalkInv /\ BoardInv /\ ProviderAnswers => BoardInv'
<1> SUFFICES ASSUME TalkInv, BoardInv, ProviderAnswers PROVE BoardInv'
  OBVIOUS
<1>1. PICK content \in BoundedSeq(Blocks, MaxBlocks) :
         LET known == KnownBlocks(Identified(content, Turns))
         IN  /\ messages' = Append(messages, Assistant(known))
             /\ pending' = ToolUses(known)
             /\ results' = <<>>
             /\ IF ToolUses(known) = <<>>
                THEN phase' = "summing" /\ usage' = usage + spent'
                ELSE phase' = "acting" /\ UNCHANGED usage
  BY Zenon DEF ProviderAnswers
<1> DEFINE known == KnownBlocks(Identified(content, Turns))
           m == Assistant(known)
           n == Len(messages)
<1>2. /\ phase = "asking" /\ messages \in Seq(Messages) /\ n \in Nat
      /\ Speaker(n) = "user" /\ Conversation(messages)
  BY LenProperties DEF ProviderAnswers, TalkInv
<1>3. /\ messages' = Append(messages, m) /\ results' = <<>>
      /\ phase' \in {"summing", "acting"}
      /\ UNCHANGED <<walk, attempt, created, items>>
  BY <1>1 DEF ProviderAnswers, rowVars
<1>4. Turns \in Nat
  BY <1>2 DEF Turns
<1>5. m \in Messages
  <2>1. known \in Seq(Contents)
    BY <1>4, KnownHolds
  <2> HIDE DEF known
  <2>2. known \in Seq(Contents \cup Answers)
    BY <2>1, SeqMonotonic
  <2> QED
    BY <2>2 DEF Assistant, Messages
<1> HIDE DEF m
<1>6. ~(n > 0 /\ messages[n].role = "assistant")
  BY <1>2 DEF Conversation, Speaker
<1>7. ToldAdded(messages') = ToldAdded(messages)
  BY <1>2, <1>3, <1>5, <1>6, ToldGrows
<1>8. NowAdded' = {}
  BY <1>3, NothingAnsweredYet DEF NowAdded
<1>9. created' = ItemsOf(ToldAdded(messages))'
  BY <1>2, <1>3, <1>7 DEF BoardInv, ItemsOf
<1>10. created' = ItemsOf(ToldAdded(messages) \cup NowAdded)'
  BY <1>8, <1>9 DEF ItemsOf
<1> QED
  BY <1>2, <1>3, <1>9, <1>10 DEF BoardInv

LEMMA SendBoard == TalkInv /\ BoardInv /\ SendResults => BoardInv'
<1> SUFFICES ASSUME TalkInv, BoardInv, SendResults PROVE BoardInv'
  OBVIOUS
<1> DEFINE n == Len(messages)
           m == User(results)
<1>1. /\ phase = "acting" /\ messages \in Seq(Messages) /\ results \in Seq(Answers)
      /\ MidTurn /\ Conversation(messages) /\ n \in Nat
  BY LenProperties DEF TalkInv, SendResults
<1>2. /\ messages' = Append(messages, m) /\ phase' = "asking"
      /\ UNCHANGED <<walk, attempt, created, items>>
  BY DEF SendResults, rowVars
<1>3. m \in Messages /\ m.blocks = results
  <2>1. results \in Seq(Contents \cup Answers)
    BY <1>1, SeqMonotonic
  <2> QED
    BY <2>1 DEF User, Messages
<1> HIDE DEF m
<1>4. n > 0 /\ messages[n].role = "assistant"
  BY <1>1 DEF MidTurn, Conversation
<1>5. ToldAdded(messages') = ToldAdded(messages) \cup NowAdded
  BY <1>1, <1>2, <1>3, <1>4, ToldGrows DEF NowAdded
<1> QED
  BY <1>1, <1>2, <1>5 DEF BoardInv, ItemsOf

\* A tool adds to the sink and to the board the item it reports, or nothing.
LEMMA ToolBoard ==
    ASSUME TalkInv, BoardInv, phase = "acting", pending # <<>>,
           NEW ok \in BOOLEAN, Answered(ok),
           LET use == Head(pending)
               row == IF ok /\ use.block.tool = "add_item" THEN {<<attempt, use.id>>} ELSE {}
           IN  /\ created' = created \cup row
               /\ items' = items \cup row
    PROVE  BoardInv'
<1> DEFINE n == Len(messages)
           use == Head(pending)
           new == IF ok /\ use.block.tool = "add_item" THEN {use.id} ELSE {}
<1>1. /\ results \in Seq(Answers) /\ MidTurn /\ NextUse
  BY NextUseHolds DEF TalkInv
<1>2. /\ use \in Range(messages[n].blocks) /\ IsUse(use) /\ use.id \in Ids
      /\ messages[n].blocks \in Seq(Contents \cup Answers)
      /\ DistinctIds(messages[n].blocks)
  BY <1>1 DEF NextUse, Contents, Messages, MidTurn
<1>3. /\ results' = Append(results, Result(use, ok))
      /\ UNCHANGED <<messages, phase, walk, attempt>>
  BY DEF Answered
<1>4. NowAdded' = NowAdded \cup new
  BY <1>1, <1>2, <1>3, OneMoreAnswered DEF NowAdded
<1>5. created' = created \cup {<<attempt, id>> : id \in new}
  BY Zenon
<1>6. items' = items \cup {<<attempt, id>> : id \in new}
  BY Zenon
<1> HIDE DEF new
<1>7. created' = ItemsOf(ToldAdded(messages) \cup NowAdded)'
  BY <1>3, <1>4, <1>5 DEF BoardInv, ItemsOf
<1> QED
  BY <1>3, <1>5, <1>6, <1>7 DEF BoardInv

LEMMA ToolsBoard ==
    ASSUME TalkInv, BoardInv, AddItem \/ UpsertContact \/ WriteReport \/ UnknownTool
    PROVE  BoardInv'
<1> DEFINE use == Head(pending)
           row(ok) == IF ok /\ use.block.tool = "add_item" THEN {<<attempt, use.id>>} ELSE {}
<1>1. phase = "acting" /\ pending # <<>>
  BY DEF AddItem, UpsertContact, WriteReport, UnknownTool, Due
<1>2. use.block.valid \in BOOLEAN
  BY <1>1, NextUseHolds DEF NextUse
<1>3. CASE AddItem
  <2> DEFINE ok == use.block.valid /\ walk # "deleted"
  <2>1. /\ use.block.tool = "add_item" /\ Answered(ok)
        /\ items' = items \cup (IF ok THEN {<<attempt, use.id>>} ELSE {})
        /\ created' = created \cup (IF ok THEN {<<attempt, use.id>>} ELSE {})
    BY <1>3 DEF AddItem, Due
  <2>2. ok \in BOOLEAN
    OBVIOUS
  <2> HIDE DEF ok
  <2>3. items' = items \cup row(ok) /\ created' = created \cup row(ok)
    BY <2>1
  <2> QED
    BY <1>1, <2>1, <2>2, <2>3, ToolBoard
<1>4. CASE UpsertContact \/ WriteReport \/ UnknownTool
  <2>1. /\ use.block.tool \in {"upsert_contact", "write_report", "no_such_tool"}
        /\ items' = items /\ created' = created
        /\ \E ok \in BOOLEAN : Answered(ok)
    BY <1>2, <1>4 DEF UpsertContact, WriteReport, UnknownTool, Due, rowVars
  <2>2. PICK ok \in BOOLEAN : Answered(ok)
    BY <2>1
  <2>3. row(ok) = {}
    BY <2>1
  <2>4. items' = items \cup row(ok) /\ created' = created \cup row(ok)
    BY <2>1, <2>3
  <2> QED
    BY <1>1, <2>2, <2>4, ToolBoard
<1> QED
  BY <1>3, <1>4

LEMMA BoardInvStep == TalkInv /\ BoardInv /\ [AgentNext]_agentVars => BoardInv'
<1> SUFFICES ASSUME TalkInv, BoardInv, [AgentNext]_agentVars PROVE BoardInv'
  OBVIOUS
<1>1. CASE Begin
  <2> DEFINE first == User(<<>>)
  <2>1. /\ messages' = <<first>> /\ created' = {} /\ items' = {} /\ walk' = walk
        /\ phase' \in {"asking", "finishing"} /\ walk \in {"awaiting", "failed"}
    BY <1>1 DEF Begin
  <2> HIDE DEF first
  <2>2. ToldAdded(messages') = {}
    BY <2>1, NothingToldYet
  <2> QED
    BY <2>1, <2>2 DEF BoardInv, ItemsOf
<1>2. CASE ProviderAnswers
  BY <1>2, AnswerBoard
<1>3. CASE AddItem \/ UpsertContact \/ WriteReport \/ UnknownTool
  BY <1>3, ToolsBoard
<1>4. CASE SendResults
  BY <1>4, SendBoard
<1>5. CASE DeleteMeanwhile
  <2>1. /\ walk' = "deleted" /\ walk # "deleted" /\ items' = {}
        /\ UNCHANGED <<attempt, phase, messages, results, created>>
    BY <1>5 DEF DeleteMeanwhile, loopVars
  <2> QED
    BY <2>1 DEF BoardInv, ItemsOf, NowAdded
<1>6. CASE ProcessDies \/ ExitWriteFails
  <2>1. /\ phase # "rest" /\ phase' = "rest"
        /\ UNCHANGED <<walk, attempt, messages, results, created, items>>
    BY <1>6 DEF ProcessDies, ExitWriteFails, loopVars, rowVars
  <2> QED
    BY <2>1 DEF BoardInv, ItemsOf
<1>7. CASE ProviderFails \/ TurnsRunOut \/ SummaryFails \/ SummaryAnswers
  <2>1. /\ phase \in {"asking", "summing"}
        /\ phase' = "failing" \/ (phase = "summing" /\ phase' = "finishing")
        /\ UNCHANGED <<walk, attempt, messages, results, created, items>>
    BY <1>7 DEF ProviderFails, TurnsRunOut, RunFails, SummaryFails, SummaryAnswers, loopVars, rowVars
  <2> QED
    BY <2>1 DEF BoardInv, ItemsOf
<1>8. CASE ExitProcessed
  <2>1. /\ phase = "finishing" /\ walk # "deleted" /\ phase' = "rest"
        /\ items' = items \cap created
        /\ UNCHANGED <<attempt, messages, created>>
    BY <1>8 DEF ExitProcessed, Leave, loopVars
  <2>2. items' = ItemsOf(ToldAdded(messages))
    BY <2>1 DEF BoardInv
  <2> QED
    BY <2>1, <2>2 DEF BoardInv, ItemsOf
<1>9. CASE ExitFailed
  <2>1. walk' = "failed" /\ phase' = "rest"
    BY <1>9 DEF ExitFailed, Leave
  <2> QED
    BY <2>1 DEF BoardInv
<1>10. CASE UNCHANGED agentVars
  BY <1>10 DEF agentVars, BoardInv, ItemsOf, NowAdded
<1> QED
  BY <1>1, <1>2, <1>3, <1>4, <1>5, <1>6, <1>7, <1>8, <1>9, <1>10 DEF AgentNext

-----------------------------------------------------------------------------

\* Every request the loop sends is one the provider takes: the roles
\* alternate and every tool use is answered in the next message, for any
\* number of turns and of tools in one.
THEOREM RequestsStayWellFormed == AgentSpec => []RequestsAreWellFormed
<1>1. TalkInv => RequestsAreWellFormed
  <2> SUFFICES ASSUME TalkInv, phase = "asking" PROVE RequestsAreWellFormed
    BY DEF RequestsAreWellFormed
  <2> DEFINE n == Len(messages)
  <2>1. /\ messages \in Seq(Messages) /\ Speaker(n) = "user" /\ Conversation(messages)
        /\ n \in Nat /\ DOMAIN messages = 1..n
    BY LenProperties DEF TalkInv
  <2>2. n % 2 = 1
    BY <2>1 DEF Speaker
  <2>3. ASSUME NEW k \in 1..n
        PROVE  /\ messages[k].role = (IF k % 2 = 1 THEN "user" ELSE "assistant")
               /\ \A b \in DOMAIN messages[k].blocks : messages[k].blocks[b].block.type # "unknown"
    BY <2>1 DEF Conversation, NothingUnknown, Speaker
  <2>4. ASSUME NEW k \in 1..n, messages[k].role = "assistant"
        PROVE  LET uses == ToolUses(messages[k].blocks)
                   sent == messages[k + 1].blocks
               IN  /\ uses # <<>>
                   /\ [i \in DOMAIN sent |-> sent[i].id] = [i \in DOMAIN uses |-> uses[i].id]
    <3> DEFINE uses == ToolUses(messages[k].blocks)
               sent == messages[k + 1].blocks
    <3>1. k # n
      BY <2>1, <2>2, <2>4 DEF Conversation, Speaker
    <3>2. k \in 1..(n - 1) /\ k + 1 \in 1..n
      <4> HIDE DEF n
      <4> QED
        BY <2>1, <3>1
    <3>3. uses # <<>> /\ AnswersTo(sent, uses)
      BY <2>1, <2>4, <3>2 DEF Conversation
    <3>4. uses \in Seq(Contents \cup Answers) /\ sent \in Seq(Contents \cup Answers)
      <4>1. messages[k] \in Messages /\ messages[k + 1] \in Messages
        BY <2>1, <3>2, ElementOfSeq
      <4>2. messages[k].blocks \in Seq(Contents \cup Answers) /\ sent \in Seq(Contents \cup Answers)
        BY <4>1 DEF Messages
      <4> QED
        BY <4>2, UsesHold
    <3> HIDE DEF uses, sent
    <3>5. DOMAIN uses = 1..Len(uses) /\ DOMAIN sent = 1..Len(sent)
      BY <3>4, LenProperties
    <3>6. DOMAIN sent = DOMAIN uses /\ \A i \in DOMAIN sent : sent[i].id = uses[i].id
      BY <3>3, <3>5 DEF AnswersTo
    <3>7. [i \in DOMAIN sent |-> sent[i].id] = [i \in DOMAIN uses |-> uses[i].id]
      BY <3>6
    <3> QED
      BY <3>3, <3>7 DEF uses, sent
  <2> QED
    BY <2>1, <2>2, <2>3, <2>4 DEF RequestsAreWellFormed
<1> QED
  BY <1>1, TalkInvInit, TalkInvStep, PTL DEF AgentSpec

\* The board of a processed walk is what the model was told it is, for every
\* conversation and whatever was deleted, died or failed before.
THEOREM BoardStaysAsTold == AgentSpec => []BoardIsWhatWasTold
<1>1. BoardInv => BoardIsWhatWasTold
  BY DEF BoardInv, BoardIsWhatWasTold, ItemsOf
<1> QED
  BY <1>1, TalkInvInit, TalkInvStep, BoardInvInit, BoardInvStep, PTL DEF AgentSpec
=============================================================================
