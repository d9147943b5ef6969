------------------------------ MODULE MCMemory ------------------------------
(* Small values for the memory: two spellings of one term, a second term and  *)
(* a person of two words, of which at most two words fit.                     *)
EXTENDS MemoryStore

McTexts == {"swale", "Swale", "mulch", "Dana"}
McTerms == {"swale", "Swale", "mulch"}
McKey == [t \in McTexts |-> IF t = "Swale" THEN "swale" ELSE t]
McWords == [t \in McTexts |-> IF t = "Dana" THEN 2 ELSE 1]
McPack == <<"swale", "mulch">>
McAnswers == {<<>>, <<"Dana">>, <<"swale", "mulch">>}

\* Every step: calls overlap as they please.
McSteps == {"shift2", "shift1", "snap", "open", "write", "rename",
            "shift2_pre", "shift1_pre", "snap_pre", "open_pre", "write_pre",
            "rename_pre", "asking"}
=============================================================================
