--------------------------- MODULE MCSealedStudy ---------------------------
(* Two runs with the same inputs, and one with inputs of its own. *)
EXTENDS SealedStudy

MCRuns == {"first", "second", "other"}
MCPreFinalIds == {"p", "q"}
MCPreFinal == [r \in MCRuns |-> IF r = "other" THEN "q" ELSE "p"]
=============================================================================
