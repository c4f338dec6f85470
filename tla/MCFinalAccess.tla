--------------------------- MODULE MCFinalAccess ---------------------------
(* The places of commands, the commits and the workflow runs are each      *)
(* interchangeable.                                                        *)
EXTENDS FinalAccess, TLC

Symmetry == Permutations(Invocations) \cup Permutations(Commits) \cup Permutations(WorkflowRuns)
=============================================================================
