--------------------------- MODULE MCWorkflowView ---------------------------
(* Instances of WorkflowView for TLC.                                      *)
EXTENDS WorkflowView, TLC

\* Runs and queries are interchangeable; no checked formula names one.
Symmetry == Permutations(Workflows) \cup Permutations(Queries)
=============================================================================
