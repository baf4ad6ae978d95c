---------------------------- MODULE MCWorkflowRuns ----------------------------
(***************************************************************************)
(* Small instances of WorkflowRuns for TLC.                                *)
(***************************************************************************)
EXTENDS WorkflowRuns, TLC

\* Requests are interchangeable, and so are runs.
Symmetry == Permutations(Calls) \cup Permutations(Runs)
===============================================================================
