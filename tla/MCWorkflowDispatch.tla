------------------------- MODULE MCWorkflowDispatch -------------------------
(* Instances of WorkflowDispatch for TLC.                                     *)
EXTENDS WorkflowDispatch, TLC

CONSTANTS s1, s2, cli

\* The two schedulers run the same code and nothing orders them; used for safety only.
SchedulerSymmetry == Permutations({s1, s2})
=============================================================================
