----------------------------- MODULE MCWorkflow -----------------------------
(* Instances of Workflow for TLC.                                          *)
EXTENDS WorkflowInductive, TLC

(* Workflows differ by nothing but their names.                            *)
Symmetry == Permutations(Workflows)
=============================================================================
