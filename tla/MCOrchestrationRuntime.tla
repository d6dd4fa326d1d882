----------------------- MODULE MCOrchestrationRuntime -----------------------
(* Instances of OrchestrationRuntime for TLC. *)
EXTENDS OrchestrationRuntime, TLC

RunSymmetry == Permutations(RunId)
=============================================================================
