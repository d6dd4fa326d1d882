-------------------------- MODULE MCExecutionLayer --------------------------
(* One or two missions over one workspace. *)
EXTENDS ExecutionLayer

CONSTANTS
  t1,          \* a mission of every run
  a1, a2, b1   \* contents of patch files

\* The first mission's file may be rewritten once, the other's is fixed.
MCPatchOf == [t \in Task |-> IF t = t1 THEN {a1, a2} ELSE {b1}]
=============================================================================
