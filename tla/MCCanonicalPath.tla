--------------------------- MODULE MCCanonicalPath ---------------------------
(* CanonicalPath with symmetric workers and background threads. *)
EXTENDS CanonicalPath, TLC

Symmetry == Permutations(Worker) \cup Permutations(Background)
=============================================================================
