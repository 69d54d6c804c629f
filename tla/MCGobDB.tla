------------------------------- MODULE MCGobDB -------------------------------
(* Small instances of GobDB for TLC. *)
EXTENDS GobDB, TLC

\* Requests and struct values are interchangeable: nothing compares them
\* except for equality.
Symmetry == Permutations(Requests) \cup Permutations(Values)
==============================================================================
