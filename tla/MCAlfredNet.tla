----------------------------- MODULE MCAlfredNet -----------------------------
(* Small instances of AlfredNet for TLC. *)
EXTENDS AlfredNet, TLC

Symmetry == Permutations(Masters) \cup Permutations(Nodes \ Masters)
==============================================================================
