------------------------------ MODULE MCAlfredTx ------------------------------
(* Small instances of AlfredTx for TLC. *)
EXTENDS AlfredTx, TLC

\* Two versions of the data that take two packets and one.
SomeCounts == <<2, 1>>
Symmetry == Permutations(Clients) \cup Permutations(Pushes)
===============================================================================
