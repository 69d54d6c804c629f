---------------------------- MODULE MCTransTable ----------------------------
(* TransTable for TLC: the configurations give the constants. *)
EXTENDS TransTable

\* An entry of zeros
MCJunk == {ChangeOf(Zero, FALSE, FALSE)}

\* The receivers are interchangeable.
Symmetry == Permutations(Receivers)
=============================================================================
