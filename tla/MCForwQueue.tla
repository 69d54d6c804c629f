----------------------------- MODULE MCForwQueue -----------------------------
(* ForwQueue for TLC: the configurations give the constants. *)
EXTENDS ForwQueue
=============================================================================
