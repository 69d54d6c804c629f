------------------------------- MODULE MCBisect -------------------------------
(* batctl bisect_iv by itself, for TLC. *)
EXTENDS BisectIv

CONSTANTS a, b, d

\* The hash table of the nodes is walked in this order.
NodeOrder == <<a, b, d>>
===============================================================================
