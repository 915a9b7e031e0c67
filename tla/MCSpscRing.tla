---------------------------- MODULE MCSpscRing ----------------------------
(* The ring on small instances. *)
EXTENDS SpscRing

CONSTANTS a, b, MaxBulk

MCMsgs == {a, b}

\* Every array of up to MaxBulk values.
MCBulks == UNION {[1..n -> MCMsgs] : n \in 0..MaxBulk}
=============================================================================
