------------------------- MODULE MCTrafficGenerator ------------------------
(* The program with a few clients and small queues. *)
EXTENDS TrafficGenerator, TLC

\* Connections and flows are only ever compared for equality.
Symmetry == Permutations(Conns) \cup Permutations(Flows)
=============================================================================
