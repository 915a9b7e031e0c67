-------------------------- MODULE MCFlowsGenerator --------------------------
(* A capture of three packets, replayed by two flows. *)
EXTENDS FlowsGenerator

\* Three packets, unevenly spaced.
ThreePackets == <<5, 6, 9>>

\* x.x.x.2/31, x.x.x.4/30 and x.x.x.0/29: networks with none, two and six hosts.
NoHosts == [first |-> 2, size |-> 2]
TwoHosts == [first |-> 4, size |-> 4]
SixHosts == [first |-> 0, size |-> 8]
=============================================================================
