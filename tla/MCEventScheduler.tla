-------------------------- MODULE MCEventScheduler --------------------------
(* The events of a few flows, on one lcore or on two. *)
EXTENDS EventScheduler
=============================================================================
