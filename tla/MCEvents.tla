------------------------------ MODULE MCEvents ------------------------------
(* The scheduler's timers, and next to them the handles that own timers.  In  *)
(* the code one thread works with both; here each goes its own way, so that   *)
(* one run checks both.                                                       *)
EXTENDS EventScheduler, EventHandle

MCInit == Init /\ HandleInit

MCNext == \/ Next /\ UNCHANGED handleVars
          \/ HandleNext /\ UNCHANGED vars

MCSpec == MCInit /\ [][MCNext]_<<vars, handleVars>> /\ Fairness
=============================================================================
