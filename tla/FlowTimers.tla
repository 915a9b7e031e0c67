----------------------------- MODULE FlowTimers -----------------------------
(***************************************************************************)
(* The contract between whoever owns flows and whoever fires their timers. *)
(* Three modules describe this part of the generation thread, each for its *)
(* own purpose: GenManager with the messages around it, EventScheduler     *)
(* with DPDK's lists, FlowsGenerator with packets and times.  Each of them *)
(* implements this contract, so they speak of the same thing.              *)
(*                                                                         *)
(* Flows and their timers come and go together, and never while the        *)
(* callbacks of expired timers are under way; only timers that are armed   *)
(* fire, each once per pass; and the callback alone arms a timer again.    *)
(***************************************************************************)
CONSTANT Flow     \* the flows of a generation

VARIABLES flows,  \* those that exist: none or all
          armed,  \* those whose timer is pending or has to be called back
          due     \* those of which this pass has still to call the callback

vars == <<flows, armed, due>>

Init == flows = {} /\ armed = {} /\ due = {}

\* A generation begins: every flow is there and has its timer armed.
Begin == /\ flows = {} /\ flows' = Flow
         /\ armed = {} /\ armed' = Flow
         /\ due = {} /\ UNCHANGED due

\* A pass finds some of the armed timers expired.
StartPass == /\ due = {} /\ due' \in SUBSET armed
             /\ UNCHANGED <<flows, armed>>

\* Flow f's callback returns, with the timer armed again or not.
Fire(f) == /\ f \in due /\ due' = due \ {f}
           /\ armed' \in {armed, armed \ {f}}
           /\ UNCHANGED flows

\* A generation ends: all timers are returned.
End == /\ flows' = {} /\ armed' = {}
       /\ due = {} /\ UNCHANGED due

Next == Begin \/ StartPass \/ End \/ \E f \in Flow : Fire(f)

Spec == Init /\ [][Next]_vars
=============================================================================
