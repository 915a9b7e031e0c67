---------------------------- MODULE BoundedFifo ----------------------------
(***************************************************************************)
(* What `put::spsc_ring` promises to its two threads: a first-in first-out *)
(* buffer of at most Capacity messages.  A push appends the messages it    *)
(* accepts, a pop hands over messages from the front in order; a call that *)
(* is refused changes nothing, so it is a stuttering step here.            *)
(*                                                                         *)
(* `batch` is what the consumer's current (or last) call has handed over;  *)
(* it makes the delivered messages, and not only the stored ones, visible  *)
(* to whoever refines this module.                                         *)
(***************************************************************************)
EXTENDS Naturals, Sequences

CONSTANTS Msgs,      \* the messages that can be stored
          Capacity   \* the number of messages the buffer holds at most

VARIABLES queue, batch

vars == <<queue, batch>>

Init == queue = <<>> /\ batch = <<>>

\* A push of one or of several messages is seen by the consumer at once.
Put == /\ \E n \in 1..(Capacity - Len(queue)) :
             \E ms \in [1..n -> Msgs] : queue' = queue \o ms
       /\ UNCHANGED batch

\* The consumer starts a call: it has been handed nothing yet.
StartTake == batch' = <<>> /\ UNCHANGED queue

\* The call hands over the n messages at the front, oldest first.
Take == \E n \in 1..Len(queue) :
           /\ batch' = batch \o SubSeq(queue, 1, n)
           /\ queue' = SubSeq(queue, n + 1, Len(queue))

Next == Put \/ StartTake \/ Take

Spec == Init /\ [][Next]_vars
=============================================================================
