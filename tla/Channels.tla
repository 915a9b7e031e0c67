----------------------------- MODULE Channels -----------------------------
(***************************************************************************)
(* What the management thread and the generation thread share: the two     *)
(* message queues of mgmt/messages.h, and the process, which any failed    *)
(* TG_ENFORCE of put/tg_assert.h takes down for both.                      *)
(*                                                                         *)
(* A queue is a bounded FIFO, which is what module SpscRing shows          *)
(* put::spsc_ring to be.  Its consumer works with a cached head, so a      *)
(* dequeue may be given fewer messages than are stored, but not none.      *)
(***************************************************************************)
EXTENDS Integers, Sequences

CONSTANTS
  Conns,        \* HTTP connections; each carries one request
  NoConn,       \* "no connection"
  OutCapacity,  \* capacity of out_messages_queue, 32 in the code
  IncCapacity,  \* capacity of inc_messages_queue, 256 in the code
  Batch,        \* messages taken by one dequeue, min(Capacity, 8) in the code
  AbortsWhen    \* the value of its condition on which TG_ENFORCE aborts

ASSUME ConnAssumption == NoConn \notin Conns
ASSUME CapacityAssumption == /\ OutCapacity \in Nat /\ OutCapacity >= 3
                             /\ IncCapacity \in Nat \ {0}
                             /\ Batch \in Nat \ {0}
ASSUME AbortAssumption == AbortsWhen \in BOOLEAN

VARIABLES
  requests,   \* out_messages_queue: management to generation
  responses,  \* inc_messages_queue: generation to management
  lost,       \* history: the kinds of request whose response was thrown away
  aborted     \* the process has called abort()

channelVars == <<requests, responses, lost, aborted>>

Kinds == {"start", "stop", "stats"}

\* A request and a response carry nothing that ties them to a connection; the
\* field `from` is history, for the properties only.
Request == [kind : Kinds, from : Conns]
Response == [kind : Kinds, from : Conns, ok : BOOLEAN]
Report == [kind : {"report"}]

\* TG_ENFORCE(cond) aborts.  The program's text calls ::abort() when the
\* condition is TRUE; everything written about the conditions means the opposite.
EnforceAborts(cond) == cond = AbortsWhen

\* The queue operations; the caller says what a refused message means.
IsFull(queue, capacity) == Len(queue) >= capacity

\* The numbers of messages one dequeue may hand over.
PopCounts(queue) ==
  {n \in 0..Len(queue) : n <= Batch /\ (n = 0 => queue = <<>>)}

Front(queue, n) == SubSeq(queue, 1, n)
Rest(queue, n) == SubSeq(queue, n + 1, Len(queue))

ChannelsInit ==
  requests = <<>> /\ responses = <<>> /\ lost = {} /\ aborted = FALSE
=============================================================================
