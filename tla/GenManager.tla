---------------------------- MODULE GenManager ----------------------------
(***************************************************************************)
(* gen/manager.cpp: the generation thread.  One iteration dequeues and     *)
(* handles management messages, then ends the generation if its time is    *)
(* up, or else lets the timers that are due fire and transmits the packets *)
(* they have produced.                                                     *)
(*                                                                         *)
(* A flow holds one timer of the event scheduler.  What a flow does when   *)
(* its timer fires is on_flow_event of gen/priv/flows_generator.cpp, of    *)
(* which this module keeps the packet, the report and the re-arming.       *)
(***************************************************************************)
EXTENDS Channels

CONSTANTS
  Flows,      \* the flows of a generation
  BurstPkts   \* cnt_burst_pkts, 64 in the code

ASSUME BurstAssumption == BurstPkts \in Nat \ {0}

VARIABLES
  genPc,     \* "dequeue", "handle" or "timers"
  genBatch,  \* the messages dequeued and not handled yet
  running,   \* gen_cycles_ has a value: the start request that set it, or NoConn
  expired,   \* the duration has passed since gen_cycles_->begin
  flows,     \* the flows of generators_, each with its timer
  armed,     \* the flows whose timer is pending
  due,       \* the pending timers this rte_timer_manage() still has to fire
  txPkts     \* the number of packets in tx_pkts_

genVars == <<genPc, genBatch, running, expired, flows, armed, due, txPkts>>

GenInit ==
  /\ genPc = "dequeue" /\ genBatch = <<>>
  /\ running = NoConn /\ expired = FALSE
  /\ flows = {} /\ armed = {} /\ due = {} /\ txPkts = 0

\* generation_started()
Started == running # NoConn

GenDequeue ==
  /\ genPc = "dequeue"
  /\ \E n \in PopCounts(requests) :
       /\ genBatch' = Front(requests, n)
       /\ requests' = Rest(requests, n)
  /\ genPc' = "handle"
  /\ UNCHANGED <<running, expired, flows, armed, due, txPkts, responses, lost, aborted>>

\* out_queue_->enqueue(res_...): nobody looks at what it returns.
Respond(msg, ok) ==
  IF IsFull(responses, IncCapacity)
    THEN lost' = lost \cup {msg.kind} /\ UNCHANGED responses
    ELSE /\ responses' = Append(responses, [kind |-> msg.kind, from |-> msg.from, ok |-> ok])
         /\ UNCHANGED lost

\* Mutant: the generation is begun before its generators have been built.
RefuseStartLate(msg) ==
  /\ Respond(msg, FALSE)
  /\ running' = IF Started THEN running ELSE msg.from
  /\ UNCHANGED <<expired, flows, armed, aborted>>

\* req_start_generation while a generation runs, or with capture files that
\* cannot be loaded: the generators built so far are destroyed with their timers.
RefuseStart(msg) ==
  /\ Respond(msg, FALSE)
  /\ UNCHANGED <<running, expired, flows, armed, aborted>>

\* req_start_generation with every generator constructed: all its flows are
\* scheduled, and the duration starts to run.
AcceptStart(msg) ==
  /\ ~Started
  /\ aborted' = EnforceAborts(flows = {})
  /\ flows' = Flows /\ armed' = Flows
  /\ running' = msg.from /\ expired' = FALSE
  /\ Respond(msg, TRUE)

\* Mutant: the timers outlive their generators.
StopGenerationKeepsFlows ==
  /\ UNCHANGED <<flows, armed>>
  /\ aborted' = EnforceAborts(flows' = {})
  /\ running' = NoConn /\ expired' = FALSE

\* Mutant: gen_cycles_ is not reset.
StopGenerationKeepsCycles ==
  /\ flows' = {} /\ armed' = {}
  /\ aborted' = EnforceAborts(flows' = {})
  /\ UNCHANGED <<running, expired>>

\* stop_generation(): destroying the generators returns their timers.
StopGeneration ==
  /\ flows' = {} /\ armed' = {}
  /\ aborted' = EnforceAborts(flows' = {})
  /\ running' = NoConn /\ expired' = FALSE

\* One turn of the loop over the batch.
GenHandle ==
  /\ genPc = "handle" /\ genBatch # <<>>
  /\ genBatch' = Tail(genBatch)
  /\ LET msg == Head(genBatch) IN
       \/ msg.kind = "start" /\ (RefuseStart(msg) \/ AcceptStart(msg))
       \/ msg.kind = "stop" /\ StopGeneration /\ Respond(msg, TRUE)
       \/ msg.kind = "stats" /\ Respond(msg, TRUE)
                             /\ UNCHANGED <<running, expired, flows, armed, aborted>>
  /\ UNCHANGED <<genPc, due, txPkts, requests>>

\* Not started: there must be nothing to do.
GenIdle ==
  /\ genPc = "handle" /\ genBatch = <<>> /\ ~Started
  /\ aborted' = (EnforceAborts(txPkts = 0) \/ EnforceAborts(flows = {}))
  /\ genPc' = "dequeue"
  /\ UNCHANGED <<genBatch, running, expired, flows, armed, due, txPkts, requests, responses, lost>>

\* Mutant: the generators are left to the next iteration.
GenTimeoutOnlyTransmits ==
  /\ genPc = "handle" /\ genBatch = <<>> /\ Started /\ expired
  /\ txPkts' = 0 /\ genPc' = "dequeue"
  /\ UNCHANGED <<genBatch, running, expired, flows, armed, due, channelVars>>

\* The time is up; only this iteration's packets are left to send.
GenTimeout ==
  /\ genPc = "handle" /\ genBatch = <<>> /\ Started /\ expired
  /\ StopGeneration
  /\ txPkts' = 0
  /\ genPc' = "dequeue"
  /\ UNCHANGED <<genBatch, due, requests, responses, lost>>

\* scheduler_.process_events(): nothing before a microsecond has passed, or
\* else rte_timer_manage(), which fires the timers expired when it is called;
\* one that a callback arms again waits for the next call.
GenManageTimers ==
  /\ genPc = "handle" /\ genBatch = <<>> /\ Started /\ ~expired
  /\ due' \in SUBSET armed
  /\ genPc' = "timers"
  /\ UNCHANGED <<genBatch, running, expired, flows, armed, txPkts, channelVars>>

\* do_report: a report that does not fit is dropped.
DoReport ==
  IF IsFull(responses, IncCapacity)
    THEN UNCHANGED responses
    ELSE responses' = Append(responses, [kind |-> "report"])

\* Mutant: a full burst waits for the end of the iteration.
SendPktUnbounded == txPkts' = txPkts + 1

\* send_pkt transmits as soon as a burst is full.
SendPkt == txPkts' = IF txPkts + 1 = BurstPkts THEN 0 ELSE txPkts + 1

\* on_flow_event for flow f.  Without an mbuf for the copy there is a report
\* and no packet, and the flow's timer is not armed again.
OnFlowEvent(f) ==
  /\ genPc = "timers" /\ f \in due
  /\ due' = due \ {f}
  /\ DoReport
  /\ \/ SendPkt /\ UNCHANGED armed
     \/ armed' = armed \ {f} /\ UNCHANGED txPkts
  /\ UNCHANGED <<genPc, genBatch, running, expired, flows, requests, lost, aborted>>

\* Mutant: the packets of the iteration wait for the next one.
GenTransmitLater ==
  /\ genPc = "timers" /\ due = {}
  /\ genPc' = "dequeue"
  /\ UNCHANGED <<genBatch, running, expired, flows, armed, due, txPkts, channelVars>>

\* if (!tx_pkts_.empty()) transmit_tx_pkts(), the end of the iteration.
GenTransmit ==
  /\ genPc = "timers" /\ due = {}
  /\ txPkts' = 0
  /\ genPc' = "dequeue"
  /\ UNCHANGED <<genBatch, running, expired, flows, armed, due, channelVars>>

\* External: the time stamp counter passes the end of the generation.
Expire ==
  /\ Started /\ ~expired
  /\ expired' = TRUE
  /\ UNCHANGED <<genPc, genBatch, running, flows, armed, due, txPkts, channelVars>>

GenLoop == \/ GenDequeue \/ GenHandle \/ GenIdle \/ GenTimeout \/ GenManageTimers
           \/ (\E f \in Flows : OnFlowEvent(f)) \/ GenTransmit

GenTypeOK ==
  /\ genPc \in {"dequeue", "handle", "timers"}
  /\ genBatch \in Seq(Request)
  /\ running \in Conns \cup {NoConn}
  /\ expired \in BOOLEAN
  /\ flows \in SUBSET Flows /\ armed \in SUBSET flows /\ due \in SUBSET armed
  /\ txPkts \in 0..(BurstPkts - 1)
=============================================================================
