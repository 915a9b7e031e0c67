-------------------------- MODULE FlowsGenerator --------------------------
(***************************************************************************)
(* gen/priv/flows_generator.cpp: one capture replayed by many flows.  Each *)
(* flow has a timer; when it fires the flow goes on to its next packet,    *)
(* sends a copy of it and arms the timer again.  A flow that is through    *)
(* with the capture starts over with the next pair of addresses, and       *)
(* BurstCnt starts in a row, of whatever flows, share one pair.            *)
(*                                                                         *)
(* A time is a number of microseconds, the precision of the captures and   *)
(* of the event scheduler.  A packet is its index in the capture.          *)
(***************************************************************************)
EXTENDS Integers, Sequences

CONSTANTS
  Tstamps,       \* the time stamps in the capture, one per packet
  Ipg, NoIpg,    \* inter_pkts_gap, or NoIpg if it has no value
  IfGap,         \* if_gap, the time between two passes of a flow
  Second,        \* 1'000'000us
  FlowsPerSec,   \* flows_per_sec
  BurstCnt,      \* burst
  ClnNet, SrvNet,\* cln_ip_addrs and srv_ip_addrs: first address and size
  AddrMod        \* the number of IPv4 addresses, 2^32

ASSUME CaptureAssumption ==
  /\ Tstamps \in Seq(Nat) /\ Tstamps # <<>>
  /\ Ipg \in Nat \cup {NoIpg} /\ IfGap \in Nat

\* What mgmt/gen_config.cpp lets through, scaled.
ASSUME RatesAssumption ==
  /\ Second \in Nat /\ FlowsPerSec \in 1..Second
  /\ BurstCnt \in Nat \ {0}

ASSUME NetsAssumption ==
  /\ AddrMod \in Nat
  /\ \A net \in {ClnNet, SrvNet} :
       /\ net.first \in Nat /\ net.size \in Nat \ {0}
       /\ net.first + net.size <= AddrMod

VARIABLES
  made,       \* the flows setup_flows() has pushed so far are those below made
  running,    \* the constructor is done, the flows' events are scheduled
  pktIdx,     \* flow::pkt_idx
  cln, srv,   \* flow::cln_ip_addr, flow::srv_ip_addr
  left,       \* the time left on the flow's timer; Off if it is not armed
  due,        \* the flows whose timers this rte_timer_manage() still has to fire
  clnIt,      \* cln_ip_addr_
  srvIt,      \* srv_ip_addr_
  burstIdx,   \* burst_idx_
  taken,      \* how many times addresses have been handed out, modulo Period
  turn,       \* which of these times it was the flow's turn
  played      \* the flows that have had an event
\* taken, turn and played record history; nothing depends on them.

addrVars == <<cln, srv, clnIt, srvIt, burstIdx, taken, turn>>
vars == <<made, running, pktIdx, left, due, played, addrVars>>

Off == -1
Flow == 0..(FlowsPerSec - 1)
NumPkts == Len(Tstamps)
Pkt == 0..(NumPkts - 1)
-----------------------------------------------------------------------------
\* The time stamp load_pkts() goes by: the capture's, or one made up of the gap.
Tstamp(i) == IF Ipg = NoIpg THEN Tstamps[i + 1] ELSE i * Ipg

\* pkt::rel_tsc; prev_tstamp is set by the first packet and by no other.
RelTsc(i) == IfGap + Tstamp(i) - Tstamp(0)

\* A capture's time stamps do not go back by more than the gap: in the code
\* the difference is unsigned, and such a packet would wait for ever.
ASSUME OrderAssumption == \A i \in Pkt : RelTsc(i) \in Nat

\* baio_ip_net4::hosts(), external: the addresses without the first and the last
\* one of the network, or its only address.  The end is one past the hosts.
HostsBegin(net) == IF net.size = 1 THEN net.first ELSE net.first + 1
HostsEnd(net) == IF net.size = 1 THEN (net.first + 1) % AddrMod
                                 ELSE net.first + net.size - 1
NumHosts(net) == IF net.size = 1 THEN 1 ELSE net.size - 2

\* How many addresses an iterator goes through before it is at the end of its
\* range: the hosts, or all addresses there are if the network has none, because
\* the begin of the empty range is left before it is compared with the end.
Round(net) == IF NumHosts(net) = 0 THEN AddrMod ELSE NumHosts(net)

\* The k-th of these addresses, and the set of them.
Address(net, k) == (HostsBegin(net) + k) % AddrMod
Reached(net) == {Address(net, k) : k \in 0..(Round(net) - 1)}

\* One round of all combinations of bursts and addresses.
Period == BurstCnt * (Round(ClnNet) * Round(SrvNet))

\* inc_reset() of an address iterator.
IncReset(a, net) ==
  LET b == (a + 1) % AddrMod IN IF b = HostsEnd(net) THEN HostsBegin(net) ELSE b

\* Mutant: the counter is compared before it is incremented.
BurstEndsLate == burstIdx = BurstCnt

\* inc_reset() of burst_idx_, which says whether a burst is complete.
BurstEnds == burstIdx + 1 = BurstCnt

\* Mutant: the servers change only when the clients have been gone through.
NextAddressesNested ==
  IF BurstEnds
    THEN /\ burstIdx' = 0
         /\ clnIt' = IncReset(clnIt, ClnNet)
         /\ srvIt' = IF clnIt' = HostsBegin(ClnNet) THEN IncReset(srvIt, SrvNet) ELSE srvIt
    ELSE burstIdx' = burstIdx + 1 /\ UNCHANGED <<clnIt, srvIt>>

\* After each start the burst goes on, or the next one gets the next addresses.
NextAddresses ==
  IF BurstEnds
    THEN /\ burstIdx' = 0
         /\ clnIt' = IncReset(clnIt, ClnNet)
         /\ srvIt' = IncReset(srvIt, SrvNet)
    ELSE burstIdx' = burstIdx + 1 /\ UNCHANGED <<clnIt, srvIt>>

\* Flow f starts a pass with the addresses whose turn it is.
TakeAddresses(f) ==
  /\ cln' = [cln EXCEPT ![f] = clnIt]
  /\ srv' = [srv EXCEPT ![f] = srvIt]
  /\ NextAddresses
  /\ turn' = [turn EXCEPT ![f] = taken]
  /\ taken' = IF taken + 1 = Period THEN 0 ELSE taken + 1

Init ==
  /\ made = 0 /\ running = FALSE
  /\ pktIdx = [f \in Flow |-> 0]
  /\ cln = [f \in Flow |-> HostsBegin(ClnNet)] /\ srv = [f \in Flow |-> HostsBegin(SrvNet)]
  /\ left = [f \in Flow |-> Off] /\ due = {}
  /\ clnIt = HostsBegin(ClnNet) /\ srvIt = HostsBegin(SrvNet)
  /\ burstIdx = 0
  /\ taken = 0 /\ turn = [f \in Flow |-> 0]
  /\ played = {}

\* One turn of the loop in setup_flows().
SetupFlow ==
  /\ made < FlowsPerSec
  /\ TakeAddresses(made)
  /\ made' = made + 1
  /\ UNCHANGED <<running, pktIdx, left, due, played>>

\* setup_flow_events(): the flows are spread over the second.  That each flow
\* gets its event is taken for granted here: the assignment to flow.event is
\* the subject of EventHandle.
SetupFlowEvents ==
  /\ made = FlowsPerSec /\ ~running
  /\ left' = [f \in Flow |-> f * (Second \div FlowsPerSec) + RelTsc(0)]
  /\ running' = TRUE
  /\ UNCHANGED <<made, pktIdx, due, played, addrVars>>

\* External: a microsecond passes.  A timer that has expired waits.
Tick ==
  /\ \E f \in Flow : left[f] > 0
  /\ left' = [f \in Flow |-> IF left[f] > 0 THEN left[f] - 1 ELSE left[f]]
  /\ UNCHANGED <<made, running, pktIdx, due, played, addrVars>>

\* External: rte_timer_manage() fires the timers that have expired when it is
\* called, in any order; one that is armed meanwhile waits for the next call.
ManageTimers ==
  /\ due = {}
  /\ due' = {f \in Flow : left[f] = 0}
  /\ UNCHANGED <<made, running, pktIdx, left, played, addrVars>>

\* Mutant: a flow that starts over keeps the packet it was at.
NextPktStuck(f) == IF pktIdx[f] + 1 = NumPkts THEN pktIdx[f] ELSE pktIdx[f] + 1

\* The packet after the one f is at.
NextPkt(f) == IF pktIdx[f] + 1 = NumPkts THEN 0 ELSE pktIdx[f] + 1

\* The timer f is left with: without an mbuf for the copy there is a report of
\* the failure, and the timer is not armed again.
Rearm(f) == \/ left' = [left EXCEPT ![f] = RelTsc(pktIdx'[f])]
            \/ left' = [left EXCEPT ![f] = Off]

\* Mutant: a flow takes the current addresses with each of its packets.
OnFlowEventTakesAlways(f) ==
  /\ f \in due
  /\ due' = due \ {f}
  /\ pktIdx' = [pktIdx EXCEPT ![f] = NextPkt(f)]
  /\ TakeAddresses(f)
  /\ Rearm(f)
  /\ played' = played \cup {f}
  /\ UNCHANGED <<made, running>>

\* on_flow_event() of flow f.
OnFlowEvent(f) ==
  /\ f \in due
  /\ due' = due \ {f}
  /\ pktIdx' = [pktIdx EXCEPT ![f] = NextPkt(f)]
  /\ IF NextPkt(f) = 0 THEN TakeAddresses(f) ELSE UNCHANGED addrVars
  /\ Rearm(f)
  /\ played' = played \cup {f}
  /\ UNCHANGED <<made, running>>

Next == SetupFlow \/ SetupFlowEvents \/ Tick \/ ManageTimers \/ \E f \in Flow : OnFlowEvent(f)

Spec == Init /\ [][Next]_vars

\* The constructor finishes, time passes, and the generation thread goes on
\* calling rte_timer_manage(), which fires every timer it has found.
FairSpec ==
  /\ Spec
  /\ WF_vars(SetupFlow \/ SetupFlowEvents) /\ WF_vars(Tick) /\ WF_vars(ManageTimers)
  /\ \A f \in Flow : WF_vars(OnFlowEvent(f))
-----------------------------------------------------------------------------
(***************************************************************************)
(* Properties                                                              *)
(***************************************************************************)

\* The types of the generator's variables; a packet index outside the capture
\* would be an access outside pkts_.
TypeOK ==
  /\ made \in 0..FlowsPerSec /\ running \in BOOLEAN
  /\ pktIdx \in [Flow -> Pkt]
  /\ cln \in [Flow -> Nat] /\ srv \in [Flow -> Nat]
  /\ left \in [Flow -> Nat \cup {Off}] /\ due \in SUBSET Flow
  /\ clnIt \in Nat /\ srvIt \in Nat /\ burstIdx \in 0..(BurstCnt - 1)
  /\ taken \in Nat /\ turn \in [Flow -> Nat]
  /\ played \in SUBSET Flow

\* The pair of addresses the t-th start is to have: bursts of BurstCnt starts
\* go through the clients and through the servers, each round at its own length.
ClnOfTurn(t) == Address(ClnNet, (t \div BurstCnt) % Round(ClnNet))
SrvOfTurn(t) == Address(SrvNet, (t \div BurstCnt) % Round(SrvNet))

\* "All streams from a given burst are with the same client and server
\* addresses.  The addresses change for the next burst" (162): true across
\* setup_flows() and the flows' events, which pass on one counter and two
\* iterators, and in whatever order the flows start over.
AddressesByBurst ==
  /\ clnIt = ClnOfTurn(taken) /\ srvIt = SrvOfTurn(taken)
  /\ \A f \in 0..(made - 1) : cln[f] = ClnOfTurn(turn[f]) /\ srv[f] = SrvOfTurn(turn[f])

Passes == INSTANCE Replay WITH
  Clients <- Reached(ClnNet), Servers <- Reached(SrvNet),
  pkt <- pktIdx, client <- cln, server <- srv,
  state <- [f \in Flow |-> IF f >= made THEN "new"
                           ELSE IF running /\ left[f] = Off THEN "ended" ELSE "live"]

\* Every flow goes through the packets in order and keeps one pair of addresses
\* for a whole pass, although the iterators move on under it with every burst that
\* other flows complete.  The addresses are hosts of the networks, if these have
\* any; with a network of two addresses they are any addresses.
ImplementsReplay == Passes!Spec

Contract == INSTANCE FlowTimers WITH
  flows <- IF running THEN Flow ELSE {}, armed <- {f \in Flow : left[f] # Off}

\* The generator treats its timers as the scheduler expects: it arms all of them
\* with the flows, and later each in its own callback only.
ImplementsTimers == Contract!Spec

\* Unless a flow has ended for want of an mbuf, every packet of the capture has
\* its turn in it for ever: timers are neither lost nor starved by others.
KeepsReplaying ==
  \A f \in Flow : []<>(running /\ left[f] = Off) \/ \A i \in Pkt : []<>(pktIdx[f] = i)

\* "Note that every time-stamp is relative to the time-stamp of the previous
\* packet" (32) and "always start from the 1st packet" (152): what a flow sends
\* first is the first packet, and between two packets of a pass as much time
\* passes as between them in the capture.
AsCaptured(f) ==
  /\ f \notin played => pktIdx'[f] = 0
  /\ left'[f] # Off /\ pktIdx'[f] + 1 \in Pkt
       => left'[f] = Tstamp(pktIdx'[f] + 1) - Tstamp(pktIdx'[f])

ReplaysAsCaptured == [][\A f \in due \ due' : AsCaptured(f)]_vars
=============================================================================
