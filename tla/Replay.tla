------------------------------ MODULE Replay ------------------------------
(***************************************************************************)
(* What a flows generator promises of each of its flows: it goes through   *)
(* the capture packet by packet, over and over, and one pass over the      *)
(* capture is one conversation, between a client and a server that stay    *)
(* the same until the pass is over.  A flow may end early, silently.       *)
(***************************************************************************)
EXTENDS Naturals

CONSTANTS Flow,      \* the flows of the generator
          NumPkts,   \* the number of packets in the capture
          Clients,   \* the addresses a client may have
          Servers    \* the addresses a server may have

VARIABLES state,     \* "new", "live" or "ended", for each flow
          pkt,       \* the index of the packet each flow is at
          client, server

vars == <<state, pkt, client, server>>

Init == /\ state = [f \in Flow |-> "new"]
        /\ pkt = [f \in Flow |-> 0]
        /\ client \in [Flow -> Clients] /\ server \in [Flow -> Servers]

\* f begins a pass, with any two addresses.
Meet(f) == /\ \E c \in Clients : client' = [client EXCEPT ![f] = c]
           /\ \E s \in Servers : server' = [server EXCEPT ![f] = s]

Begin(f) == /\ state[f] = "new"
            /\ state' = [state EXCEPT ![f] = "live"]
            /\ Meet(f)
            /\ UNCHANGED pkt

\* f goes on to the next packet of its pass, or to the first one of a new pass.
Advance(f) == /\ state[f] = "live"
              /\ state' \in {state, [state EXCEPT ![f] = "ended"]}
              /\ \/ /\ pkt[f] + 1 < NumPkts
                    /\ pkt' = [pkt EXCEPT ![f] = pkt[f] + 1]
                    /\ UNCHANGED <<client, server>>
                 \/ /\ pkt[f] + 1 = NumPkts
                    /\ pkt' = [pkt EXCEPT ![f] = 0]
                    /\ Meet(f)

Next == \E f \in Flow : Begin(f) \/ Advance(f)

Spec == Init /\ [][Next]_vars
=============================================================================
