----------------------------- MODULE GenConfig -----------------------------
(***************************************************************************)
(* mgmt/gen_config.cpp: from the body of a start request to the flows      *)
(* configurations the generators are constructed with.  The captures are   *)
(* read one after the other; the first thing that is wrong ends the        *)
(* construction with an exception.                                         *)
(*                                                                         *)
(* A field of a capture is a value of its type, or Missing, or Other: not  *)
(* of its type (a number that is no natural number, say).  What the JSON   *)
(* library takes for an unsigned number is its own affair; here it is any  *)
(* natural number.  The duration and the DUT's address are left out.       *)
(***************************************************************************)
EXTENDS Naturals, Sequences

CONSTANTS
  Missing, Other,   \* no such field; a value of another type
  NoValue,          \* an optional of flows_config that is empty
  Nets, BadNet,     \* strings that are, and one that is not, an IPv4 network
  Documents         \* the arrays of captures considered

VARIABLES
  captures,    \* the captures in the request
  flowsCfgs,   \* flows_cfgs
  outcome      \* "parsing", "accepted" or "rejected"

vars == <<captures, flowsCfgs, outcome>>

MaxBurst == 5
MaxRate == 1000000
MinPort == 1024
MaxPort == 65535

Init == captures \in Documents /\ flowsCfgs = <<>> /\ outcome = "parsing"
-----------------------------------------------------------------------------
\* at(): a field that must be there.  as_uint64(), as_string(): of its type.
Present(v) == v # Missing
Typed(v) == Present(v) /\ v # Other

\* load_opt_u64()
Optional(v) == IF v = Other THEN NoValue ELSE v

\* put::in_range_inclusive()
InRange(v, low, high) == low <= v /\ v <= high

OptionalInRange(v, low, high) == v = NoValue \/ InRange(v, low, high)

\* A capture that gets through without an exception.
Valid(c) ==
  /\ Typed(c.burst) /\ Typed(c.fps) /\ Typed(c.cln_ips)
  /\ Present(c.ipg) /\ Present(c.cln_port)
  /\ InRange(c.burst, 1, MaxBurst) /\ InRange(c.fps, 1, MaxRate)
  /\ OptionalInRange(Optional(c.ipg), 1, MaxRate)
  /\ OptionalInRange(Optional(c.cln_port), MinPort, MaxPort)
  /\ c.cln_ips # BadNet

\* What is kept of a valid capture.  The servers' network is read from the
\* field of the clients' (line 90).
FlowsConfig(c) ==
  [burst |-> c.burst, flows_per_sec |-> c.fps, inter_pkts_gap |-> Optional(c.ipg),
   cln_ips |-> c.cln_ips, srv_ips |-> c.cln_ips, cln_port |-> Optional(c.cln_port)]

\* The capture to be read next.
Current == captures[Len(flowsCfgs) + 1]

ReadCapture ==
  /\ outcome = "parsing" /\ Len(flowsCfgs) < Len(captures)
  /\ IF Valid(Current)
       THEN flowsCfgs' = Append(flowsCfgs, FlowsConfig(Current)) /\ UNCHANGED outcome
       ELSE outcome' = "rejected" /\ UNCHANGED flowsCfgs
  /\ UNCHANGED captures

Finish ==
  /\ outcome = "parsing" /\ Len(flowsCfgs) = Len(captures)
  /\ outcome' = "accepted"
  /\ UNCHANGED <<captures, flowsCfgs>>

Next == ReadCapture \/ Finish

Spec == Init /\ [][Next]_vars
-----------------------------------------------------------------------------
(***************************************************************************)
(* Properties                                                              *)
(***************************************************************************)

\* "If not present the time-stamps from the capture file will be used" and "If
\* not present the port won't be replaced" (18, 22): with these two given, there
\* is still something wrong with c.
WrongAnyway(c) ==
  LET Given(v) == IF v = Missing THEN Other ELSE v
  IN ~Valid([c EXCEPT !.ipg = Given(c.ipg), !.cln_port = Given(c.cln_port)])

\* The outcome is the one the comment at the top of the file describes: the
\* servers' addresses come from `srv_ips`, "range of IPv4 addresses to be used for
\* the "server" packets" (21), and no request is rejected for lack of a field
\* that may be missing.
OutcomeAsDocumented ==
  /\ outcome = "accepted" =>
       \A i \in 1..Len(captures) : flowsCfgs[i].srv_ips = captures[i].srv_ips
  /\ outcome = "rejected" => \E i \in 1..Len(captures) : WrongAnyway(captures[i])
=============================================================================
