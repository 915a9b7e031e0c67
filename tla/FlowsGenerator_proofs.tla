----------------------- MODULE FlowsGenerator_proofs -----------------------
(***************************************************************************)
(* What holds of a flows generator for every capture, every number of      *)
(* flows, every burst and every pair of networks, those without hosts too. *)
(***************************************************************************)
EXTENDS FlowsGenerator, TLAPS

(***************************************************************************)
(* Arithmetic of counters that wrap                                        *)
(***************************************************************************)

LEMMA Division ==
  ASSUME NEW b \in Nat \ {0}, NEW n \in Nat
  PROVE  /\ n % b \in 0..(b - 1)
         /\ n \div b \in Nat
         /\ n = b * (n \div b) + (n % b)
  OBVIOUS

\* There is only one quotient with only one remainder.
LEMMA Quotient ==
  ASSUME NEW b \in Nat \ {0}, NEW n \in Nat, NEW q \in Nat, NEW r \in 0..(b - 1),
         n = b * q + r
  PROVE  n \div b = q /\ n % b = r
<1> DEFINE p == n \div b
           s == n % b
<1>1. p \in Nat /\ s \in 0..(b - 1) /\ n = b * p + s
  BY Division
<1>2. CASE p = q
  BY <1>1, <1>2
<1>3. CASE p > q
  <2> HIDE DEF p, s
  <2> DEFINE d == p - q - 1
  <2>1. d \in Nat /\ p = q + 1 + d
    BY <1>1, <1>3
  <2>2. b * p = b * q + b + b * d /\ b * q \in Int /\ b * p \in Int
    BY <2>1, <1>1
  <2>3. b * d \in Nat
    BY <2>1
  <2> HIDE DEF d
  <2> QED BY <1>1, <2>2, <2>3
<1>4. CASE q > p
  <2> HIDE DEF p, s
  <2> DEFINE d == q - p - 1
  <2>1. d \in Nat /\ q = p + 1 + d
    BY <1>1, <1>4
  <2>2. b * q = b * p + b + b * d /\ b * q \in Int /\ b * p \in Int
    BY <2>1, <1>1
  <2>3. b * d \in Nat
    BY <2>1
  <2> HIDE DEF d
  <2> QED BY <1>1, <2>2, <2>3
<1> QED BY <1>1, <1>2, <1>3, <1>4

\* A counter modulo n.
Succ(x, n) == IF x + 1 = n THEN 0 ELSE x + 1

\* A counter modulo b * k is a counter modulo b that carries into one modulo k.
LEMMA Carry ==
  ASSUME NEW b \in Nat \ {0}, NEW k \in Nat \ {0}, NEW x \in 0..(b * k - 1)
  PROVE  /\ Succ(x, b * k) \in 0..(b * k - 1)
         /\ x \div b \in 0..(k - 1)
         /\ Succ(x, b * k) % b = Succ(x % b, b)
         /\ Succ(x, b * k) \div b = IF (x % b) + 1 = b THEN Succ(x \div b, k) ELSE x \div b
<1> DEFINE q == x \div b
           r == x % b
           n == b * k
<1>0. n \in Nat /\ n > 0 /\ x \in Nat /\ x < n /\ n = b * k
  <2>1. b * k \in Nat
    OBVIOUS
  <2> QED BY <2>1
<1>1. q \in Nat /\ r \in 0..(b - 1) /\ x = b * q + r
  BY <1>0, Division
<1> HIDE DEF q, r, n
<1>2. q \in 0..(k - 1)
  <2>1. SUFFICES ASSUME q >= k PROVE FALSE
    BY <1>1
  <2> DEFINE d == q - k
  <2>2. d \in Nat /\ q = k + d
    BY <1>1, <2>1
  <2>3. b * q = b * k + b * d /\ b * d \in Nat
    BY <2>2
  <2> HIDE DEF d
  <2> QED BY <1>0, <1>1, <2>3
<1>3. b * q \in Nat
  BY <1>1
<1>4. CASE r + 1 = b /\ q + 1 = k
  <2>1. b * k = b * q + b
    BY <1>1, <1>4
  <2>2. Succ(x, n) = 0
    BY <2>1, <1>0, <1>1, <1>3, <1>4 DEF Succ
  <2>3. 0 = b * 0 + 0 /\ 0 \in 0..(b - 1)
    OBVIOUS
  <2>4. 0 \div b = 0 /\ 0 % b = 0
    BY <2>3, Quotient
  <2> QED BY <2>2, <2>4, <1>0, <1>1, <1>2, <1>4 DEF Succ, q, r, n
<1>5. CASE r + 1 = b /\ q + 1 # k
  <2>1. x + 1 = b * (q + 1) + 0
    BY <1>1, <1>5
  <2> DEFINE d == k - q - 2
  <2>2. d \in Nat /\ k = q + 2 + d
    BY <1>1, <1>2, <1>5
  <2>3. b * k = b * q + b + b + b * d /\ b * d \in Nat
    BY <2>2, <1>1
  <2> HIDE DEF d
  <2>4. x + 1 # n /\ x + 1 \in 0..(n - 1)
    BY <2>3, <1>0, <1>1, <1>3, <1>5
  <2>5. (x + 1) \div b = q + 1 /\ (x + 1) % b = 0
    <3>1. x + 1 \in Nat /\ q + 1 \in Nat /\ 0 \in 0..(b - 1)
      BY <1>0, <1>1
    <3> QED BY <2>1, <3>1, Quotient
  <2> QED BY <2>4, <2>5, <1>2, <1>5 DEF Succ, q, r, n
<1>6. CASE r + 1 # b
  <2>1. x + 1 = b * q + (r + 1) /\ r + 1 \in 0..(b - 1)
    BY <1>1, <1>6, <1>3
  <2> DEFINE d == k - q - 1
  <2>2. d \in Nat /\ k = q + 1 + d
    BY <1>1, <1>2
  <2>3. b * k = b * q + b + b * d /\ b * d \in Nat
    BY <2>2, <1>1
  <2> HIDE DEF d
  <2>4. x + 1 # n /\ x + 1 \in 0..(n - 1)
    BY <2>1, <2>3, <1>0, <1>1, <1>3
  <2>5. (x + 1) \div b = q /\ (x + 1) % b = r + 1
    <3>1. x + 1 \in Nat
      BY <1>0
    <3> QED BY <2>1, <3>1, <1>1, Quotient
  <2> QED BY <2>4, <2>5, <1>2, <1>6 DEF Succ, q, r, n
<1> QED BY <1>4, <1>5, <1>6

(***************************************************************************)
(* Types                                                                   *)
(***************************************************************************)

LEMMA NetFacts ==
  ASSUME NEW net \in {ClnNet, SrvNet}
  PROVE  /\ AddrMod \in Nat /\ net.first \in Nat /\ net.size \in Nat \ {0}
         /\ net.first + net.size <= AddrMod
         /\ HostsBegin(net) \in Nat
         /\ \A a \in Nat : IncReset(a, net) \in Nat
<1>1. /\ AddrMod \in Nat /\ net.first \in Nat /\ net.size \in Nat \ {0}
      /\ net.first + net.size <= AddrMod
  BY NetsAssumption
<1>2. HostsBegin(net) \in Nat
  BY <1>1 DEF HostsBegin
<1>3. ASSUME NEW a \in Nat PROVE IncReset(a, net) \in Nat
  <2>1. AddrMod \in Nat \ {0} /\ a + 1 \in Nat
    BY <1>1
  <2>2. (a + 1) % AddrMod \in Nat
    BY <2>1, Division
  <2> QED BY <2>2, <1>2 DEF IncReset
<1> QED BY <1>1, <1>2, <1>3

\* A start of a pass keeps the types of what it changes.
LEMMA TakeAddressesType ==
  ASSUME TypeOK, NEW f \in Flow, TakeAddresses(f)
  PROVE  /\ cln' \in [Flow -> Nat] /\ srv' \in [Flow -> Nat] /\ turn' \in [Flow -> Nat]
         /\ clnIt' \in Nat /\ srvIt' \in Nat
         /\ burstIdx' \in 0..(BurstCnt - 1) /\ taken' \in Nat
<1>1. cln' \in [Flow -> Nat] /\ srv' \in [Flow -> Nat] /\ turn' \in [Flow -> Nat] /\ taken' \in Nat
  BY DEF TypeOK, TakeAddresses
<1>2. NextAddresses
  BY DEF TakeAddresses
<1>3. clnIt' \in Nat /\ srvIt' \in Nat
  BY <1>2, NetFacts DEF NextAddresses, TypeOK
<1>4. burstIdx' \in 0..(BurstCnt - 1)
  BY <1>2, RatesAssumption DEF NextAddresses, BurstEnds, TypeOK
<1> QED BY <1>1, <1>3, <1>4

LEMMA PktFacts == NumPkts \in Nat \ {0} /\ 0 \in Pkt /\ \A i \in Pkt : RelTsc(i) \in Nat
<1>1. NumPkts \in Nat \ {0}
  BY CaptureAssumption DEF NumPkts
<1> QED BY <1>1, OrderAssumption DEF Pkt

\* What an event leaves of the packet index and of the timer.
LEMMA EventType ==
  ASSUME TypeOK, NEW f \in Flow, OnFlowEvent(f)
  PROVE  /\ NextPkt(f) \in Pkt /\ pktIdx' = [pktIdx EXCEPT ![f] = NextPkt(f)]
         /\ pktIdx' \in [Flow -> Pkt]
         /\ \E t \in Nat \cup {Off} : left' = [left EXCEPT ![f] = t]
<1>1. pktIdx[f] \in 0..(NumPkts - 1) /\ NumPkts \in Nat \ {0}
  BY PktFacts DEF TypeOK, Pkt
<1>2. NextPkt(f) \in Pkt
  BY <1>1 DEF NextPkt, Pkt
<1>3. pktIdx' = [pktIdx EXCEPT ![f] = NextPkt(f)] /\ Rearm(f)
  BY DEF OnFlowEvent
<1>4. pktIdx' \in [Flow -> Pkt] /\ pktIdx'[f] = NextPkt(f)
  BY <1>2, <1>3 DEF TypeOK
<1>5. RelTsc(pktIdx'[f]) \in Nat
  BY <1>2, <1>4, PktFacts
<1> QED BY <1>2, <1>3, <1>4, <1>5 DEF Rearm

LEMMA InitType == Init => TypeOK
<1> SUFFICES ASSUME Init PROVE TypeOK
  OBVIOUS
<1>1. HostsBegin(ClnNet) \in Nat /\ HostsBegin(SrvNet) \in Nat
  BY NetFacts
<1>2. made \in 0..FlowsPerSec /\ burstIdx \in 0..(BurstCnt - 1)
  BY RatesAssumption DEF Init
<1>3. pktIdx \in [Flow -> Pkt]
  BY PktFacts DEF Init
<1> QED BY <1>1, <1>2, <1>3 DEF Init, TypeOK

LEMMA StepType == TypeOK /\ [Next]_vars => TypeOK'
<1> SUFFICES ASSUME TypeOK, [Next]_vars PROVE TypeOK'
  OBVIOUS
<1>1. CASE SetupFlow
  <2>1. made \in Flow /\ made + 1 \in 0..FlowsPerSec
    BY <1>1, RatesAssumption DEF SetupFlow, TypeOK, Flow
  <2>2. TakeAddresses(made)
    BY <1>1 DEF SetupFlow
  <2> QED BY <1>1, <2>1, <2>2, TakeAddressesType DEF SetupFlow, TypeOK
<1>2. CASE SetupFlowEvents
  <2>1. Second \in Nat /\ FlowsPerSec \in Nat \ {0}
    BY RatesAssumption
  <2>2. Second \div FlowsPerSec \in Nat
    BY <2>1, Division
  <2>3. \A f \in Flow : f * (Second \div FlowsPerSec) \in Nat
    BY <2>1, <2>2 DEF Flow
  <2>4. left' \in [Flow -> Nat \cup {Off}]
    BY <1>2, <2>3, PktFacts DEF SetupFlowEvents
  <2> QED BY <1>2, <2>4 DEF SetupFlowEvents, TypeOK, addrVars
<1>3. CASE Tick
  <2>1. left' \in [Flow -> Nat \cup {Off}]
    BY <1>3 DEF Tick, TypeOK, Off
  <2> QED BY <1>3, <2>1 DEF Tick, TypeOK, addrVars
<1>4. CASE ManageTimers
  BY <1>4 DEF ManageTimers, TypeOK, addrVars
<1>5. ASSUME NEW f \in Flow, OnFlowEvent(f) PROVE TypeOK'
  <2>1. left' \in [Flow -> Nat \cup {Off}] /\ pktIdx' \in [Flow -> Pkt]
    BY <1>5, EventType DEF TypeOK
  <2>2. /\ cln' \in [Flow -> Nat] /\ srv' \in [Flow -> Nat] /\ turn' \in [Flow -> Nat]
        /\ clnIt' \in Nat /\ srvIt' \in Nat
        /\ burstIdx' \in 0..(BurstCnt - 1) /\ taken' \in Nat
    BY <1>5, TakeAddressesType DEF OnFlowEvent, TypeOK, addrVars
  <2>3. due' \in SUBSET Flow /\ played' \in SUBSET Flow /\ UNCHANGED <<made, running>>
    BY <1>5 DEF OnFlowEvent, TypeOK
  <2> QED BY <2>1, <2>2, <2>3 DEF TypeOK
<1>6. CASE UNCHANGED vars
  BY <1>6 DEF vars, addrVars, TypeOK
<1> QED BY <1>1, <1>2, <1>3, <1>4, <1>5, <1>6 DEF Next

\* The generator's variables keep their types, the packet indexes among them:
\* on_flow_event() never reads outside the capture.
THEOREM FlowsTypeCorrect == Spec => []TypeOK
BY InitType, StepType, PTL DEF Spec

(***************************************************************************)
(* Addresses                                                               *)
(***************************************************************************)

\* The burst counter and the iterators are functions of the number of starts,
\* and every flow has two of the addresses these reach.
Addresses ==
  /\ taken \in 0..(Period - 1) /\ burstIdx = taken % BurstCnt
  /\ turn \in [Flow -> 0..(Period - 1)]
  /\ AddressesByBurst
  /\ cln \in [Flow -> Reached(ClnNet)] /\ srv \in [Flow -> Reached(SrvNet)]

\* A remainder on the first two rounds.
LEMMA Wrap ==
  ASSUME NEW m \in Nat \ {0}, NEW x \in 0..(2 * m - 1)
  PROVE  x % m = IF x < m THEN x ELSE x - m
<1>1. CASE x < m
  <2>1. x = m * 0 + x /\ x \in 0..(m - 1) /\ x \in Nat
    BY <1>1
  <2> QED BY <1>1, <2>1, Quotient
<1>2. CASE x >= m
  <2>1. x = m * 1 + (x - m) /\ x - m \in 0..(m - 1) /\ x \in Nat
    BY <1>2
  <2> QED BY <1>2, <2>1, Quotient
<1> QED BY <1>1, <1>2

\* A round starts at an address and has at most all of them.
LEMMA RoundFacts ==
  ASSUME NEW net \in {ClnNet, SrvNet}
  PROVE  /\ AddrMod \in Nat \ {0} /\ HostsBegin(net) \in 0..(AddrMod - 1)
         /\ NumHosts(net) \in Nat /\ Round(net) \in 1..AddrMod
         /\ Address(net, 0) = HostsBegin(net)
         /\ Reached(net) \in SUBSET Nat
<1>1. /\ AddrMod \in Nat \ {0} /\ net.first \in Nat /\ net.size \in Nat \ {0}
      /\ net.first + net.size <= AddrMod
  BY NetFacts
<1>2. HostsBegin(net) \in 0..(AddrMod - 1)
  BY <1>1 DEF HostsBegin
<1>3. NumHosts(net) \in Nat /\ Round(net) \in 1..AddrMod
  BY <1>1 DEF NumHosts, Round
<1>4. Address(net, 0) = HostsBegin(net)
  <2>1. HostsBegin(net) + 0 = HostsBegin(net) /\ HostsBegin(net) \in 0..(2 * AddrMod - 1)
    BY <1>1, <1>2
  <2>2. HostsBegin(net) % AddrMod = HostsBegin(net)
    BY <1>1, <1>2, <2>1, Wrap
  <2> QED BY <2>1, <2>2 DEF Address
<1>5. \A k \in 0..(Round(net) - 1) : Address(net, k) \in Nat
  BY <1>1, <1>2, <1>3, Division DEF Address
<1> QED BY <1>1, <1>2, <1>3, <1>4, <1>5 DEF Reached

\* What an iterator reaches are the hosts, all of them within the network, unless
\* the network has none.
LEMMA ReachedHosts ==
  ASSUME NEW net \in {ClnNet, SrvNet}, NumHosts(net) # 0
  PROVE  /\ Reached(net) = HostsBegin(net) .. (HostsBegin(net) + NumHosts(net) - 1)
         /\ Reached(net) \subseteq net.first .. (net.first + net.size - 1)
<1> DEFINE m == AddrMod
           b == HostsBegin(net)
           n == NumHosts(net)
<1>1. /\ m \in Nat \ {0} /\ b \in Nat /\ n \in Nat \ {0} /\ Round(net) = n
      /\ net.first \in Nat /\ net.size \in Nat
      /\ net.first <= b /\ b + n <= net.first + net.size /\ net.first + net.size <= m
  BY NetFacts, RoundFacts DEF Round, NumHosts, HostsBegin
<1>2. ASSUME NEW k \in 0..(n - 1) PROVE Address(net, k) = b + k
  <2> DEFINE x == b + k
  <2>1. x \in 0..(2 * m - 1) /\ x < m
    BY <1>1
  <2> HIDE DEF m, x
  <2>2. x % m = x
    BY <1>1, <2>1, Wrap
  <2> QED BY <2>2 DEF Address, x, m
<1>3. Reached(net) = {b + k : k \in 0..(n - 1)}
  BY <1>1, <1>2 DEF Reached
<1>4. {b + k : k \in 0..(n - 1)} = b .. (b + n - 1)
  <2> HIDE DEF b, n
  <2>1. ASSUME NEW a \in b .. (b + n - 1) PROVE a \in {b + k : k \in 0..(n - 1)}
    <3>1. a - b \in 0..(n - 1) /\ a = b + (a - b)
      BY <1>1, <2>1
    <3> QED BY <3>1
  <2>2. \A k \in 0..(n - 1) : b + k \in b .. (b + n - 1)
    BY <1>1
  <2> QED BY <2>1, <2>2
<1> QED BY <1>1, <1>3, <1>4

\* The iterator goes round: it is back at the begin after the last host, or, if
\* there is none, after all addresses.
LEMMA IncResetAddress ==
  ASSUME NEW net \in {ClnNet, SrvNet}, NEW k \in 0..(Round(net) - 1)
  PROVE  IncReset(Address(net, k), net) = Address(net, Succ(k, Round(net)))
<1> DEFINE m == AddrMod
           b == HostsBegin(net)
           n == Round(net)
<1>1. /\ m \in Nat \ {0} /\ b \in 0..(m - 1) /\ n \in 1..m /\ k \in 0..(n - 1)
      /\ Address(net, 0) = b
  BY RoundFacts
<1>2. b + k \in 0..(2 * m - 1) /\ b + (k + 1) \in 0..(2 * m - 1)
  BY <1>1
<1>3. /\ Address(net, k) = IF b + k < m THEN b + k ELSE b + k - m
      /\ Address(net, k + 1) = IF b + (k + 1) < m THEN b + (k + 1) ELSE b + (k + 1) - m
  <2> DEFINE x == b + k
             y == b + (k + 1)
  <2>1. Address(net, k) = x % m /\ Address(net, k + 1) = y % m
    BY DEF Address
  <2>2. x \in 0..(2 * m - 1) /\ y \in 0..(2 * m - 1)
    BY <1>2
  <2> HIDE DEF m, x, y
  <2>3. x % m = (IF x < m THEN x ELSE x - m) /\ y % m = (IF y < m THEN y ELSE y - m)
    BY <1>1, <2>2, Wrap
  <2>4. /\ Address(net, k) = IF x < m THEN x ELSE x - m
        /\ Address(net, k + 1) = IF y < m THEN y ELSE y - m
    BY <2>1, <2>3
  <2> QED BY <1>1, <2>4 DEF x, y
<1>4. (Address(net, k) + 1) % m = Address(net, k + 1)
  <2> DEFINE z == Address(net, k) + 1
  <2>1. z \in 0..(2 * m - 1)
    BY <1>1, <1>3
  <2> HIDE DEF m, z
  <2>2. z % m = IF z < m THEN z ELSE z - m
    BY <1>1, <2>1, Wrap
  <2>3. z = IF b + k < m THEN b + k + 1 ELSE b + k - m + 1
    BY <1>1, <1>3 DEF z
  <2>4. z % m = Address(net, k + 1)
    <3> HIDE DEF b, n
    <3> QED BY <1>1, <1>3, <2>2, <2>3
  <2> QED BY <2>4 DEF z
<1>5. Address(net, k + 1) = HostsEnd(net) <=> k + 1 = n
  <2>1. /\ net.first \in Nat /\ net.size \in Nat \ {0} /\ net.first + net.size <= m
    BY NetFacts
  <2>2. CASE net.size = 1
    <3>1. n = 1 /\ k = 0 /\ b = net.first
      BY <1>1, <2>2 DEF Round, NumHosts, HostsBegin
    <3> QED BY <2>2, <3>1 DEF Address, HostsEnd
  <2>3. CASE net.size = 2
    <3>1. n = m /\ b = net.first + 1 /\ HostsEnd(net) = b
      BY <2>1, <2>3 DEF Round, NumHosts, HostsBegin, HostsEnd
    <3> QED BY <1>1, <1>3, <3>1
  <2>4. CASE net.size > 2
    <3>1. n = net.size - 2 /\ b = net.first + 1 /\ HostsEnd(net) = b + n
      BY <2>1, <2>4 DEF Round, NumHosts, HostsBegin, HostsEnd
    <3>2. b + (k + 1) < m
      BY <1>1, <2>1, <2>4, <3>1
    <3> QED BY <1>1, <1>3, <3>1, <3>2
  <2> QED BY <2>1, <2>2, <2>3, <2>4
<1>6. IncReset(Address(net, k), net) = IF k + 1 = n THEN b ELSE Address(net, k + 1)
  BY <1>4, <1>5 DEF IncReset
<1> QED BY <1>1, <1>6 DEF Succ

\* Where the t-th start stands in the rounds of bursts and hosts.
LEMMA Turns ==
  ASSUME NEW t \in 0..(Period - 1)
  PROVE  LET u == Succ(t, Period)
             b == t \div BurstCnt
             ends == (t % BurstCnt) + 1 = BurstCnt
         IN /\ u \in 0..(Period - 1)
            /\ u % BurstCnt = Succ(t % BurstCnt, BurstCnt)
            /\ b % Round(ClnNet) \in 0..(Round(ClnNet) - 1)
            /\ b % Round(SrvNet) \in 0..(Round(SrvNet) - 1)
            /\ (u \div BurstCnt) % Round(ClnNet) =
                 IF ends THEN Succ(b % Round(ClnNet), Round(ClnNet))
                         ELSE b % Round(ClnNet)
            /\ (u \div BurstCnt) % Round(SrvNet) =
                 IF ends THEN Succ(b % Round(SrvNet), Round(SrvNet))
                         ELSE b % Round(SrvNet)
<1> DEFINE c == Round(ClnNet)
           s == Round(SrvNet)
           b == t \div BurstCnt
           u == Succ(t, Period)
<1>1. c \in Nat \ {0} /\ s \in Nat \ {0}
  BY RoundFacts
<1>2. BurstCnt \in Nat \ {0} /\ Period = BurstCnt * (c * s)
  BY RatesAssumption DEF Period
<1> HIDE DEF c, s
<1>3. c * s \in Nat \ {0} /\ c * s = s * c
  BY <1>1
<1>4. /\ u \in 0..(Period - 1) /\ b \in 0..(c * s - 1)
      /\ u % BurstCnt = Succ(t % BurstCnt, BurstCnt)
      /\ u \div BurstCnt = IF (t % BurstCnt) + 1 = BurstCnt THEN Succ(b, c * s) ELSE b
  BY <1>2, <1>3, Carry
<1> HIDE DEF b, u
<1>5. Succ(b, c * s) % c = Succ(b % c, c) /\ Succ(b, s * c) % s = Succ(b % s, s)
  BY <1>1, <1>3, <1>4, Carry
<1>6. b % c \in 0..(c - 1) /\ b % s \in 0..(s - 1)
  <2>1. b \in Nat
    BY <1>4
  <2> QED BY <2>1, <1>1, Division
<1> QED BY <1>3, <1>4, <1>5, <1>6 DEF b, u, c, s

\* Both iterators are at addresses they reach.
LEMMA IteratorsReach ==
  ASSUME Addresses
  PROVE  clnIt \in Reached(ClnNet) /\ srvIt \in Reached(SrvNet)
BY Turns DEF Addresses, AddressesByBurst, ClnOfTurn, SrvOfTurn, Reached

\* A start takes the addresses of its turn and leaves those of the next.
LEMMA TakeAddressesStep ==
  ASSUME TypeOK, Addresses, NEW f \in Flow, TakeAddresses(f),
         made' \in {made, made + 1}, made' # made => f = made
  PROVE  Addresses'
<1>1. taken \in 0..(Period - 1) /\ taken' = Succ(taken, Period)
  BY DEF Addresses, TakeAddresses, Succ
<1>2. burstIdx = taken % BurstCnt /\ BurstCnt \in Nat \ {0}
  BY RatesAssumption DEF Addresses
<1>3. taken' \in 0..(Period - 1) /\ burstIdx' = taken' % BurstCnt
  BY <1>1, <1>2, Turns DEF TakeAddresses, NextAddresses, BurstEnds, Succ
<1>4. clnIt' = ClnOfTurn(taken') /\ srvIt' = SrvOfTurn(taken')
  <2>1. clnIt = ClnOfTurn(taken) /\ srvIt = SrvOfTurn(taken)
    BY DEF Addresses, AddressesByBurst
  <2>2. CASE BurstEnds
    <3>1. clnIt' = IncReset(clnIt, ClnNet) /\ srvIt' = IncReset(srvIt, SrvNet)
      BY <2>2 DEF TakeAddresses, NextAddresses
    <3> QED BY <3>1, <2>1, <2>2, <1>1, <1>2, Turns, IncResetAddress
            DEF BurstEnds, ClnOfTurn, SrvOfTurn
  <2>3. CASE ~BurstEnds
    <3>1. clnIt' = clnIt /\ srvIt' = srvIt
      BY <2>3 DEF TakeAddresses, NextAddresses
    <3> QED BY <3>1, <2>1, <2>3, <1>1, <1>2, Turns DEF BurstEnds, ClnOfTurn, SrvOfTurn
  <2> QED BY <2>2, <2>3
<1>5. /\ cln' = [cln EXCEPT ![f] = clnIt] /\ srv' = [srv EXCEPT ![f] = srvIt]
      /\ turn' = [turn EXCEPT ![f] = taken]
      /\ cln \in [Flow -> Nat] /\ srv \in [Flow -> Nat] /\ turn \in [Flow -> Nat]
  BY DEF TakeAddresses, TypeOK
<1>6. \A g \in 0..(made' - 1) : cln'[g] = ClnOfTurn(turn'[g]) /\ srv'[g] = SrvOfTurn(turn'[g])
  <2> SUFFICES ASSUME NEW g \in 0..(made' - 1)
               PROVE  cln'[g] = ClnOfTurn(turn'[g]) /\ srv'[g] = SrvOfTurn(turn'[g])
    OBVIOUS
  <2>1. made \in 0..FlowsPerSec /\ FlowsPerSec \in Nat /\ f \in 0..(FlowsPerSec - 1)
    BY RatesAssumption DEF TypeOK, Flow
  <2>2. g \in Flow /\ (g # f => g \in 0..(made - 1))
    <3>1. CASE made' = made
      BY <3>1, <2>1 DEF Flow
    <3>2. CASE made' = made + 1
      <4>1. f = made
        BY <3>2, <2>1
      <4> QED BY <3>2, <4>1, <2>1 DEF Flow
    <3> QED BY <3>1, <3>2
  <2>3. CASE g = f
    BY <2>3, <2>2, <1>5 DEF Addresses, AddressesByBurst
  <2>4. CASE g # f
    BY <2>4, <2>2, <1>5 DEF Addresses, AddressesByBurst
  <2> QED BY <2>3, <2>4
<1>7. cln' \in [Flow -> Reached(ClnNet)] /\ srv' \in [Flow -> Reached(SrvNet)]
  BY <1>5, IteratorsReach DEF Addresses
<1>8. turn' \in [Flow -> 0..(Period - 1)]
  BY <1>1, <1>5 DEF Addresses
<1>9. AddressesByBurst'
  BY <1>4, <1>6 DEF AddressesByBurst, ClnOfTurn, SrvOfTurn
<1> QED BY <1>3, <1>7, <1>8, <1>9 DEF Addresses, Period

LEMMA InitAddresses == Init => Addresses
<1> SUFFICES ASSUME Init PROVE Addresses
  OBVIOUS
<1>1. Period \in Nat \ {0} /\ Round(ClnNet) \in Nat \ {0} /\ Round(SrvNet) \in Nat \ {0}
  <2> DEFINE c == Round(ClnNet)
             s == Round(SrvNet)
  <2>1. c \in Nat \ {0} /\ s \in Nat \ {0} /\ BurstCnt \in Nat \ {0}
    BY RoundFacts, RatesAssumption
  <2> HIDE DEF c, s
  <2>2. c * s \in Nat \ {0}
    BY <2>1
  <2>3. BurstCnt * (c * s) \in Nat \ {0}
    BY <2>1, <2>2
  <2> QED BY <2>1, <2>3 DEF Period, c, s
<1>2. 0 % BurstCnt = 0 /\ 0 \div BurstCnt = 0 /\ BurstCnt \in Nat \ {0}
  <2>1. BurstCnt \in Nat \ {0} /\ 0 = BurstCnt * 0 + 0 /\ 0 \in 0..(BurstCnt - 1)
    BY RatesAssumption
  <2> QED BY <2>1, Quotient
<1>3. 0 % Round(ClnNet) = 0 /\ 0 % Round(SrvNet) = 0
  <2>1. \A n \in Nat \ {0} : 0 = n * 0 + 0 /\ 0 \in 0..(n - 1)
    OBVIOUS
  <2> QED BY <1>1, <2>1, Quotient
<1>4. HostsBegin(ClnNet) = ClnOfTurn(0) /\ HostsBegin(SrvNet) = SrvOfTurn(0)
  BY <1>2, <1>3, RoundFacts DEF ClnOfTurn, SrvOfTurn
<1>5. HostsBegin(ClnNet) \in Reached(ClnNet) /\ HostsBegin(SrvNet) \in Reached(SrvNet)
  <2>1. \A net \in {ClnNet, SrvNet} : Address(net, 0) = HostsBegin(net)
    BY RoundFacts
  <2> QED BY <1>1, <2>1 DEF Reached
<1>6. AddressesByBurst
  BY <1>4 DEF Init, AddressesByBurst
<1> QED BY <1>1, <1>2, <1>5, <1>6 DEF Init, Addresses

LEMMA StepAddresses == TypeOK /\ Addresses /\ [Next]_vars => Addresses'
<1> SUFFICES ASSUME TypeOK, Addresses, [Next]_vars PROVE Addresses'
  OBVIOUS
<1>1. ASSUME UNCHANGED <<made, addrVars>> PROVE Addresses'
  BY <1>1 DEF addrVars, Addresses, AddressesByBurst, ClnOfTurn, SrvOfTurn, Period
<1>2. CASE SetupFlow
  <2>1. made \in Flow /\ TakeAddresses(made) /\ made' = made + 1
    BY <1>2, RatesAssumption DEF SetupFlow, TypeOK, Flow
  <2> QED BY <2>1, TakeAddressesStep
<1>3. CASE SetupFlowEvents
  BY <1>1, <1>3 DEF SetupFlowEvents
<1>4. CASE Tick
  BY <1>1, <1>4 DEF Tick
<1>5. CASE ManageTimers
  BY <1>1, <1>5 DEF ManageTimers
<1>6. ASSUME NEW f \in Flow, OnFlowEvent(f) PROVE Addresses'
  <2>1. made' = made /\ (TakeAddresses(f) \/ UNCHANGED addrVars)
    BY <1>6 DEF OnFlowEvent
  <2> QED BY <2>1, <1>1, TakeAddressesStep
<1>7. CASE UNCHANGED vars
  BY <1>1, <1>7 DEF vars
<1> QED BY <1>2, <1>3, <1>4, <1>5, <1>6, <1>7 DEF Next

\* Starts of passes share addresses by bursts and go through both networks in
\* rounds, however the flows' events are interleaved.
THEOREM FlowsAddressesByBurst == Spec => []AddressesByBurst
<1>1. Init => TypeOK /\ Addresses
  BY InitType, InitAddresses
<1>2. TypeOK /\ Addresses /\ [Next]_vars => (TypeOK /\ Addresses)'
  BY StepType, StepAddresses
<1>3. TypeOK /\ Addresses => AddressesByBurst
  BY DEF Addresses
<1> QED BY <1>1, <1>2, <1>3, PTL DEF Spec

(***************************************************************************)
(* Replay                                                                  *)
(***************************************************************************)

\* Timers are armed once the constructor is done, and those that are still to
\* be fired have expired.
Timers ==
  /\ running => made = FlowsPerSec
  /\ \A f \in Flow : left[f] # Off => running
  /\ \A f \in due : left[f] = 0

LEMMA InitTimers == Init => Timers
  BY DEF Init, Timers

LEMMA StepTimers == TypeOK /\ Timers /\ [Next]_vars => Timers'
<1> SUFFICES ASSUME TypeOK, Timers, [Next]_vars PROVE Timers'
  OBVIOUS
<1>1. CASE SetupFlow
  <2>1. ~running
    BY <1>1, RatesAssumption DEF SetupFlow, Timers
  <2> QED BY <1>1, <2>1 DEF SetupFlow, Timers
<1>2. CASE SetupFlowEvents
  <2>1. due = {}
    BY <1>2 DEF SetupFlowEvents, Timers, TypeOK, Off
  <2> QED BY <1>2, <2>1 DEF SetupFlowEvents, Timers
<1>3. CASE Tick
  BY <1>3 DEF Tick, Timers, TypeOK, Off
<1>4. CASE ManageTimers
  BY <1>4 DEF ManageTimers, Timers
<1>5. ASSUME NEW f \in Flow, OnFlowEvent(f) PROVE Timers'
  <2>1. running /\ made = FlowsPerSec
    BY <1>5 DEF OnFlowEvent, Timers, Off
  <2>2. running' = running /\ made' = made /\ due' = due \ {f}
    BY <1>5 DEF OnFlowEvent
  <2>3. \A g \in Flow \ {f} : left'[g] = left[g]
    BY <1>5, EventType DEF TypeOK
  <2> QED BY <2>1, <2>2, <2>3 DEF Timers, TypeOK
<1>6. CASE UNCHANGED vars
  BY <1>6 DEF vars, Timers
<1> QED BY <1>1, <1>2, <1>3, <1>4, <1>5, <1>6 DEF Next

FlowState == [f \in Flow |-> IF f >= made THEN "new"
                             ELSE IF running /\ left[f] = Off THEN "ended" ELSE "live"]

IInv == TypeOK /\ Addresses /\ Timers

LEMMA InitReplay == Init => Passes!Init
  BY InitAddresses DEF Init, Passes!Init, Addresses, Flow

\* A flow starts a pass with a pair of addresses.
LEMMA TakeAddressesMeets ==
  ASSUME Addresses, NEW f \in Flow, TakeAddresses(f)
  PROVE  Passes!Meet(f)
<1>1. clnIt \in Reached(ClnNet) /\ srvIt \in Reached(SrvNet)
  BY IteratorsReach
<1> QED BY <1>1 DEF TakeAddresses, Passes!Meet

LEMMA StepReplay ==
  ASSUME IInv, IInv', [Next]_vars
  PROVE  [Passes!Next]_(Passes!vars)
<1>1. ASSUME FlowState' = FlowState, UNCHANGED <<pktIdx, cln, srv>>
      PROVE  UNCHANGED Passes!vars
  BY <1>1 DEF FlowState, Passes!vars
<1>2. CASE SetupFlow
  <2>1. made \in Flow /\ TakeAddresses(made) /\ made' = made + 1
    BY <1>2, RatesAssumption DEF SetupFlow, IInv, TypeOK, Flow
  <2>2. ~running /\ running' = running /\ left' = left /\ pktIdx' = pktIdx
    BY <1>2, RatesAssumption DEF SetupFlow, IInv, Timers
  <2>3. PICK f \in Flow : f = made
    BY <2>1
  <2>4. f \in Nat /\ FlowState[f] = "new"
    BY <2>3, RatesAssumption DEF FlowState, Flow
  <2>5. FlowState' = [FlowState EXCEPT ![f] = "live"]
    <3>1. \A g \in Flow : g >= f + 1 <=> g >= f /\ g # f
      BY <2>4, RatesAssumption DEF Flow
    <3> QED BY <2>1, <2>2, <2>3, <3>1 DEF FlowState
  <2>6. Passes!Meet(f)
    BY <2>1, <2>3, TakeAddressesMeets DEF IInv
  <2>7. Passes!Begin(f)
    BY <2>2, <2>4, <2>5, <2>6 DEF FlowState, Passes!Begin
  <2> QED BY <2>7 DEF Passes!Next
<1>3. CASE SetupFlowEvents
  <2>1. /\ made' = made /\ ~running /\ running' /\ made = FlowsPerSec
        /\ UNCHANGED <<pktIdx, cln, srv>>
    BY <1>3 DEF SetupFlowEvents, addrVars
  <2>2. \A f \in Flow : left'[f] # Off
    <3>1. Second \in Nat /\ FlowsPerSec \in Nat \ {0}
      BY RatesAssumption
    <3>2. Second \div FlowsPerSec \in Nat
      BY <3>1, Division
    <3>3. \A f \in Flow : f * (Second \div FlowsPerSec) \in Nat
      BY <3>1, <3>2 DEF Flow
    <3> QED BY <1>3, <3>3, PktFacts DEF SetupFlowEvents, Off
  <2>3. FlowState' = FlowState
    BY <2>1, <2>2 DEF FlowState, Flow
  <2> QED BY <1>1, <2>1, <2>3
<1>4. CASE Tick
  <2>1. UNCHANGED <<made, running, pktIdx, cln, srv>>
    BY <1>4 DEF Tick, addrVars
  <2>2. \A f \in Flow : (left'[f] = Off) = (left[f] = Off)
    BY <1>4 DEF Tick, IInv, TypeOK, Off
  <2>3. FlowState' = FlowState
    BY <2>1, <2>2 DEF FlowState
  <2> QED BY <1>1, <2>1, <2>3
<1>5. CASE ManageTimers
  BY <1>1, <1>5 DEF ManageTimers, addrVars, FlowState
<1>6. ASSUME NEW f \in Flow, OnFlowEvent(f) PROVE Passes!Next
  <2>1. /\ running /\ running' = running
        /\ made = FlowsPerSec /\ made' = made
        /\ left[f] # Off
    BY <1>6 DEF OnFlowEvent, IInv, Timers, Off
  <2>2. /\ NextPkt(f) \in Pkt /\ pktIdx' = [pktIdx EXCEPT ![f] = NextPkt(f)]
        /\ \A g \in Flow \ {f} : left'[g] = left[g]
    BY <1>6, EventType DEF IInv, TypeOK
  <2>3. FlowState[f] = "live" /\ FlowState'[f] \in {"live", "ended"}
    BY <2>1, RatesAssumption DEF FlowState, Flow
  <2>4. \A g \in Flow \ {f} : FlowState'[g] = FlowState[g]
    BY <2>1, <2>2 DEF FlowState
  <2>5. FlowState' \in {FlowState, [FlowState EXCEPT ![f] = "ended"]}
    BY <2>3, <2>4 DEF FlowState
  <2>6. pktIdx[f] \in Nat /\ pktIdx[f] + 1 <= NumPkts /\ NumPkts \in Nat
    BY PktFacts DEF IInv, TypeOK, Pkt
  <2>7. CASE pktIdx[f] + 1 = NumPkts
    <3>1. NextPkt(f) = 0
      BY <2>7 DEF NextPkt
    <3>2. TakeAddresses(f)
      BY <1>6, <3>1 DEF OnFlowEvent
    <3>3. Passes!Meet(f)
      BY <3>2, TakeAddressesMeets DEF IInv
    <3>4. Passes!Advance(f)
      BY <2>2, <2>3, <2>5, <2>7, <3>1, <3>3 DEF Passes!Advance, FlowState
    <3> QED BY <3>4 DEF Passes!Next
  <2>8. CASE pktIdx[f] + 1 # NumPkts
    <3>1. NextPkt(f) = pktIdx[f] + 1 /\ NextPkt(f) # 0 /\ pktIdx[f] + 1 < NumPkts
      BY <2>6, <2>8 DEF NextPkt
    <3>2. UNCHANGED <<cln, srv>>
      BY <1>6, <3>1 DEF OnFlowEvent, addrVars
    <3>3. Passes!Advance(f)
      BY <2>2, <2>3, <2>5, <3>1, <3>2 DEF Passes!Advance, FlowState
    <3> QED BY <3>3 DEF Passes!Next
  <2> QED BY <2>7, <2>8
<1>7. CASE UNCHANGED vars
  BY <1>1, <1>7 DEF vars, addrVars, FlowState
<1> QED BY <1>2, <1>3, <1>4, <1>5, <1>6, <1>7 DEF Next

\* Every flow goes through the capture in order, pass after pass, each with one
\* pair of addresses, whatever the networks.
THEOREM FlowsImplementReplay == Spec => ImplementsReplay
<1>1. Init => IInv
  BY InitType, InitAddresses, InitTimers DEF IInv
<1>2. IInv /\ [Next]_vars => IInv'
  BY StepType, StepAddresses, StepTimers DEF IInv
<1>3. Init => Passes!Init
  BY InitReplay
<1>4. IInv /\ IInv' /\ [Next]_vars => [Passes!Next]_(Passes!vars)
  BY StepReplay
<1> QED BY <1>1, <1>2, <1>3, <1>4, PTL DEF Spec, ImplementsReplay, Passes!Spec

(***************************************************************************)
(* The contract of timers and flows                                        *)
(***************************************************************************)

\* The constructor arms all timers, time and the passes of rte_timer_manage()
\* leave them, and an event arms its own or leaves it disarmed.
LEMMA StepContract ==
  ASSUME TypeOK, Timers, [Next]_vars
  PROVE  [Contract!Next]_(Contract!vars)
<1> DEFINE fl == IF running THEN Flow ELSE {}
           ar == {f \in Flow : left[f] # Off}
<1>1. ASSUME running' = running, due' = due, \A f \in Flow : left'[f] = Off <=> left[f] = Off
      PROVE  UNCHANGED Contract!vars
  BY <1>1 DEF Contract!vars
<1>2. CASE SetupFlow
  BY <1>1, <1>2 DEF SetupFlow
<1>3. CASE SetupFlowEvents
  <2>1. ~running /\ running' /\ fl = {} /\ fl' = Flow
    BY <1>3 DEF SetupFlowEvents
  <2>2. ar = {} /\ due = {} /\ due' = due
    BY <1>3, <2>1 DEF SetupFlowEvents, Timers, TypeOK, Off
  <2>3. ar' = Flow
    <3>1. Second \in Nat /\ FlowsPerSec \in Nat \ {0}
      BY RatesAssumption
    <3>2. Second \div FlowsPerSec \in Nat
      BY <3>1, Division
    <3>3. \A f \in Flow : f * (Second \div FlowsPerSec) \in Nat
      BY <3>1, <3>2 DEF Flow
    <3> QED BY <1>3, <3>3, PktFacts DEF SetupFlowEvents, Off
  <2>4. Contract!Begin
    BY <2>1, <2>2, <2>3 DEF Contract!Begin
  <2> QED BY <2>4 DEF Contract!Next
<1>4. CASE Tick
  <2>1. \A f \in Flow : left'[f] = Off <=> left[f] = Off
    BY <1>4 DEF Tick, TypeOK, Off
  <2> QED BY <1>1, <1>4, <2>1 DEF Tick
<1>5. CASE ManageTimers
  <2>1. due' \in SUBSET ar
    BY <1>5 DEF ManageTimers, Off
  <2>2. Contract!StartPass
    BY <1>5, <2>1 DEF ManageTimers, Contract!StartPass
  <2> QED BY <2>2 DEF Contract!Next
<1>6. ASSUME NEW f \in Flow, OnFlowEvent(f) PROVE Contract!Next
  <2>1. f \in due /\ due' = due \ {f} /\ running' = running /\ f \in ar
    BY <1>6 DEF OnFlowEvent, Timers, Off
  <2>2. \A g \in Flow \ {f} : left'[g] = left[g]
    BY <1>6, EventType DEF TypeOK
  <2>3. ar' \in {ar, ar \ {f}}
    BY <2>1, <2>2
  <2>4. Contract!Fire(f)
    BY <2>1, <2>3 DEF Contract!Fire
  <2> QED BY <2>4 DEF Contract!Next
<1>7. CASE UNCHANGED vars
  BY <1>1, <1>7 DEF vars
<1> QED BY <1>2, <1>3, <1>4, <1>5, <1>6, <1>7 DEF Next

\* The generator keeps its side of the contract with the scheduler, for every
\* capture and however the networks of the addresses are.
THEOREM FlowsImplementTimers == Spec => ImplementsTimers
<1>1. Init => TypeOK /\ Timers
  BY InitType, InitTimers
<1>2. TypeOK /\ Timers /\ [Next]_vars => TypeOK' /\ Timers'
  BY StepType, StepTimers
<1>3. Init => Contract!Init
  BY DEF Init, Contract!Init
<1>4. TypeOK /\ Timers /\ [Next]_vars => [Contract!Next]_(Contract!vars)
  BY StepContract
<1> QED BY <1>1, <1>2, <1>3, <1>4, PTL DEF Spec, ImplementsTimers, Contract!Spec
=============================================================================
