---------------------- MODULE TrafficGenerator_proofs ----------------------
(***************************************************************************)
(* What holds of the running program for every number of clients and flows *)
(* and for every capacity of the two queues.                               *)
(***************************************************************************)
EXTENDS TrafficGenerator, SequenceTheorems, TLAPS

Answer == Response \cup Report

\* Where the two loops stand: a batch is handled completely before anything
\* else is done, packets and due timers exist only while the timers fire, and
\* without a generation there is nothing that could fire.
Phases ==
  /\ genPc # "handle" => genBatch = <<>>
  /\ mgmtPc # "handle" => mgmtBatch = <<>>
  /\ genPc # "timers" => due = {} /\ txPkts = 0
  /\ ~Started => genPc # "timers" /\ flows = {}

IInv == TypeOK /\ Phases

(***************************************************************************)
(* Messages on sequences                                                   *)
(***************************************************************************)

\* What one dequeue takes and leaves, and that nothing is lost in between.
LEMMA FrontRest ==
  ASSUME NEW S, NEW q \in Seq(S), NEW n \in PopCounts(q)
  PROVE  /\ Front(q, n) \in Seq(S) /\ Rest(q, n) \in Seq(S)
         /\ Front(q, n) \o Rest(q, n) = q
<1>1. n \in 0..Len(q) /\ Len(q) \in Nat
  BY DEF PopCounts
<1>2. Front(q, n) \in Seq(S) /\ Rest(q, n) \in Seq(S)
  BY <1>1, SubSeqProperties DEF Front, Rest
<1>3. SubSeq(q, 1, n) \o SubSeq(q, n + 1, Len(q)) = SubSeq(q, 1, Len(q))
  <2>1. 1 \in 1..(Len(q) + 1) /\ n \in (1 - 1)..Len(q) /\ Len(q) \in n..Len(q)
    BY <1>1
  <2> QED BY <2>1, ConcatAdjacentSubSeq
<1>4. SubSeq(q, 1, Len(q)) = q
  BY SubSeqFull
<1> QED BY <1>2, <1>3, <1>4 DEF Front, Rest

LEMMA AppendToConcat ==
  ASSUME NEW S, NEW s \in Seq(S), NEW t \in Seq(S), NEW e \in S
  PROVE  s \o Append(t, e) = Append(s \o t, e)
<1>1. Append(t, e) = t \o <<e>> /\ s \o t \in Seq(S) /\ <<e>> \in Seq(S)
  BY AppendIsConcat, ConcatProperties
<1>2. Append(s \o t, e) = (s \o t) \o <<e>>
  BY <1>1, AppendIsConcat
<1>3. (s \o t) \o <<e>> = s \o (t \o <<e>>)
  BY <1>1, ConcatAssociative
<1> QED BY <1>1, <1>2, <1>3

LEMMA TailOfConcat ==
  ASSUME NEW S, NEW s \in Seq(S), NEW t \in Seq(S), s # <<>>
  PROVE  /\ s \o t # <<>>
         /\ Head(s \o t) = Head(s)
         /\ Tail(s \o t) = Tail(s) \o t
<1>1. /\ Len(s) \in Nat \ {0} /\ Len(t) \in Nat
      /\ s \o t \in Seq(S) /\ Len(s \o t) = Len(s) + Len(t)
      /\ \A i \in 1..(Len(s) + Len(t)) :
           (s \o t)[i] = IF i <= Len(s) THEN s[i] ELSE t[i - Len(s)]
  BY ConcatProperties, EmptySeq
<1>2. s \o t # <<>>
  BY <1>1
<1>3. /\ Tail(s) \in Seq(S) /\ Len(Tail(s)) = Len(s) - 1
      /\ \A i \in 1..Len(Tail(s)) : Tail(s)[i] = s[i + 1]
  BY HeadTailProperties
<1>4. /\ Tail(s \o t) \in Seq(S) /\ Len(Tail(s \o t)) = Len(s) + Len(t) - 1
      /\ \A i \in 1..Len(Tail(s \o t)) : Tail(s \o t)[i] = (s \o t)[i + 1]
  BY <1>1, <1>2, HeadTailProperties
<1>5. /\ Tail(s) \o t \in Seq(S) /\ Len(Tail(s) \o t) = Len(s) - 1 + Len(t)
      /\ \A i \in 1..(Len(s) - 1 + Len(t)) :
           (Tail(s) \o t)[i] = IF i <= Len(s) - 1 THEN Tail(s)[i] ELSE t[i - (Len(s) - 1)]
  BY <1>3, ConcatProperties
<1>6. \A i \in 1..Len(Tail(s \o t)) : Tail(s \o t)[i] = (Tail(s) \o t)[i]
  <2> TAKE i \in 1..Len(Tail(s \o t))
  <2>1. i \in 1..(Len(s) + Len(t) - 1) /\ i + 1 \in 1..(Len(s) + Len(t))
    BY <1>1, <1>4
  <2>2. CASE i <= Len(s) - 1
    BY <1>1, <1>3, <1>4, <1>5, <2>1, <2>2
  <2>3. CASE ~(i <= Len(s) - 1)
    <3>1. i + 1 - Len(s) = i - (Len(s) - 1)
      BY <1>1, <2>1
    <3> QED BY <1>1, <1>4, <1>5, <2>1, <2>3, <3>1
  <2> QED BY <2>2, <2>3
<1>7. Tail(s \o t) = Tail(s) \o t
  BY <1>1, <1>4, <1>5, <1>6, SeqEqual
<1>8. Head(s \o t) = Head(s)
  BY <1>1, <1>2
<1> QED BY <1>2, <1>7, <1>8

(***************************************************************************)
(* Types and phases                                                        *)
(***************************************************************************)

LEMMA InitIInv == Init => IInv
<1> SUFFICES ASSUME Init PROVE IInv
  OBVIOUS
<1> USE DEF Init, ChannelsInit, MgmtInit, GenInit
<1>1. /\ <<>> \in Seq(Request) /\ <<>> \in Seq(Answer) /\ <<>> \in Seq(Conns)
  BY EmptySeq
<1>2. MgmtTypeOK
  BY <1>1 DEF MgmtTypeOK, Answer
<1>3. GenTypeOK
  <2>1. txPkts \in 0..(BurstPkts - 1)
    BY BurstAssumption
  <2>2. flows \in SUBSET Flows /\ armed \in SUBSET flows /\ due \in SUBSET armed
    OBVIOUS
  <2> QED BY <1>1, <2>1, <2>2 DEF GenTypeOK
<1>4. TypeOK
  BY <1>1, <1>2, <1>3 DEF TypeOK, Answer
<1>5. Phases
  BY DEF Phases, Started
<1> QED BY <1>4, <1>5 DEF IInv

\* The handlers of the management thread.
LEMMA OnHttpRequestIInv ==
  ASSUME IInv, NEW c \in Conns, NEW t \in Targets, OnHttpRequest(c, t), UNCHANGED genVars
  PROVE  IInv'
<1> USE DEF OnHttpRequest, genVars
<1>1. /\ requests' \in Seq(Request) /\ cb' \in [Kinds -> Conns \cup {NoConn}]
      /\ answer' \in [Conns -> Answers \cup {"none"}] /\ sent' \in Seq(Conns)
  <2> USE DEF IInv, TypeOK, MgmtTypeOK
  <2>1. \A a \in Answers : AnswerNow(c, a) =>
          /\ requests' \in Seq(Request) /\ cb' \in [Kinds -> Conns \cup {NoConn}]
          /\ answer' \in [Conns -> Answers \cup {"none"}] /\ sent' \in Seq(Conns)
    BY DEF AnswerNow
  <2>2. CASE t = "other" /\ AnswerNow(c, "unknown")
    BY <2>1, <2>2 DEF Answers
  <2>3. CASE t = "start" /\ AnswerNow(c, "bad")
    BY <2>1, <2>3 DEF Answers
  <2>4. CASE t \in Kinds /\ Forward(c, t)
    <3>1. CASE AnswerNow(c, "busy") \/ AnswerNow(c, "full")
      BY <2>1, <3>1 DEF Answers
    <3>2. CASE /\ requests' = Append(requests, [kind |-> t, from |-> c])
               /\ cb' = [cb EXCEPT ![t] = c]
               /\ sent' = Append(sent, c)
               /\ UNCHANGED answer
      <4>1. [kind |-> t, from |-> c] \in Request
        BY <2>4 DEF Request
      <4> QED BY <2>4, <3>2, <4>1
    <3> QED BY <2>4, <3>1, <3>2 DEF Forward
  <2> QED BY <2>2, <2>3, <2>4
<1>2. asked' \in [Conns -> Targets \cup {"nothing"}]
  BY DEF IInv, TypeOK, MgmtTypeOK
<1>3. MgmtTypeOK'
  BY <1>1, <1>2 DEF IInv, TypeOK, MgmtTypeOK
<1>4. TypeOK'
  BY <1>1, <1>3 DEF IInv, TypeOK, GenTypeOK
<1>5. Phases'
  BY DEF IInv, Phases, Started
<1> QED BY <1>4, <1>5 DEF IInv

LEMMA MgmtDequeueIInv ==
  ASSUME IInv, MgmtDequeue, UNCHANGED genVars
  PROVE  IInv'
<1> USE DEF MgmtDequeue, genVars
<1>1. mgmtBatch' \in Seq(Answer) /\ responses' \in Seq(Answer)
  BY FrontRest DEF IInv, TypeOK, Answer
<1>2. MgmtTypeOK'
  BY <1>1 DEF IInv, TypeOK, MgmtTypeOK, Answer
<1>3. TypeOK'
  BY <1>1, <1>2 DEF IInv, TypeOK, GenTypeOK, Answer
<1>4. Phases'
  BY DEF IInv, Phases, Started
<1> QED BY <1>3, <1>4 DEF IInv

LEMMA MgmtHandleIInv ==
  ASSUME IInv, MgmtHandle, UNCHANGED genVars
  PROVE  IInv'
<1> USE DEF MgmtHandle, genVars
<1>1. Head(mgmtBatch) \in Answer /\ mgmtBatch' \in Seq(Answer)
  BY HeadTailProperties DEF IInv, TypeOK, MgmtTypeOK, Answer
<1>2. /\ aborted' \in BOOLEAN /\ answer' \in [Conns -> Answers \cup {"none"}]
      /\ cb' \in [Kinds -> Conns \cup {NoConn}]
  <2>1. CASE Head(mgmtBatch).kind = "report"
    BY <2>1 DEF IInv, TypeOK, MgmtTypeOK
  <2>2. CASE OnResponse(Head(mgmtBatch))
    BY <2>2 DEF OnResponse, EnforceAborts, IInv, TypeOK, MgmtTypeOK, Answers
  <2> QED BY <2>1, <2>2
<1>3. MgmtTypeOK'
  BY <1>1, <1>2 DEF IInv, TypeOK, MgmtTypeOK, Answer
<1>4. TypeOK'
  BY <1>2, <1>3 DEF IInv, TypeOK, GenTypeOK
<1>5. Phases'
  BY DEF IInv, Phases, Started
<1> QED BY <1>4, <1>5 DEF IInv

LEMMA MgmtStepIInv ==
  ASSUME IInv, MgmtStep
  PROVE  IInv'
<1> USE DEF MgmtStep
<1>1. CASE PollNothing
  BY <1>1 DEF PollNothing, channelVars, genVars, IInv, TypeOK, MgmtTypeOK, GenTypeOK, Phases, Started
<1>2. CASE MgmtReturn
  BY <1>2 DEF MgmtReturn, channelVars, genVars, IInv, TypeOK, MgmtTypeOK, GenTypeOK, Phases, Started
<1>3. CASE MgmtDequeue
  BY <1>3, MgmtDequeueIInv
<1>4. CASE MgmtHandle
  BY <1>4, MgmtHandleIInv
<1>5. CASE \E c \in Conns, t \in Targets : OnHttpRequest(c, t)
  BY <1>5, OnHttpRequestIInv
<1> QED BY <1>1, <1>2, <1>3, <1>4, <1>5 DEF MgmtNext, MgmtLoop

\* The steps of the generation thread.
LEMMA GenDequeueIInv ==
  ASSUME IInv, GenDequeue, UNCHANGED mgmtVars
  PROVE  IInv'
<1> USE DEF GenDequeue, mgmtVars
<1>1. genBatch' \in Seq(Request) /\ requests' \in Seq(Request)
  BY FrontRest DEF IInv, TypeOK
<1>2. GenTypeOK'
  BY <1>1 DEF IInv, TypeOK, GenTypeOK
<1>3. TypeOK'
  BY <1>1, <1>2 DEF IInv, TypeOK, MgmtTypeOK
<1>4. Phases'
  BY DEF IInv, Phases, Started
<1> QED BY <1>3, <1>4 DEF IInv

\* A response is queued or dropped.
LEMMA RespondTypes ==
  ASSUME IInv, NEW msg \in Request, NEW ok \in BOOLEAN, Respond(msg, ok)
  PROVE  responses' \in Seq(Answer) /\ lost' \in SUBSET Kinds
<1>1. [kind |-> msg.kind, from |-> msg.from, ok |-> ok] \in Answer /\ msg.kind \in Kinds
  BY DEF Request, Response, Answer
<1>2. CASE IsFull(responses, IncCapacity)
  BY <1>1, <1>2 DEF Respond, IInv, TypeOK, Answer
<1>3. CASE ~IsFull(responses, IncCapacity)
  <2>1. responses \in Seq(Answer) /\ lost \in SUBSET Kinds
    BY DEF IInv, TypeOK, Answer
  <2>2. /\ responses' = Append(responses, [kind |-> msg.kind, from |-> msg.from, ok |-> ok])
        /\ lost' = lost
    BY <1>3 DEF Respond
  <2>3. Append(responses, [kind |-> msg.kind, from |-> msg.from, ok |-> ok]) \in Seq(Answer)
    BY <1>1, <2>1, AppendProperties
  <2> QED BY <2>1, <2>2, <2>3
<1> QED BY <1>2, <1>3

LEMMA GenHandleIInv ==
  ASSUME IInv, GenHandle, UNCHANGED mgmtVars
  PROVE  IInv'
<1> USE DEF GenHandle, mgmtVars
<1> DEFINE msg == Head(genBatch)
<1>1. msg \in Request /\ msg.from \in Conns /\ genBatch' \in Seq(Request)
  <2>1. msg \in Request /\ genBatch' \in Seq(Request)
    BY HeadTailProperties DEF IInv, TypeOK, GenTypeOK
  <2> QED BY <2>1 DEF Request
<1>2. genPc = "handle" /\ genPc' = "handle" /\ due = {} /\ due' = {} /\ txPkts' = 0
  BY DEF IInv, Phases
<1>3. /\ responses' \in Seq(Answer) /\ lost' \in SUBSET Kinds /\ aborted' \in BOOLEAN
      /\ running' \in Conns \cup {NoConn} /\ expired' \in BOOLEAN
      /\ flows' \in SUBSET Flows /\ armed' \in SUBSET flows'
      /\ ~Started' => flows' = {}
  <2> HIDE DEF msg
  <2>1. CASE RefuseStart(msg)
    BY <1>1, <2>1, RespondTypes DEF RefuseStart, IInv, TypeOK, GenTypeOK, Phases, Started
  <2>2. CASE AcceptStart(msg)
    <3>1. running' # NoConn
      BY <1>1, <2>2, ConnAssumption DEF AcceptStart
    <3> QED BY <1>1, <2>2, <3>1, RespondTypes DEF AcceptStart, EnforceAborts, Started
  <2>3. CASE StopGeneration /\ Respond(msg, TRUE)
    BY <1>1, <2>3, RespondTypes DEF StopGeneration, EnforceAborts
  <2>4. CASE Respond(msg, TRUE) /\ UNCHANGED <<running, expired, flows, armed, aborted>>
    BY <1>1, <2>4, RespondTypes DEF IInv, TypeOK, GenTypeOK, Phases, Started
  <2> QED BY <2>1, <2>2, <2>3, <2>4 DEF msg
<1> HIDE DEF msg
<1>4. txPkts' \in 0..(BurstPkts - 1)
  BY <1>2, BurstAssumption
<1>5. GenTypeOK'
  BY <1>1, <1>2, <1>3, <1>4 DEF GenTypeOK
<1>6. TypeOK'
  BY <1>3, <1>5 DEF IInv, TypeOK, MgmtTypeOK, Answer
<1>7. Phases'
  BY <1>2, <1>3 DEF IInv, Phases
<1> QED BY <1>6, <1>7 DEF IInv

LEMMA GenTimeoutIInv ==
  ASSUME IInv, GenTimeout, UNCHANGED mgmtVars
  PROVE  IInv'
<1> USE DEF GenTimeout, StopGeneration, mgmtVars
<1>1. due = {} /\ 0 \in 0..(BurstPkts - 1)
  BY BurstAssumption DEF IInv, Phases
<1>2. GenTypeOK'
  BY <1>1 DEF IInv, TypeOK, GenTypeOK
<1>3. TypeOK'
  BY <1>2 DEF EnforceAborts, IInv, TypeOK, MgmtTypeOK
<1>4. Phases'
  BY <1>1 DEF IInv, Phases, Started
<1> QED BY <1>3, <1>4 DEF IInv

LEMMA OnFlowEventIInv ==
  ASSUME IInv, NEW f \in Flows, OnFlowEvent(f), UNCHANGED mgmtVars
  PROVE  IInv'
<1> USE DEF OnFlowEvent, mgmtVars
<1>1. responses' \in Seq(Answer)
  <2>1. [kind |-> "report"] \in Answer
    BY DEF Answer, Report
  <2> QED BY <2>1, AppendProperties DEF DoReport, IInv, TypeOK, Answer
<1>2. txPkts' \in 0..(BurstPkts - 1)
  BY BurstAssumption DEF SendPkt, IInv, TypeOK, GenTypeOK
<1>3. armed' \in SUBSET flows' /\ due' \in SUBSET armed'
  BY DEF IInv, TypeOK, GenTypeOK
<1>4. GenTypeOK'
  BY <1>2, <1>3 DEF IInv, TypeOK, GenTypeOK
<1>5. TypeOK'
  BY <1>1, <1>4 DEF IInv, TypeOK, MgmtTypeOK, Answer
<1>6. Phases'
  BY DEF IInv, Phases, Started
<1> QED BY <1>5, <1>6 DEF IInv

\* The steps that move neither messages nor flows.
LEMMA GenQuietIInv ==
  ASSUME IInv, GenIdle \/ GenManageTimers \/ GenTransmit \/ Expire, UNCHANGED mgmtVars
  PROVE  IInv'
<1> USE DEF mgmtVars, channelVars
<1>1. 0 \in 0..(BurstPkts - 1)
  BY BurstAssumption
<1>2. CASE GenIdle
  BY <1>2 DEF GenIdle, EnforceAborts, IInv, TypeOK, MgmtTypeOK, GenTypeOK, Phases, Started
<1>3. CASE GenManageTimers
  BY <1>3 DEF GenManageTimers, IInv, TypeOK, MgmtTypeOK, GenTypeOK, Phases, Started
<1>4. CASE GenTransmit
  BY <1>1, <1>4 DEF GenTransmit, IInv, TypeOK, MgmtTypeOK, GenTypeOK, Phases, Started
<1>5. CASE Expire
  BY <1>5 DEF Expire, IInv, TypeOK, MgmtTypeOK, GenTypeOK, Phases, Started
<1> QED BY <1>2, <1>3, <1>4, <1>5

LEMMA NextIInv ==
  ASSUME IInv, [Next]_vars
  PROVE  IInv'
<1>1. CASE MgmtStep
  BY <1>1, MgmtStepIInv
<1>2. CASE GenStep
  <2>1. CASE \E f \in Flows : OnFlowEvent(f)
    BY <1>2, <2>1, OnFlowEventIInv DEF GenStep
  <2> QED BY <1>2, <2>1, GenDequeueIInv, GenHandleIInv, GenTimeoutIInv, GenQuietIInv
             DEF GenStep, GenLoop
<1>3. CASE TimePasses
  BY <1>3, GenQuietIInv DEF TimePasses
<1>4. CASE UNCHANGED vars
  BY <1>4 DEF vars, channelVars, mgmtVars, genVars,
              IInv, TypeOK, MgmtTypeOK, GenTypeOK, Phases, Started
<1> QED BY <1>1, <1>2, <1>3, <1>4 DEF Next

THEOREM Invariance == Spec => []IInv
<1>1. Init => IInv
  BY InitIInv
<1>2. IInv /\ [Next]_vars => IInv'
  BY NextIInv
<1> QED BY <1>1, <1>2, PTL DEF Spec

\* The variables of both managers and of the queues between them keep to their
\* types; in particular the packet vector never outgrows a burst.
THEOREM ProgramTypeCorrect == Spec => []TypeOK
<1>1. IInv => TypeOK
  BY DEF IInv
<1> QED BY <1>1, Invariance, PTL

\* Without a generation there are no timers and no packets, whichever way the
\* last generation ended: this is what process_events enforces when idle.
THEOREM ProgramIdleIsClean == Spec => []IdleIsClean
<1>1. IInv => IdleIsClean
  BY DEF IInv, Phases, IdleIsClean
<1> QED BY <1>1, Invariance, PTL

(***************************************************************************)
(* The contract about the timers of flows                                  *)
(***************************************************************************)

LEMMA InitContract == Init => Contract!Init
BY DEF Init, GenInit, Contract!Init

\* Requests are handled, and the duration is looked at, only while no callback is
\* due; and without a generation there is no flow a new one could find.
LEMMA StepContract ==
  ASSUME IInv, [Next]_vars
  PROVE  [Contract!Next]_(Contract!vars)
<1> USE DEF Contract!vars
<1>1. CASE MgmtStep
  BY <1>1 DEF MgmtStep, genVars
<1>2. CASE GenStep
  <2>1. CASE GenHandle
    <3>1. due = {} /\ due' = {}
      BY <2>1 DEF GenHandle, IInv, Phases
    <3>2. ASSUME NEW msg, RefuseStart(msg) PROVE UNCHANGED Contract!vars
      BY <3>1, <3>2 DEF RefuseStart
    <3>3. ASSUME NEW msg, AcceptStart(msg) PROVE Contract!Begin
      <4>1. flows = {} /\ armed = {}
        BY <3>3 DEF AcceptStart, IInv, Phases, TypeOK, GenTypeOK
      <4> QED BY <3>1, <3>3, <4>1 DEF AcceptStart, Contract!Begin
    <3>4. CASE StopGeneration
      BY <3>1, <3>4 DEF StopGeneration, Contract!End, Contract!Next
    <3>5. CASE UNCHANGED <<flows, armed>>
      BY <3>1, <3>5
    <3> QED BY <2>1, <3>2, <3>3, <3>4, <3>5 DEF GenHandle, Contract!Next
  <2>2. CASE GenTimeout
    <3>1. due = {} /\ due' = {}
      BY <2>2 DEF GenTimeout, IInv, Phases
    <3> QED BY <2>2, <3>1 DEF GenTimeout, StopGeneration, Contract!End, Contract!Next
  <2>3. CASE GenManageTimers
    <3>1. due = {}
      BY <2>3 DEF GenManageTimers, IInv, Phases
    <3> QED BY <2>3, <3>1 DEF GenManageTimers, Contract!StartPass, Contract!Next
  <2>4. ASSUME NEW f \in Flows, OnFlowEvent(f) PROVE Contract!Fire(f)
    BY <2>4 DEF OnFlowEvent, Contract!Fire
  <2>5. CASE GenDequeue \/ GenIdle \/ GenTransmit
    BY <2>5 DEF GenDequeue, GenIdle, GenTransmit
  <2> QED BY <1>2, <2>1, <2>2, <2>3, <2>4, <2>5 DEF GenStep, GenLoop, Contract!Next
<1>3. CASE TimePasses \/ UNCHANGED vars
  BY <1>3 DEF TimePasses, Expire, vars, genVars
<1> QED BY <1>1, <1>2, <1>3 DEF Next

\* What gen/manager.cpp does between and during its passes is what the flows and
\* the event scheduler are told to expect: however requests, timeouts and passes
\* interleave, flows begin and end between passes only and with all their timers.
THEOREM ProgramImplementsTimers == Spec => ImplementsTimers
<1>1. Init => Contract!Init
  BY InitContract
<1>2. IInv /\ [Next]_vars => [Contract!Next]_(Contract!vars)
  BY StepContract
<1> QED BY <1>1, <1>2, Invariance, PTL DEF Spec, ImplementsTimers, Contract!Spec

(***************************************************************************)
(* One message of a kind on its way                                        *)
(***************************************************************************)

LEMMA AppendFlight ==
  ASSUME NEW S, NEW s \in Seq(S), NEW e \in S, NEW k
  PROVE  InFlight(Append(s, e), k) <=> InFlight(s, k) \/ e.kind = k
<1> DEFINE t == Append(s, e)
<1>1. /\ Len(t) = Len(s) + 1 /\ Len(s) \in Nat
      /\ \A i \in 1..Len(s) : t[i] = s[i]
      /\ t[Len(s) + 1] = e
  BY AppendProperties
<1> HIDE DEF t
<1>2. ASSUME InFlight(t, k) PROVE InFlight(s, k) \/ e.kind = k
  <2>1. PICK i \in 1..Len(t) : t[i].kind = k
    BY <1>2 DEF InFlight
  <2>2. i \in 1..Len(s) \/ i = Len(s) + 1
    BY <1>1, <2>1
  <2> QED BY <1>1, <2>1, <2>2 DEF InFlight
<1>3. ASSUME InFlight(s, k) PROVE InFlight(t, k)
  <2>1. PICK i \in 1..Len(s) : s[i].kind = k
    BY <1>3 DEF InFlight
  <2>2. i \in 1..Len(t)
    BY <1>1, <2>1
  <2> QED BY <1>1, <2>1, <2>2 DEF InFlight
<1>4. ASSUME e.kind = k PROVE InFlight(t, k)
  <2>1. Len(s) + 1 \in 1..Len(t)
    BY <1>1
  <2> QED BY <1>1, <1>4, <2>1 DEF InFlight
<1> QED BY <1>2, <1>3, <1>4 DEF t

LEMMA AppendUnique ==
  ASSUME NEW S, NEW s \in Seq(S), NEW e \in S, NEW k, Unique(s, k),
         e.kind = k => ~InFlight(s, k)
  PROVE  Unique(Append(s, e), k)
<1> DEFINE t == Append(s, e)
<1>1. /\ Len(t) = Len(s) + 1 /\ Len(s) \in Nat
      /\ \A i \in 1..Len(s) : t[i] = s[i]
      /\ t[Len(s) + 1] = e
  BY AppendProperties
<1> HIDE DEF t
<1>2. SUFFICES ASSUME NEW i \in 1..Len(t), NEW j \in 1..Len(t), t[i].kind = k, t[j].kind = k
               PROVE  i = j
  BY DEF Unique, t
<1>3. /\ i \in 1..Len(s) \/ i = Len(s) + 1
      /\ j \in 1..Len(s) \/ j = Len(s) + 1
  BY <1>1
<1>4. CASE i \in 1..Len(s) /\ j \in 1..Len(s)
  BY <1>1, <1>2, <1>4 DEF Unique
<1>5. CASE i \in 1..Len(s) /\ j = Len(s) + 1
  BY <1>1, <1>2, <1>5 DEF InFlight
<1>6. CASE i = Len(s) + 1 /\ j \in 1..Len(s)
  BY <1>1, <1>2, <1>6 DEF InFlight
<1> QED BY <1>3, <1>4, <1>5, <1>6

LEMMA AppendAllFrom ==
  ASSUME NEW S, NEW s \in Seq(S), NEW e \in S, NEW k, NEW c, AllFrom(s, k, c),
         e.kind = k => e.from = c
  PROVE  AllFrom(Append(s, e), k, c)
<1> DEFINE t == Append(s, e)
<1>1. /\ Len(t) = Len(s) + 1 /\ Len(s) \in Nat
      /\ \A i \in 1..Len(s) : t[i] = s[i]
      /\ t[Len(s) + 1] = e
  BY AppendProperties
<1> HIDE DEF t
<1>2. SUFFICES ASSUME NEW i \in 1..Len(t), t[i].kind = k
               PROVE  t[i].from = c
  BY DEF AllFrom, t
<1>3. i \in 1..Len(s) \/ i = Len(s) + 1
  BY <1>1
<1> QED BY <1>1, <1>2, <1>3 DEF AllFrom

LEMMA TailFlight ==
  ASSUME NEW S, NEW s \in Seq(S), s # <<>>, NEW k, NEW c, Unique(s, k), AllFrom(s, k, c)
  PROVE  /\ InFlight(s, k) <=> Head(s).kind = k \/ InFlight(Tail(s), k)
         /\ Unique(Tail(s), k) /\ ~(Head(s).kind = k /\ InFlight(Tail(s), k))
         /\ AllFrom(Tail(s), k, c) /\ (Head(s).kind = k => Head(s).from = c)
<1> DEFINE t == Tail(s)
<1>1. /\ Len(t) = Len(s) - 1 /\ Len(s) \in Nat \ {0}
      /\ \A i \in 1..Len(t) : t[i] = s[i + 1] /\ i + 1 \in 1..Len(s)
      /\ Head(s) = s[1] /\ 1 \in 1..Len(s)
  BY HeadTailProperties, EmptySeq
<1> HIDE DEF t
<1>2. ASSUME NEW i \in 1..Len(s), i # 1 PROVE i - 1 \in 1..Len(t) /\ t[i - 1] = s[i]
  <2>1. i - 1 \in 1..Len(t) /\ (i - 1) + 1 = i
    BY <1>1, <1>2
  <2> QED BY <1>1, <2>1
<1>3. InFlight(s, k) <=> Head(s).kind = k \/ InFlight(t, k)
  BY <1>1, <1>2 DEF InFlight
<1>4. Unique(t, k) /\ ~(Head(s).kind = k /\ InFlight(t, k))
  <2>1. Unique(t, k)
    <3>1. SUFFICES ASSUME NEW i \in 1..Len(t), NEW j \in 1..Len(t), t[i].kind = k, t[j].kind = k
                   PROVE  i = j
      BY DEF Unique
    <3>2. i + 1 = j + 1
      BY <1>1, <3>1 DEF Unique
    <3> QED BY <3>2
  <2>2. ASSUME Head(s).kind = k, NEW i \in 1..Len(t), t[i].kind = k PROVE FALSE
    <3>1. 1 = i + 1
      BY <1>1, <2>2 DEF Unique
    <3> QED BY <3>1
  <2> QED BY <2>1, <2>2 DEF InFlight
<1>5. AllFrom(t, k, c) /\ (Head(s).kind = k => Head(s).from = c)
  BY <1>1 DEF AllFrom
<1> QED BY <1>3, <1>4, <1>5 DEF t

\* Nothing is under way for a kind whose callback is not set.
LEMMA NothingUnderWay ==
  ASSUME NEW s, NEW t, NEW k, NEW dropped, NEW c,
         OnePlace(k, s, t, dropped, NoConn)
  PROVE  /\ ~InFlight(s, k) /\ ~InFlight(t, k) /\ ~dropped
         /\ AllFrom(s, k, c) /\ AllFrom(t, k, c)
  BY DEF OnePlace, InFlight, AllFrom
\* A request of the kind that nobody waits for, and one of another kind.
LEMMA AskPlace ==
  ASSUME NEW s \in Seq(Request), NEW t, NEW m \in Request, NEW k, NEW d,
         OnePlace(k, s, t, d, NoConn), m.kind = k, m.from # NoConn
  PROVE  OnePlace(k, Append(s, m), t, d, m.from)
<1>1. /\ ~InFlight(s, k) /\ ~InFlight(t, k) /\ ~d
      /\ AllFrom(s, k, m.from) /\ AllFrom(t, k, m.from)
  BY NothingUnderWay
<1>2. Unique(s, k) /\ Unique(t, k)
  BY DEF OnePlace
<1>3. InFlight(Append(s, m), k) /\ Unique(Append(s, m), k) /\ AllFrom(Append(s, m), k, m.from)
  BY <1>1, <1>2, AppendFlight, AppendUnique, AppendAllFrom
<1> QED BY <1>1, <1>2, <1>3 DEF OnePlace

LEMMA AskOther ==
  ASSUME NEW s \in Seq(Request), NEW t, NEW m \in Request, NEW k, NEW d, NEW c,
         OnePlace(k, s, t, d, c), m.kind # k
  PROVE  OnePlace(k, Append(s, m), t, d, c)
<1>1. Unique(s, k) /\ AllFrom(s, k, c)
  BY DEF OnePlace
<1>2. /\ InFlight(Append(s, m), k) <=> InFlight(s, k)
      /\ Unique(Append(s, m), k) /\ AllFrom(Append(s, m), k, c)
  BY <1>1, AppendFlight, AppendUnique, AppendAllFrom
<1> QED BY <1>2 DEF OnePlace

\* The oldest request becomes an answer, or its answer is thrown away.
LEMMA RespondPlace ==
  ASSUME NEW s \in Seq(Request), NEW t \in Seq(Answer), NEW r \in Answer, NEW k, NEW d, NEW c,
         s # <<>>, r.kind = Head(s).kind, r.from = Head(s).from, OnePlace(k, s, t, d, c)
  PROVE  OnePlace(k, Tail(s), Append(t, r), d, c)
<1>0. Unique(s, k) /\ AllFrom(s, k, c)
  BY DEF OnePlace
<1>1. /\ InFlight(s, k) <=> Head(s).kind = k \/ InFlight(Tail(s), k)
      /\ Unique(Tail(s), k) /\ ~(Head(s).kind = k /\ InFlight(Tail(s), k))
      /\ AllFrom(Tail(s), k, c) /\ (Head(s).kind = k => Head(s).from = c)
  BY <1>0, TailFlight
<1>2. Unique(t, k) /\ AllFrom(t, k, c) /\ (r.kind = k => ~InFlight(t, k))
  BY <1>1 DEF OnePlace
<1>3. /\ InFlight(Append(t, r), k) <=> InFlight(t, k) \/ r.kind = k
      /\ Unique(Append(t, r), k) /\ AllFrom(Append(t, r), k, c)
  BY <1>1, <1>2, AppendFlight, AppendUnique, AppendAllFrom
<1> QED BY <1>1, <1>2, <1>3 DEF OnePlace

LEMMA LosePlace ==
  ASSUME NEW s \in Seq(Request), NEW t, NEW k, NEW d, NEW e, NEW c,
         s # <<>>, e <=> d \/ Head(s).kind = k, OnePlace(k, s, t, d, c)
  PROVE  OnePlace(k, Tail(s), t, e, c)
<1>0. Unique(s, k) /\ AllFrom(s, k, c)
  BY DEF OnePlace
<1>1. /\ InFlight(s, k) <=> Head(s).kind = k \/ InFlight(Tail(s), k)
      /\ Unique(Tail(s), k) /\ ~(Head(s).kind = k /\ InFlight(Tail(s), k))
      /\ AllFrom(Tail(s), k, c)
  BY <1>0, TailFlight
<1> QED BY <1>1 DEF OnePlace

\* A report is not of any kind.
LEMMA ReportPlace ==
  ASSUME NEW s, NEW t \in Seq(Answer), NEW r \in Answer, NEW k, NEW d, NEW c,
         r.kind # k, OnePlace(k, s, t, d, c)
  PROVE  OnePlace(k, s, Append(t, r), d, c)
<1>1. Unique(t, k) /\ AllFrom(t, k, c)
  BY DEF OnePlace
<1>2. /\ InFlight(Append(t, r), k) <=> InFlight(t, k)
      /\ Unique(Append(t, r), k) /\ AllFrom(Append(t, r), k, c)
  BY <1>1, AppendFlight, AppendUnique, AppendAllFrom
<1> QED BY <1>2 DEF OnePlace

\* The oldest answer reaches its client, or is of another kind.
LEMMA SettlePlace ==
  ASSUME NEW s, NEW t \in Seq(Answer), NEW k, NEW d, NEW c,
         t # <<>>, Head(t).kind = k, OnePlace(k, s, t, d, c)
  PROVE  /\ c # NoConn /\ Head(t).from = c
         /\ OnePlace(k, s, Tail(t), d, NoConn)
<1>0. Unique(t, k) /\ AllFrom(t, k, c)
  BY DEF OnePlace
<1>1. /\ InFlight(t, k) /\ ~InFlight(Tail(t), k) /\ Unique(Tail(t), k)
      /\ Head(t).from = c
  BY <1>0, TailFlight
<1>2. c # NoConn /\ ~InFlight(s, k) /\ ~d /\ Unique(s, k)
  BY <1>1 DEF OnePlace
<1>3. AllFrom(s, k, NoConn) /\ AllFrom(Tail(t), k, NoConn)
  BY <1>1, <1>2 DEF AllFrom, InFlight
<1> QED BY <1>1, <1>2, <1>3 DEF OnePlace

LEMMA SettleOther ==
  ASSUME NEW s, NEW t \in Seq(Answer), NEW k, NEW d, NEW c,
         t # <<>>, Head(t).kind # k, OnePlace(k, s, t, d, c)
  PROVE  OnePlace(k, s, Tail(t), d, c)
<1>0. Unique(t, k) /\ AllFrom(t, k, c)
  BY DEF OnePlace
<1>1. /\ InFlight(t, k) <=> InFlight(Tail(t), k)
      /\ Unique(Tail(t), k) /\ AllFrom(Tail(t), k, c)
  BY <1>0, TailFlight
<1> QED BY <1>1 DEF OnePlace
(***************************************************************************)
(* The steps, seen as moves of messages                                    *)
(***************************************************************************)

LEMMA MessageTypes ==
  ASSUME IInv
  PROVE  /\ genBatch \in Seq(Request) /\ requests \in Seq(Request)
         /\ mgmtBatch \in Seq(Answer) /\ responses \in Seq(Answer)
         /\ Asking \in Seq(Request) /\ Answering \in Seq(Answer)
<1>1. /\ genBatch \in Seq(Request) /\ requests \in Seq(Request)
      /\ mgmtBatch \in Seq(Answer) /\ responses \in Seq(Answer)
  BY DEF IInv, TypeOK, GenTypeOK, MgmtTypeOK, Answer
<1> QED BY <1>1, ConcatProperties DEF Asking, Answering

LEMMA InitOneInFlight == Init => OneInFlight
<1> SUFFICES ASSUME Init, NEW k \in Kinds PROVE OnePlace(k, Asking, Answering, k \in lost, cb[k])
  BY DEF OneInFlight
<1>1. Asking = <<>> /\ Answering = <<>> /\ lost = {} /\ cb[k] = NoConn
  BY DEF Init, ChannelsInit, MgmtInit, GenInit, Asking, Answering
<1>2. Len(<<>>) = 0
  OBVIOUS
<1> QED BY <1>1, <1>2 DEF OnePlace, InFlight, Unique, AllFrom

\* Of a kind that nobody waits for nothing is queued, and of the two others one
\* request each, so that a third request still finds room.
LEMMA RequestsFit ==
  ASSUME IInv, OneInFlight, NEW k \in Kinds, cb[k] = NoConn
  PROVE  ~IsFull(requests, OutCapacity)
<1>1. /\ Asking \in Seq(Request) /\ requests \in Seq(Request)
      /\ Len(genBatch) \in Nat /\ Len(requests) \in Nat
      /\ Len(Asking) = Len(genBatch) + Len(requests)
      /\ \A i \in 1..Len(requests) : Asking[Len(genBatch) + i] = requests[i]
  <2>1. genBatch \in Seq(Request) /\ requests \in Seq(Request) /\ Asking \in Seq(Request)
    BY MessageTypes
  <2>2. /\ Len(Asking) = Len(genBatch) + Len(requests)
        /\ \A i \in 1..(Len(genBatch) + Len(requests)) :
             Asking[i] = IF i <= Len(genBatch) THEN genBatch[i] ELSE requests[i - Len(genBatch)]
    BY <2>1, ConcatProperties DEF Asking
  <2>3. Len(genBatch) \in Nat /\ Len(requests) \in Nat
    BY <2>1
  <2>4. ASSUME NEW i \in 1..Len(requests) PROVE Asking[Len(genBatch) + i] = requests[i]
    <3>1. /\ Len(genBatch) + i \in 1..(Len(genBatch) + Len(requests))
          /\ ~(Len(genBatch) + i <= Len(genBatch))
          /\ (Len(genBatch) + i) - Len(genBatch) = i
      BY <2>3
    <3> QED BY <2>2, <3>1
  <2> QED BY <2>1, <2>2, <2>3, <2>4
<1>2. SUFFICES ASSUME Len(requests) >= 3 PROVE FALSE
  BY <1>1, CapacityAssumption DEF IsFull
<1> DEFINE n == Len(genBatch)
           m(i) == Asking[n + i].kind
<1>3. ASSUME NEW i \in 1..3 PROVE n + i \in 1..Len(Asking) /\ m(i) \in Kinds /\ m(i) # k
  <2>1. n + i \in 1..Len(Asking)
    BY <1>1, <1>2
  <2>2. Asking[n + i] \in Request
    BY <1>1, <2>1, ElementOfSeq
  <2>3. ~InFlight(Asking, k)
    BY NothingUnderWay DEF OneInFlight
  <2> QED BY <2>1, <2>2, <2>3 DEF Request, InFlight
<1>4. ASSUME NEW i \in 1..3, NEW j \in 1..3, m(i) = m(j) PROVE i = j
  <2>1. Unique(Asking, m(i))
    BY <1>3 DEF OneInFlight, OnePlace
  <2>2. n + i = n + j
    BY <1>3, <1>4, <2>1 DEF Unique
  <2> QED BY <1>1, <2>2
<1>5. /\ m(1) \in Kinds /\ m(2) \in Kinds /\ m(3) \in Kinds
      /\ m(1) # k /\ m(2) # k /\ m(3) # k
      /\ m(1) # m(2) /\ m(2) # m(3) /\ m(1) # m(3)
  <2>1. 1 \in 1..3 /\ 2 \in 1..3 /\ 3 \in 1..3 /\ 1 # 2 /\ 2 # 3 /\ 1 # 3
    OBVIOUS
  <2> HIDE DEF m
  <2> QED BY <1>3, <1>4, <2>1
<1> HIDE DEF m
<1> QED BY <1>5 DEF Kinds
\* A step that moves no message.
LEMMA NothingMoves ==
  ASSUME OneInFlight, Asking' = Asking, Answering' = Answering, lost' = lost, cb' = cb
  PROVE  OneInFlight'
  BY DEF OneInFlight, OnePlace

\* A request is queued, and its client waits from now on.
LEMMA OnHttpRequestOnce ==
  ASSUME IInv, OneInFlight, NEW c \in Conns, NEW t \in Targets, OnHttpRequest(c, t),
         UNCHANGED genVars
  PROVE  OneInFlight'
<1> USE DEF OnHttpRequest, genVars
<1>1. ASSUME NEW a, AnswerNow(c, a) PROVE OneInFlight'
  BY <1>1, NothingMoves DEF AnswerNow, Asking, Answering
<1>2. ASSUME t \in Kinds, cb[t] = NoConn,
             requests' = Append(requests, [kind |-> t, from |-> c]), cb' = [cb EXCEPT ![t] = c]
      PROVE  OneInFlight'
  <2> DEFINE m == [kind |-> t, from |-> c]
  <2>1. m \in Request /\ m.kind = t /\ m.from = c /\ m.from # NoConn
    BY <1>2, ConnAssumption DEF Request
  <2> HIDE DEF m
  <2>2. Asking' = Append(Asking, m) /\ Asking \in Seq(Request)
    BY <1>2, <2>1, MessageTypes, AppendToConcat DEF Asking, m
  <2>3. Answering' = Answering /\ lost' = lost
    BY DEF Answering
  <2>4. /\ cb'[t] = c
        /\ \A k \in Kinds : k # t => cb'[k] = cb[k]
    BY <1>2 DEF IInv, TypeOK, MgmtTypeOK
  <2>5. ASSUME NEW k \in Kinds PROVE OnePlace(k, Append(Asking, m), Answering, k \in lost, cb'[k])
    <3>1. CASE k = t
      BY <1>2, <2>1, <2>2, <2>4, <3>1, AskPlace DEF OneInFlight
    <3>2. CASE k # t
      BY <2>1, <2>2, <2>4, <3>2, AskOther DEF OneInFlight
    <3> QED BY <3>1, <3>2
  <2> QED BY <2>2, <2>3, <2>5 DEF OneInFlight
<1> QED BY <1>1, <1>2 DEF Forward

LEMMA MgmtDequeueOnce ==
  ASSUME IInv, OneInFlight, MgmtDequeue, UNCHANGED genVars
  PROVE  OneInFlight'
<1> USE DEF MgmtDequeue, genVars
<1>1. mgmtBatch = <<>> /\ responses \in Seq(Answer)
  BY MessageTypes DEF IInv, Phases
<1>2. Answering = responses
  BY <1>1, ConcatEmptySeq DEF Answering
<1>3. mgmtBatch' \o responses' = responses
  BY <1>1, FrontRest
<1> QED BY <1>2, <1>3, NothingMoves DEF Asking, Answering

LEMMA GenDequeueOnce ==
  ASSUME IInv, OneInFlight, GenDequeue, UNCHANGED mgmtVars
  PROVE  OneInFlight'
<1> USE DEF GenDequeue, mgmtVars
<1>1. genBatch = <<>> /\ requests \in Seq(Request)
  BY MessageTypes DEF IInv, Phases
<1>2. Asking = requests
  BY <1>1, ConcatEmptySeq DEF Asking
<1>3. genBatch' \o requests' = requests
  BY <1>1, FrontRest
<1> QED BY <1>2, <1>3, NothingMoves DEF Asking, Answering

\* An answer finds its client waiting, who then waits no longer.
LEMMA MgmtHandleOnce ==
  ASSUME IInv, OneInFlight, MgmtHandle, UNCHANGED genVars
  PROVE  /\ OneInFlight'
         /\ Head(mgmtBatch).kind # "report" => cb[Head(mgmtBatch).kind] # NoConn
<1> USE DEF MgmtHandle, genVars
<1> DEFINE h == Head(mgmtBatch)
<1>1. /\ Answering \in Seq(Answer) /\ mgmtBatch \in Seq(Answer) /\ responses \in Seq(Answer)
  BY MessageTypes
<1>2. Answering # <<>> /\ Head(Answering) = h /\ Answering' = Tail(Answering) /\ h \in Answer
  BY <1>1, TailOfConcat, HeadTailProperties DEF Answering
<1>3. Asking' = Asking /\ lost' = lost
  BY DEF Asking
<1>4. CASE h.kind = "report"
  <2>1. \A k \in Kinds : h.kind # k
    BY <1>4 DEF Kinds
  <2>2. ASSUME NEW k \in Kinds PROVE OnePlace(k, Asking, Tail(Answering), k \in lost, cb[k])
    <3>1. OnePlace(k, Asking, Answering, k \in lost, cb[k])
      BY DEF OneInFlight
    <3> QED BY <1>1, <1>2, <2>1, <3>1, SettleOther
  <2> QED BY <1>2, <1>3, <1>4, <2>2 DEF OneInFlight
<1>5. CASE h.kind # "report"
  <2>1. h.kind \in Kinds
    BY <1>2, <1>5 DEF Answer, Response, Report
  <2>2. cb' = [cb EXCEPT ![h.kind] = NoConn]
    BY <1>5 DEF OnResponse
  <2>3. /\ cb'[h.kind] = NoConn
        /\ \A k \in Kinds : k # h.kind => cb'[k] = cb[k]
    BY <2>1, <2>2 DEF IInv, TypeOK, MgmtTypeOK
  <2> HIDE DEF h
  <2>4. ASSUME NEW k \in Kinds
        PROVE  /\ OnePlace(k, Asking, Tail(Answering), k \in lost, cb'[k])
               /\ h.kind = k => cb[k] # NoConn
    <3>1. OnePlace(k, Asking, Answering, k \in lost, cb[k])
      BY DEF OneInFlight
    <3>2. CASE h.kind = k
      BY <1>1, <1>2, <2>3, <3>1, <3>2, SettlePlace
    <3>3. CASE h.kind # k
      BY <1>1, <1>2, <2>3, <3>1, <3>3, SettleOther
    <3> QED BY <3>2, <3>3
  <2>5. OneInFlight'
    BY <1>2, <1>3, <2>4 DEF OneInFlight
  <2> QED BY <2>1, <2>4, <2>5 DEF h
<1> QED BY <1>4, <1>5
\* A request is answered, or its answer is thrown away.
LEMMA GenHandleOnce ==
  ASSUME IInv, OneInFlight, GenHandle, UNCHANGED mgmtVars
  PROVE  OneInFlight'
<1> USE DEF GenHandle, mgmtVars
<1> DEFINE h == Head(genBatch)
<1>1. /\ Asking \in Seq(Request) /\ Answering \in Seq(Answer)
      /\ genBatch \in Seq(Request) /\ requests \in Seq(Request)
      /\ mgmtBatch \in Seq(Answer) /\ responses \in Seq(Answer)
  BY MessageTypes
<1>2. Asking # <<>> /\ Head(Asking) = h /\ Asking' = Tail(Asking) /\ h \in Request
  BY <1>1, TailOfConcat, HeadTailProperties DEF Asking
<1>3. h.kind \in Kinds /\ h.from \in Conns
  BY <1>2 DEF Request
<1>4. \E ok \in BOOLEAN : Respond(h, ok)
  BY DEF RefuseStart, AcceptStart
<1> HIDE DEF h
<1>5. PICK ok \in BOOLEAN : Respond(h, ok)
  BY <1>4
<1>6. cb' = cb
  OBVIOUS
<1>7. CASE IsFull(responses, IncCapacity)
  <2>1. Answering' = Answering /\ lost' = lost \cup {h.kind}
    BY <1>5, <1>7 DEF Respond, Answering
  <2>2. ASSUME NEW k \in Kinds PROVE OnePlace(k, Tail(Asking), Answering, k \in lost', cb[k])
    <3>1. OnePlace(k, Asking, Answering, k \in lost, cb[k])
      BY DEF OneInFlight
    <3>2. k \in lost' <=> k \in lost \/ Head(Asking).kind = k
      BY <1>2, <2>1
    <3> QED BY <1>1, <1>2, <3>1, <3>2, LosePlace
  <2> QED BY <1>2, <1>6, <2>1, <2>2 DEF OneInFlight
<1>8. CASE ~IsFull(responses, IncCapacity)
  <2> DEFINE r == [kind |-> h.kind, from |-> h.from, ok |-> ok]
  <2>1. r \in Answer /\ r.kind = h.kind /\ r.from = h.from
    BY <1>3 DEF Answer, Response
  <2>2. responses' = Append(responses, r) /\ lost' = lost
    BY <1>5, <1>8 DEF Respond
  <2> HIDE DEF r
  <2>3. Answering' = Append(Answering, r)
    BY <1>1, <2>1, <2>2, AppendToConcat DEF Answering
  <2>4. ASSUME NEW k \in Kinds
        PROVE  OnePlace(k, Tail(Asking), Append(Answering, r), k \in lost, cb[k])
    <3>1. OnePlace(k, Asking, Answering, k \in lost, cb[k])
      BY DEF OneInFlight
    <3> QED BY <1>1, <1>2, <2>1, <3>1, RespondPlace
  <2> QED BY <1>2, <1>6, <2>2, <2>3, <2>4 DEF OneInFlight
<1> QED BY <1>7, <1>8

LEMMA OnFlowEventOnce ==
  ASSUME IInv, OneInFlight, NEW f \in Flows, OnFlowEvent(f), UNCHANGED mgmtVars
  PROVE  OneInFlight'
<1> USE DEF OnFlowEvent, mgmtVars
<1>1. Asking' = Asking /\ cb' = cb /\ lost' = lost
  BY DEF Asking
<1>2. CASE IsFull(responses, IncCapacity)
  BY <1>1, <1>2, NothingMoves DEF DoReport, Answering
<1>3. CASE ~IsFull(responses, IncCapacity)
  <2> DEFINE r == [kind |-> "report"]
  <2>1. r \in Answer /\ \A k \in Kinds : r.kind # k
    BY DEF Answer, Report, Kinds
  <2>2. responses' = Append(responses, r)
    BY <1>3 DEF DoReport
  <2> HIDE DEF r
  <2>3. Answering' = Append(Answering, r) /\ Answering \in Seq(Answer)
    BY <2>1, <2>2, MessageTypes, AppendToConcat DEF Answering
  <2>4. ASSUME NEW k \in Kinds PROVE OnePlace(k, Asking, Append(Answering, r), k \in lost, cb[k])
    <3>1. OnePlace(k, Asking, Answering, k \in lost, cb[k])
      BY DEF OneInFlight
    <3> QED BY <2>1, <2>3, <3>1, ReportPlace
  <2> QED BY <1>1, <2>3, <2>4 DEF OneInFlight
<1> QED BY <1>2, <1>3

LEMMA NextOneInFlight ==
  ASSUME IInv, OneInFlight, [Next]_vars
  PROVE  OneInFlight'
<1>1. CASE MgmtStep
  <2>1. CASE PollNothing \/ MgmtReturn
    BY <1>1, <2>1, NothingMoves
       DEF PollNothing, MgmtReturn, MgmtStep, channelVars, genVars, Asking, Answering
  <2>2. CASE MgmtDequeue
    BY <1>1, <2>2, MgmtDequeueOnce DEF MgmtStep
  <2>3. CASE MgmtHandle
    BY <1>1, <2>3, MgmtHandleOnce DEF MgmtStep
  <2>4. CASE \E c \in Conns, t \in Targets : OnHttpRequest(c, t)
    BY <1>1, <2>4, OnHttpRequestOnce DEF MgmtStep
  <2> QED BY <1>1, <2>1, <2>2, <2>3, <2>4 DEF MgmtStep, MgmtNext, MgmtLoop
<1>2. CASE GenStep
  <2>1. CASE GenDequeue
    BY <1>2, <2>1, GenDequeueOnce DEF GenStep
  <2>2. CASE GenHandle
    BY <1>2, <2>2, GenHandleOnce DEF GenStep
  <2>3. CASE GenIdle \/ GenTimeout \/ GenManageTimers \/ GenTransmit
    BY <1>2, <2>3, NothingMoves
       DEF GenIdle, GenTimeout, GenManageTimers, GenTransmit, GenStep, channelVars, mgmtVars,
           Asking, Answering
  <2>4. CASE \E f \in Flows : OnFlowEvent(f)
    BY <1>2, <2>4, OnFlowEventOnce DEF GenStep
  <2> QED BY <1>2, <2>1, <2>2, <2>3, <2>4 DEF GenStep, GenLoop
<1>3. CASE TimePasses
  BY <1>3, NothingMoves DEF TimePasses, Expire, channelVars, mgmtVars, Asking, Answering
<1>4. CASE UNCHANGED vars
  BY <1>4, NothingMoves DEF vars, channelVars, mgmtVars, genVars, Asking, Answering
<1> QED BY <1>1, <1>2, <1>3, <1>4 DEF Next

\* Of each kind at most one request is under way, in one place, and the client
\* whose callback is set is the one it came from: start_cb_, stop_cb_ and
\* stats_cb_ are all the correlation the two managers need.
THEOREM ProgramOneInFlight == Spec => []OneInFlight
<1>1. Init => OneInFlight
  BY InitOneInFlight
<1>2. IInv /\ OneInFlight /\ [Next]_vars => OneInFlight'
  BY NextOneInFlight
<1> QED BY <1>1, <1>2, Invariance, PTL DEF Spec

\* A request is only queued for a kind nobody waits for, and then there is room.
LEMMA NextRequestsFit ==
  ASSUME IInv, OneInFlight, RequestsAlwaysFit, [Next]_vars
  PROVE  RequestsAlwaysFit'
<1> USE DEF RequestsAlwaysFit
<1>1. CASE MgmtStep
  <2>1. CASE PollNothing \/ MgmtReturn \/ MgmtDequeue
    BY <2>1 DEF PollNothing, MgmtReturn, MgmtDequeue
  <2>2. CASE MgmtHandle
    <3>1. CASE UNCHANGED answer
      BY <3>1
    <3>2. CASE OnResponse(Head(mgmtBatch))
      BY <3>2 DEF OnResponse
    <3> QED BY <2>2, <3>1, <3>2 DEF MgmtHandle
  <2>3. ASSUME NEW c \in Conns, NEW t \in Targets, OnHttpRequest(c, t)
        PROVE  RequestsAlwaysFit'
    <3>1. ASSUME NEW a, a # "full", AnswerNow(c, a) PROVE RequestsAlwaysFit'
      BY <3>1 DEF AnswerNow, IInv, TypeOK, MgmtTypeOK
    <3>2. CASE t \in Kinds /\ Forward(c, t)
      <4>1. CASE cb[t] # NoConn
        BY <3>1, <3>2, <4>1 DEF Forward
      <4>2. CASE cb[t] = NoConn
        BY <3>2, <4>2, RequestsFit DEF Forward
      <4> QED BY <4>1, <4>2
    <3> QED BY <2>3, <3>1, <3>2 DEF OnHttpRequest
  <2> QED BY <1>1, <2>1, <2>2, <2>3 DEF MgmtStep, MgmtNext, MgmtLoop
<1>2. CASE GenStep \/ TimePasses \/ UNCHANGED vars
  BY <1>2 DEF GenStep, TimePasses, vars, mgmtVars
<1> QED BY <1>1, <1>2 DEF Next

\* "Failed to enqueue request" is never answered: the two sides of the request
\* queue keep it below its capacity, whatever clients do.
THEOREM ProgramRequestsAlwaysFit == Spec => []RequestsAlwaysFit
<1>1. Init => RequestsAlwaysFit
  BY DEF Init, MgmtInit, RequestsAlwaysFit
<1>2. IInv /\ OneInFlight /\ RequestsAlwaysFit /\ [Next]_vars => RequestsAlwaysFit'
  BY NextRequestsFit
<1> QED BY <1>1, <1>2, Invariance, ProgramOneInFlight, PTL DEF Spec

\* The message the management thread is about to handle came from the connection
\* whose callback is stored.
LEMMA CallbackFound ==
  ASSUME IInv, OneInFlight, mgmtBatch # <<>>, Head(mgmtBatch).kind # "report"
  PROVE  cb[Head(mgmtBatch).kind] # NoConn
<1> DEFINE h == Head(mgmtBatch)
<1>1. /\ Answering \in Seq(Answer) /\ mgmtBatch \in Seq(Answer) /\ responses \in Seq(Answer)
  BY MessageTypes
<1>2. Answering # <<>> /\ Head(Answering) = h /\ h \in Answer
  BY <1>1, TailOfConcat, HeadTailProperties DEF Answering
<1>3. h.kind \in Kinds
  BY <1>2 DEF Answer, Response, Report
<1>4. PICK k \in Kinds : k = h.kind
  BY <1>3
<1>5. OnePlace(k, Asking, Answering, k \in lost, cb[k])
  BY <1>4 DEF OneInFlight
<1>6. InFlight(Answering, k)
  <2>1. Answering[1].kind = k /\ 1 \in 1..Len(Answering)
    BY <1>1, <1>2, <1>4
  <2> QED BY <2>1 DEF InFlight
<1>7. cb[k] # NoConn
  BY <1>5, <1>6 DEF OnePlace
<1> QED BY <1>4, <1>7

\* A TG_ENFORCE takes the process down only if it aborts on a condition that holds.
LEMMA NextAborts ==
  ASSUME IInv, OneInFlight, aborted => AbortsWhen, [Next]_vars
  PROVE  aborted' => AbortsWhen
<1>1. EnforceAborts(TRUE) => AbortsWhen
  BY DEF EnforceAborts
<1>2. CASE MgmtStep
  <2>1. CASE MgmtHandle
    <3>1. CASE Head(mgmtBatch).kind = "report"
      BY <2>1, <3>1 DEF MgmtHandle
    <3>2. CASE Head(mgmtBatch).kind # "report"
      <4>1. cb[Head(mgmtBatch).kind] # NoConn
        BY <2>1, <3>2, CallbackFound DEF MgmtHandle
      <4> QED BY <2>1, <3>2, <4>1 DEF MgmtHandle, OnResponse, EnforceAborts
    <3> QED BY <3>1, <3>2
  <2>2. CASE PollNothing \/ MgmtReturn \/ MgmtDequeue
    BY <2>2 DEF PollNothing, MgmtReturn, MgmtDequeue, channelVars
  <2>3. CASE \E c \in Conns, t \in Targets : OnHttpRequest(c, t)
    BY <2>3 DEF OnHttpRequest
  <2> QED BY <1>2, <2>1, <2>2, <2>3 DEF MgmtStep, MgmtNext, MgmtLoop
<1>3. CASE GenStep
  <2>1. CASE GenHandle
    <3>1. CASE StopGeneration
      BY <3>1 DEF StopGeneration, EnforceAborts
    <3>2. CASE \E msg : AcceptStart(msg)
      <4>1. flows = {}
        BY <3>2 DEF AcceptStart, IInv, Phases
      <4> QED BY <3>2, <4>1 DEF AcceptStart, EnforceAborts
    <3>3. CASE UNCHANGED aborted
      BY <3>3
    <3> QED BY <2>1, <3>1, <3>2, <3>3 DEF GenHandle, RefuseStart
  <2>2. CASE GenIdle
    <3>1. txPkts = 0 /\ flows = {}
      BY <2>2 DEF GenIdle, IInv, Phases
    <3> QED BY <2>2, <3>1 DEF GenIdle, EnforceAborts
  <2>3. CASE GenTimeout
    BY <2>3 DEF GenTimeout, StopGeneration, EnforceAborts
  <2>4. CASE GenDequeue \/ GenManageTimers \/ GenTransmit \/ \E f \in Flows : OnFlowEvent(f)
    BY <2>4 DEF GenDequeue, GenManageTimers, GenTransmit, OnFlowEvent, channelVars
  <2> QED BY <1>3, <2>1, <2>2, <2>3, <2>4 DEF GenStep, GenLoop
<1>4. CASE TimePasses \/ UNCHANGED vars
  BY <1>4 DEF TimePasses, Expire, vars, channelVars
<1> QED BY <1>2, <1>3, <1>4 DEF Next

\* Every condition that the two managers give to TG_ENFORCE holds, whatever the
\* macro makes of it.
THEOREM ProgramEnforcedHold == Spec => []EnforcedHold
<1>1. Init => ~aborted
  BY DEF Init, ChannelsInit
<1>2. IInv /\ OneInFlight /\ (aborted => AbortsWhen) /\ [Next]_vars => (aborted => AbortsWhen)'
  BY NextAborts
<1>3. IInv /\ OneInFlight /\ (aborted => AbortsWhen) => EnforcedHold
  BY CallbackFound DEF EnforcedHold, IInv, Phases
<1> QED BY <1>1, <1>2, <1>3, Invariance, ProgramOneInFlight, PTL DEF Spec
=============================================================================
