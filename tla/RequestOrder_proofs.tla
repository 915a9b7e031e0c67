-------------------------- MODULE RequestOrder_proofs -------------------------
(***************************************************************************)
(* The order in which requests are handled, what a client may conclude     *)
(* from its answer about the generation that runs, and what the program as *)
(* a whole looks like to its clients: for every number of clients and      *)
(* flows and all capacities.                                               *)
(***************************************************************************)
EXTENDS TrafficGenerator_proofs

\* Of the requests that were sent the first n have been handled, and the others are
\* on their way in the order they were sent, one from each connection.
InOrder(n) ==
  /\ Len(sent) = n + Len(Asking)
  /\ \A i \in 1..Len(Asking) : /\ sent[n + i] = Asking[i].from
                               /\ asked[sent[n + i]] = Asking[i].kind
  /\ \A i, j \in 1..Len(sent) : sent[i] = sent[j] => i = j
  /\ \A i \in 1..Len(sent) : asked[sent[i]] # "nothing"

\* Who has been answered has asked, and what travels back answers what was handled.
AnsweredOf(n) ==
  /\ \A c \in Conns : asked[c] = "nothing" => answer[c] = "none"
  /\ \A i \in 1..Len(sent) : answer[sent[i]] # "none" => i <= n
  /\ \A c \in Conns : answer[c] \in {"ok", "failed"} => \E i \in 1..Len(sent) : sent[i] = c
  /\ \A i \in 1..Len(Answering) :
       Answering[i].kind # "report" => \E j \in 1..n : sent[j] = Answering[i].from

\* The generation that runs was asked for after every stop that has been handled,
\* and its client is told so if anything.
RunningOf(n) ==
  Started =>
    /\ \E i \in 1..n : sent[i] = running
    /\ \A i \in 1..n, j \in 1..Len(sent) :
         asked[sent[i]] = "stop" /\ sent[j] = running => i < j
    /\ answer[running] \in {"none", "ok"}
    /\ \A i \in 1..Len(Answering) :
         Answering[i].kind # "report" /\ Answering[i].from = running => Answering[i].ok

Handled(n) == InOrder(n) /\ AnsweredOf(n) /\ RunningOf(n)

OrderInv == \E n \in Nat : Handled(n)

LEMMA HistoryTypes ==
  ASSUME IInv
  PROVE  /\ sent \in Seq(Conns) /\ Len(sent) \in Nat
         /\ asked \in [Conns -> Targets \cup {"nothing"}]
         /\ answer \in [Conns -> Answers \cup {"none"}]
         /\ cb \in [Kinds -> Conns \cup {NoConn}]
         /\ \A i \in 1..Len(sent) : sent[i] \in Conns
<1>1. /\ sent \in Seq(Conns) /\ asked \in [Conns -> Targets \cup {"nothing"}]
      /\ answer \in [Conns -> Answers \cup {"none"}] /\ cb \in [Kinds -> Conns \cup {NoConn}]
  BY DEF IInv, TypeOK, MgmtTypeOK
<1>2. Len(sent) \in Nat /\ \A i \in 1..Len(sent) : sent[i] \in Conns
  BY <1>1, ElementOfSeq
<1> QED BY <1>1, <1>2

\* The answers on their way lose some or are joined by a report, and the generation
\* ends or goes on.
LEMMA NothingHandled ==
  ASSUME NEW n \in Nat, Handled(n), Asking' = Asking, UNCHANGED <<sent, asked, answer>>,
         running' = running \/ running' = NoConn,
         \A i \in 1..Len(Answering') :
           \/ Answering'[i].kind = "report"
           \/ \E j \in 1..Len(Answering) : Answering'[i] = Answering[j]
  PROVE  Handled(n)'
<1>1. InOrder(n)'
  BY DEF Handled, InOrder
<1>2. AnsweredOf(n)'
  BY DEF Handled, AnsweredOf
<1>3. RunningOf(n)'
  BY DEF Handled, RunningOf, Started
<1> QED BY <1>1, <1>2, <1>3 DEF Handled

(***************************************************************************)
(* The management thread                                                   *)
(***************************************************************************)

\* A request is answered at once.
LEMMA AnswerNowOrder ==
  ASSUME IInv, NEW n \in Nat, Handled(n), NEW c \in Conns, NEW t \in Targets,
         asked[c] = "nothing", asked' = [asked EXCEPT ![c] = t],
         NEW a \in {"busy", "full", "bad", "unknown"}, answer' = [answer EXCEPT ![c] = a],
         Asking' = Asking, Answering' = Answering, UNCHANGED <<sent, running>>
  PROVE  Handled(n)'
<1>1. /\ \A d \in Conns : d # c => asked'[d] = asked[d] /\ answer'[d] = answer[d]
      /\ asked'[c] = t /\ t # "nothing" /\ answer'[c] = a
  BY HistoryTypes DEF Targets, Kinds
<1>2. \A i \in 1..Len(sent) : sent[i] \in Conns /\ sent[i] # c
  BY HistoryTypes DEF Handled, InOrder
<1>3. n \in 0..Len(sent) /\ \A i \in 1..Len(Asking) : n + i \in 1..Len(sent)
  BY MessageTypes, HistoryTypes DEF Handled, InOrder
<1>4. \A i \in 1..Len(sent) : asked'[sent[i]] = asked[sent[i]] /\ answer'[sent[i]] = answer[sent[i]]
  BY <1>1, <1>2
<1>5. InOrder(n)'
  BY <1>3, <1>4 DEF Handled, InOrder
<1>6. AnsweredOf(n)'
  BY <1>1, <1>4 DEF Handled, AnsweredOf
<1>7. RunningOf(n)'
  <2>1. \A i \in 1..n : i \in 1..Len(sent)
    BY <1>3
  <2> QED BY <1>4, <2>1 DEF Handled, RunningOf, Started
<1> QED BY <1>5, <1>6, <1>7 DEF Handled

\* A request is queued behind all others.
LEMMA ForwardOrder ==
  ASSUME IInv, NEW n \in Nat, Handled(n), NEW c \in Conns, NEW k \in Kinds,
         asked[c] = "nothing", asked' = [asked EXCEPT ![c] = k], answer' = answer,
         NEW m \in Request, m.kind = k, m.from = c, Asking' = Append(Asking, m),
         sent' = Append(sent, c), Answering' = Answering, running' = running
  PROVE  Handled(n)'
<1> DEFINE l == Len(sent)
           a == Len(Asking)
<1>1. /\ l \in Nat /\ a \in Nat /\ l = n + a
      /\ Len(sent') = l + 1 /\ sent'[l + 1] = c /\ \A i \in 1..l : sent'[i] = sent[i]
      /\ Len(Asking') = a + 1 /\ Asking'[a + 1] = m /\ \A i \in 1..a : Asking'[i] = Asking[i]
  BY HistoryTypes, MessageTypes, AppendProperties DEF Handled, InOrder
<1>2. /\ \A d \in Conns : d # c => asked'[d] = asked[d]
      /\ asked'[c] = k /\ k # "nothing"
  BY HistoryTypes DEF Kinds
<1>3. \A i \in 1..l : sent[i] \in Conns /\ sent[i] # c
  BY HistoryTypes DEF Handled, InOrder
<1>4. \A i \in 1..l : asked'[sent'[i]] = asked[sent[i]]
  BY <1>1, <1>2, <1>3
<1>5. InOrder(n)'
  <2>1. ASSUME NEW i \in 1..(a + 1)
        PROVE  sent'[n + i] = Asking'[i].from /\ asked'[sent'[n + i]] = Asking'[i].kind
    <3>1. CASE i = a + 1
      BY <1>1, <1>2, <3>1
    <3>2. CASE i # a + 1
      <4>1. i \in 1..a /\ n + i \in 1..l
        BY <1>1, <3>2
      <4> QED BY <1>1, <1>4, <4>1 DEF Handled, InOrder
    <3> QED BY <3>1, <3>2
  <2>2. ASSUME NEW i \in 1..(l + 1), NEW j \in 1..(l + 1), sent'[i] = sent'[j] PROVE i = j
    <3>1. (i \in 1..l \/ i = l + 1) /\ (j \in 1..l \/ j = l + 1)
      BY <1>1
    <3> QED BY <1>1, <1>3, <2>2, <3>1 DEF Handled, InOrder
  <2>3. ASSUME NEW i \in 1..(l + 1) PROVE asked'[sent'[i]] # "nothing"
    <3>1. i \in 1..l \/ i = l + 1
      BY <1>1
    <3> QED BY <1>1, <1>2, <1>4, <3>1 DEF Handled, InOrder
  <2>4. Len(sent') = n + Len(Asking')
    BY <1>1
  <2> QED BY <1>1, <2>1, <2>2, <2>3, <2>4 DEF InOrder
<1>6. AnsweredOf(n)'
  <2>1. \A d \in Conns : asked'[d] = "nothing" => answer'[d] = "none"
    BY <1>2 DEF Handled, AnsweredOf
  <2>2. ASSUME NEW i \in 1..(l + 1), answer'[sent'[i]] # "none" PROVE i <= n
    <3>1. answer[c] = "none"
      BY DEF Handled, AnsweredOf
    <3>2. i \in 1..l /\ answer[sent[i]] # "none"
      BY <1>1, <2>2, <3>1
    <3> QED BY <3>2 DEF Handled, AnsweredOf
  <2>3. \A d \in Conns : answer'[d] \in {"ok", "failed"} => \E i \in 1..(l + 1) : sent'[i] = d
    <3>1. ASSUME NEW d \in Conns, answer'[d] \in {"ok", "failed"}
          PROVE  \E i \in 1..(l + 1) : sent'[i] = d
      <4>1. PICK i \in 1..l : sent[i] = d
        BY <3>1 DEF Handled, AnsweredOf
      <4>2. i \in 1..(l + 1) /\ sent'[i] = d
        BY <1>1, <4>1
      <4> QED BY <4>2
    <3> QED BY <3>1
  <2>4. \A j \in 1..n : sent'[j] = sent[j]
    BY <1>1
  <2>5. \A i \in 1..Len(Answering') :
          Answering'[i].kind # "report" => \E j \in 1..n : sent'[j] = Answering'[i].from
    <3> SUFFICES ASSUME NEW i \in 1..Len(Answering), Answering[i].kind # "report"
                 PROVE  \E j \in 1..n : sent'[j] = Answering[i].from
      OBVIOUS
    <3>1. PICK j \in 1..n : sent[j] = Answering[i].from
      BY DEF Handled, AnsweredOf
    <3> QED BY <2>4, <3>1
  <2>6. 1..Len(sent') = 1..(l + 1)
    BY <1>1
  <2> HIDE DEF l, a
  <2> QED BY <2>1, <2>2, <2>3, <2>5, <2>6 DEF AnsweredOf
<1>7. RunningOf(n)'
  <2> SUFFICES ASSUME Started
               PROVE  /\ \E i \in 1..n : sent'[i] = running
                      /\ \A i \in 1..n, j \in 1..(l + 1) :
                           asked'[sent'[i]] = "stop" /\ sent'[j] = running => i < j
    BY <1>1 DEF Handled, RunningOf, Started
  <2>1. \A i \in 1..n : i \in 1..l
    BY <1>1
  <2>2. PICK i \in 1..n : sent[i] = running
    BY DEF Handled, RunningOf
  <2>3. sent'[i] = running /\ running # c
    BY <1>1, <1>3, <2>1, <2>2
  <2>4. \A p \in 1..n, j \in 1..(l + 1) :
          asked'[sent'[p]] = "stop" /\ sent'[j] = running => p < j
    <3> SUFFICES ASSUME NEW p \in 1..n, NEW j \in 1..(l + 1),
                        asked'[sent'[p]] = "stop", sent'[j] = running
                 PROVE  p < j
      OBVIOUS
    <3>1. j \in 1..l
      BY <1>1, <2>3
    <3> QED BY <1>1, <1>4, <2>1, <3>1 DEF Handled, RunningOf
  <2> QED BY <2>3, <2>4
<1> QED BY <1>5, <1>6, <1>7 DEF Handled

LEMMA OnHttpRequestOrder ==
  ASSUME IInv, NEW n \in Nat, Handled(n), NEW c \in Conns, NEW t \in Targets,
         OnHttpRequest(c, t), UNCHANGED genVars
  PROVE  Handled(n)'
<1>1. /\ asked[c] = "nothing" /\ asked' = [asked EXCEPT ![c] = t] /\ running' = running
      /\ Answering' = Answering /\ genBatch' = genBatch
  BY DEF OnHttpRequest, genVars, Answering
<1>2. CASE \E a \in {"busy", "full", "bad", "unknown"} : AnswerNow(c, a)
  <2>1. Asking' = Asking /\ sent' = sent
    BY <1>1, <1>2 DEF AnswerNow, Asking
  <2> QED BY <1>1, <1>2, <2>1, AnswerNowOrder DEF AnswerNow
<1>3. CASE /\ t \in Kinds /\ requests' = Append(requests, [kind |-> t, from |-> c])
           /\ sent' = Append(sent, c) /\ answer' = answer
  <2> DEFINE m == [kind |-> t, from |-> c]
  <2>1. m \in Request /\ m.kind = t /\ m.from = c
    BY <1>3 DEF Request
  <2> HIDE DEF m
  <2>2. Asking' = Append(Asking, m)
    BY <1>1, <1>3, <2>1, MessageTypes, AppendToConcat DEF Asking, m
  <2> QED BY <1>1, <1>3, <2>1, <2>2, ForwardOrder
<1> QED BY <1>2, <1>3 DEF OnHttpRequest, Forward

\* An answer reaches the client that its request came from.
LEMMA AnswerOrder ==
  ASSUME IInv, NEW n \in Nat, Handled(n), NEW h \in Response,
         Answering # <<>>, Head(Answering) = h, Answering' = Tail(Answering),
         answer' = [c \in Conns |-> IF c = h.from THEN (IF h.ok THEN "ok" ELSE "failed")
                                    ELSE answer[c]],
         Asking' = Asking, UNCHANGED <<sent, asked, running>>
  PROVE  Handled(n)'
<1>1. /\ Answering[1] = h /\ 1 \in 1..Len(Answering)
      /\ \A i \in 1..Len(Answering') : i + 1 \in 1..Len(Answering)
                                       /\ Answering'[i] = Answering[i + 1]
  BY MessageTypes, HeadTailProperties, EmptySeq
<1>2. h.kind # "report" /\ h.from \in Conns
  BY DEF Response, Kinds
<1>3. PICK j \in 1..n : sent[j] = h.from
  BY <1>1, <1>2 DEF Handled, AnsweredOf
<1>4. n \in 0..Len(sent)
  BY MessageTypes, HistoryTypes DEF Handled, InOrder
<1>5. /\ \A c \in Conns : c # h.from => answer'[c] = answer[c]
      /\ answer'[h.from] = IF h.ok THEN "ok" ELSE "failed"
  BY <1>2
<1>6. InOrder(n)'
  BY DEF Handled, InOrder
<1>7. AnsweredOf(n)'
  <2>1. j \in 1..Len(sent) /\ asked[h.from] # "nothing"
    BY <1>3, <1>4 DEF Handled, InOrder
  <2>2. \A c \in Conns : asked[c] = "nothing" => answer'[c] = "none"
    BY <1>5, <2>1 DEF Handled, AnsweredOf
  <2>3. ASSUME NEW i \in 1..Len(sent), answer'[sent[i]] # "none" PROVE i <= n
    <3>1. CASE sent[i] = h.from
      BY <1>3, <2>1, <3>1 DEF Handled, InOrder
    <3>2. CASE sent[i] # h.from
      BY <1>5, <2>3, <3>2, HistoryTypes DEF Handled, AnsweredOf
    <3> QED BY <3>1, <3>2
  <2>4. \A c \in Conns : answer'[c] \in {"ok", "failed"} => \E i \in 1..Len(sent) : sent[i] = c
    BY <1>3, <1>5, <2>1 DEF Handled, AnsweredOf
  <2>5. \A i \in 1..Len(Answering') :
          Answering'[i].kind # "report" => \E k \in 1..n : sent[k] = Answering'[i].from
    BY <1>1 DEF Handled, AnsweredOf
  <2> QED BY <2>2, <2>3, <2>4, <2>5 DEF AnsweredOf
<1>8. RunningOf(n)'
  <2> SUFFICES ASSUME Started
               PROVE  /\ answer'[running] \in {"none", "ok"}
                      /\ \A i \in 1..Len(Answering') :
                           Answering'[i].kind # "report" /\ Answering'[i].from = running
                             => Answering'[i].ok
    BY DEF Handled, RunningOf, Started
  <2>1. running \in Conns
    BY DEF Started, IInv, TypeOK, GenTypeOK
  <2>2. running = h.from => h.ok
    BY <1>1, <1>2 DEF Handled, RunningOf
  <2>3. answer'[running] \in {"none", "ok"}
    BY <1>5, <2>1, <2>2 DEF Handled, RunningOf
  <2>4. \A i \in 1..Len(Answering') :
          Answering'[i].kind # "report" /\ Answering'[i].from = running => Answering'[i].ok
    BY <1>1 DEF Handled, RunningOf
  <2> QED BY <2>3, <2>4
<1> QED BY <1>6, <1>7, <1>8 DEF Handled

LEMMA MgmtHandleOrder ==
  ASSUME IInv, OneInFlight, NEW n \in Nat, Handled(n), MgmtHandle, UNCHANGED genVars
  PROVE  Handled(n)'
<1> DEFINE h == Head(mgmtBatch)
<1>1. /\ Answering \in Seq(Answer) /\ mgmtBatch \in Seq(Answer) /\ responses \in Seq(Answer)
      /\ mgmtBatch # <<>> /\ mgmtBatch' = Tail(mgmtBatch) /\ responses' = responses
  BY MessageTypes DEF MgmtHandle
<1>2. Answering # <<>> /\ Head(Answering) = h /\ Answering' = Tail(Answering) /\ h \in Answer
  BY <1>1, TailOfConcat, HeadTailProperties DEF Answering
<1>3. Asking' = Asking /\ UNCHANGED <<sent, asked, running>>
  BY DEF MgmtHandle, genVars, Asking
<1>4. CASE h.kind = "report"
  <2>1. \A i \in 1..Len(Answering') :
          \E j \in 1..Len(Answering) : Answering'[i] = Answering[j]
    <3>1. \A i \in 1..Len(Answering') : i + 1 \in 1..Len(Answering)
                                        /\ Answering'[i] = Answering[i + 1]
      BY <1>1, <1>2, HeadTailProperties
    <3> QED BY <3>1
  <2>2. answer' = answer
    BY <1>4 DEF MgmtHandle
  <2> QED BY <1>3, <2>1, <2>2, NothingHandled
<1>5. CASE h.kind # "report"
  <2>1. h \in Response /\ h.kind \in Kinds
    BY <1>2, <1>5 DEF Answer, Response, Report
  <2>2. /\ answer' = [c \in Conns |-> IF c = cb[h.kind] THEN (IF h.ok THEN "ok" ELSE "failed")
                                      ELSE answer[c]]
    BY <1>5 DEF MgmtHandle, OnResponse
  <2> HIDE DEF h
  <2>3. cb[h.kind] = h.from
    <3>1. Answering[1] = h /\ 1 \in 1..Len(Answering)
      BY <1>1, <1>2, HeadTailProperties, EmptySeq
    <3>2. AllFrom(Answering, h.kind, cb[h.kind])
      BY <2>1 DEF OneInFlight, OnePlace
    <3> QED BY <3>1, <3>2 DEF AllFrom
  <2> QED BY <1>2, <1>3, <2>1, <2>2, <2>3, AnswerOrder
<1> QED BY <1>4, <1>5

(***************************************************************************)
(* The generation thread                                                   *)
(***************************************************************************)

\* The oldest request is handled: a stop ends the generation, a start may begin one
\* and is answered accordingly, nothing else touches it.
LEMMA HandleOrder ==
  ASSUME IInv, NEW n \in Nat, Handled(n), NEW h \in Request,
         Asking # <<>>, Head(Asking) = h, Asking' = Tail(Asking),
         UNCHANGED <<sent, asked, answer>>, NEW r \in Response, r.from = h.from,
         Answering' = Answering \/ Answering' = Append(Answering, r),
         \/ running' = NoConn
         \/ running' = running /\ h.kind # "stop"
         \/ running' = h.from /\ h.kind = "start" /\ r.ok
  PROVE  Handled(n + 1)'
<1> DEFINE l == Len(sent)
           a == Len(Asking)
<1>1. /\ Asking[1] = h /\ a \in Nat \ {0} /\ l \in Nat /\ l = n + a
      /\ Len(Asking') = a - 1 /\ \A i \in 1..Len(Asking') : Asking'[i] = Asking[i + 1]
  BY MessageTypes, HistoryTypes, HeadTailProperties, EmptySeq DEF Handled, InOrder
<1>2. n + 1 \in 1..l /\ sent[n + 1] = h.from /\ asked[h.from] = h.kind
  <2>1. 1 \in 1..a
    BY <1>1
  <2> QED BY <1>1, <2>1 DEF Handled, InOrder
<1>3. \A i \in 1..n : i \in 1..l /\ i \in 1..(n + 1) /\ sent[i] # h.from
  <2>1. \A i \in 1..n : i \in 1..l /\ i \in 1..(n + 1) /\ i # n + 1
    BY <1>1
  <2> QED BY <1>2, <2>1 DEF Handled, InOrder
<1>4. /\ \A i \in 1..Len(Answering') :
           Answering'[i] = r \/ \E j \in 1..Len(Answering) : Answering'[i] = Answering[j]
  <2>1. CASE Answering' = Answering
    BY <2>1
  <2>2. CASE Answering' = Append(Answering, r)
    <3>1. /\ Len(Answering') = Len(Answering) + 1 /\ Len(Answering) \in Nat
          /\ Answering'[Len(Answering) + 1] = r
          /\ \A i \in 1..Len(Answering) : Answering'[i] = Answering[i]
      BY <2>2, MessageTypes, AppendProperties DEF Answer
    <3>2. \A i \in 1..Len(Answering') : i \in 1..Len(Answering) \/ i = Len(Answering) + 1
      BY <3>1
    <3> QED BY <3>1, <3>2
  <2> QED BY <2>1, <2>2
<1>5. InOrder(n + 1)'
  <2>1. l = (n + 1) + Len(Asking')
    BY <1>1
  <2>2. ASSUME NEW i \in 1..Len(Asking')
        PROVE  sent[(n + 1) + i] = Asking'[i].from /\ asked[sent[(n + 1) + i]] = Asking'[i].kind
    <3>1. i + 1 \in 1..a /\ (n + 1) + i = n + (i + 1)
      BY <1>1
    <3> QED BY <1>1, <2>2, <3>1 DEF Handled, InOrder
  <2> QED BY <2>1, <2>2 DEF Handled, InOrder
<1>6. AnsweredOf(n + 1)'
  <2>1. \A i \in 1..l : answer[sent[i]] # "none" => i <= n + 1
    BY <1>1 DEF Handled, AnsweredOf
  <2>2. ASSUME NEW i \in 1..Len(Answering'), Answering'[i].kind # "report"
        PROVE  \E j \in 1..(n + 1) : sent[j] = Answering'[i].from
    <3>1. CASE Answering'[i] = r
      <4>1. n + 1 \in 1..(n + 1)
        OBVIOUS
      <4> QED BY <1>2, <3>1, <4>1
    <3>2. CASE \E j \in 1..Len(Answering) : Answering'[i] = Answering[j]
      <4>1. PICK j \in 1..n : sent[j] = Answering'[i].from
        BY <2>2, <3>2 DEF Handled, AnsweredOf
      <4> QED BY <1>3, <4>1
    <3> QED BY <1>4, <3>1, <3>2
  <2> QED BY <2>1, <2>2 DEF Handled, AnsweredOf
<1>7. RunningOf(n + 1)'
  <2>1. CASE running' = NoConn
    BY <2>1 DEF RunningOf, Started
  <2>2. CASE running' = running /\ Started /\ h.kind # "stop"
    <3>1. PICK i \in 1..n : sent[i] = running
      BY <2>2 DEF Handled, RunningOf
    <3>2. i \in 1..(n + 1) /\ running # h.from
      BY <1>3, <3>1
    <3>3. ASSUME NEW p \in 1..(n + 1), NEW q \in 1..l, asked[sent[p]] = "stop", sent[q] = running
          PROVE  p < q
      <4>1. p # n + 1
        BY <1>2, <2>2, <3>3
      <4>2. p \in 1..n
        BY <4>1
      <4> QED BY <2>2, <3>3, <4>2 DEF Handled, RunningOf
    <3>4. \A p \in 1..Len(Answering') :
            Answering'[p].kind # "report" /\ Answering'[p].from = running => Answering'[p].ok
      BY <1>4, <2>2, <3>2 DEF Handled, RunningOf
    <3>5. answer[running] \in {"none", "ok"}
      BY <2>2 DEF Handled, RunningOf
    <3> QED BY <2>2, <3>1, <3>2, <3>3, <3>4, <3>5 DEF RunningOf
  <2>3. CASE running' = h.from /\ h.kind = "start" /\ r.ok
    <3>1. n + 1 \in 1..(n + 1)
      OBVIOUS
    <3>2. ASSUME NEW p \in 1..(n + 1), NEW q \in 1..l, asked[sent[p]] = "stop", sent[q] = h.from
          PROVE  p < q
      <4>1. q = n + 1
        BY <1>2, <3>2 DEF Handled, InOrder
      <4>2. p # n + 1
        BY <1>2, <2>3, <3>2
      <4> QED BY <4>1, <4>2
    <3>3. answer[h.from] = "none"
      <4>1. ~(n + 1 <= n)
        OBVIOUS
      <4> QED BY <1>2, <4>1 DEF Handled, AnsweredOf
    <3>4. ASSUME NEW p \in 1..Len(Answering'), Answering'[p].kind # "report",
                 Answering'[p].from = h.from
          PROVE  Answering'[p].ok
      <4>1. ASSUME NEW j \in 1..Len(Answering), Answering'[p] = Answering[j] PROVE FALSE
        <5>1. \E i \in 1..n : sent[i] = h.from
          BY <3>4, <4>1 DEF Handled, AnsweredOf
        <5> QED BY <1>3, <5>1
      <4> QED BY <1>4, <2>3, <4>1
    <3> QED BY <1>2, <2>3, <3>1, <3>2, <3>3, <3>4 DEF RunningOf
  <2> QED BY <2>1, <2>2, <2>3 DEF Started
<1> QED BY <1>5, <1>6, <1>7 DEF Handled

LEMMA GenHandleOrder ==
  ASSUME IInv, NEW n \in Nat, Handled(n), GenHandle, UNCHANGED mgmtVars
  PROVE  Handled(n + 1)'
<1> DEFINE h == Head(genBatch)
<1>1. /\ genBatch \in Seq(Request) /\ requests \in Seq(Request)
      /\ mgmtBatch \in Seq(Answer) /\ responses \in Seq(Answer)
      /\ genBatch # <<>> /\ genBatch' = Tail(genBatch) /\ requests' = requests
  BY MessageTypes DEF GenHandle
<1>2. Asking # <<>> /\ Head(Asking) = h /\ Asking' = Tail(Asking) /\ h \in Request
  BY <1>1, TailOfConcat, HeadTailProperties DEF Asking
<1>3. UNCHANGED <<sent, asked, answer>> /\ mgmtBatch' = mgmtBatch
  BY DEF mgmtVars
<1>4. \E ok \in BOOLEAN :
        /\ Respond(h, ok)
        /\ \/ running' = NoConn
           \/ running' = running /\ h.kind # "stop"
           \/ running' = h.from /\ h.kind = "start" /\ ok
  BY DEF GenHandle, RefuseStart, AcceptStart, StopGeneration
<1> HIDE DEF h
<1>5. PICK ok \in BOOLEAN :
        /\ Respond(h, ok)
        /\ \/ running' = NoConn
           \/ running' = running /\ h.kind # "stop"
           \/ running' = h.from /\ h.kind = "start" /\ ok
  BY <1>4
<1> DEFINE r == [kind |-> h.kind, from |-> h.from, ok |-> ok]
<1>6. r \in Response /\ r \in Answer /\ r.from = h.from
  BY <1>2 DEF Request, Response, Answer
<1>7. ok => r.ok
  OBVIOUS
<1>8. responses' = responses \/ responses' = Append(responses, r)
  BY <1>5 DEF Respond
<1> HIDE DEF r
<1>9. Answering' = Answering \/ Answering' = Append(Answering, r)
  <2>1. mgmtBatch \o Append(responses, r) = Append(mgmtBatch \o responses, r)
    BY <1>1, <1>6, AppendToConcat
  <2> QED BY <1>3, <1>8, <2>1 DEF Answering
<1>10. \/ running' = NoConn
       \/ running' = running /\ h.kind # "stop"
       \/ running' = h.from /\ h.kind = "start" /\ r.ok
  BY <1>5, <1>7
<1> QED BY <1>2, <1>3, <1>6, <1>9, <1>10, HandleOrder

LEMMA OnFlowEventOrder ==
  ASSUME IInv, NEW n \in Nat, Handled(n), NEW f \in Flows, OnFlowEvent(f), UNCHANGED mgmtVars
  PROVE  Handled(n)'
<1>1. /\ Asking' = Asking /\ UNCHANGED <<sent, asked, answer, running, mgmtBatch>> /\ DoReport
  BY DEF OnFlowEvent, mgmtVars, Asking
<1> DEFINE r == [kind |-> "report"]
<1>2. r \in Answer /\ r.kind = "report"
  BY DEF Answer, Report
<1>3. responses' = responses \/ responses' = Append(responses, r)
  BY <1>1 DEF DoReport
<1> HIDE DEF r
<1>4. Answering' = Answering \/ Answering' = Append(Answering, r)
  <2>1. mgmtBatch \in Seq(Answer) /\ responses \in Seq(Answer)
    BY MessageTypes
  <2>2. mgmtBatch \o Append(responses, r) = Append(mgmtBatch \o responses, r)
    BY <1>2, <2>1, AppendToConcat
  <2> QED BY <1>1, <1>3, <2>2 DEF Answering
<1>5. \A i \in 1..Len(Answering') :
        \/ Answering'[i].kind = "report"
        \/ \E j \in 1..Len(Answering) : Answering'[i] = Answering[j]
  <2>1. CASE Answering' = Answering
    BY <2>1
  <2>2. CASE Answering' = Append(Answering, r)
    <3>1. /\ Len(Answering') = Len(Answering) + 1 /\ Len(Answering) \in Nat
          /\ Answering'[Len(Answering) + 1] = r
          /\ \A i \in 1..Len(Answering) : Answering'[i] = Answering[i]
      BY <1>2, <2>2, MessageTypes, AppendProperties
    <3>2. \A i \in 1..Len(Answering') : i \in 1..Len(Answering) \/ i = Len(Answering) + 1
      BY <3>1
    <3> QED BY <1>2, <3>1, <3>2
  <2> QED BY <1>4, <2>1, <2>2
<1> QED BY <1>1, <1>5, NothingHandled

(***************************************************************************)
(* The invariant                                                           *)
(***************************************************************************)

LEMMA InitOrder == Init => OrderInv
<1> SUFFICES ASSUME Init PROVE Handled(0)
  BY DEF OrderInv
<1>1. /\ sent = <<>> /\ Asking = <<>> /\ Answering = <<>> /\ ~Started
      /\ asked = [c \in Conns |-> "nothing"] /\ answer = [c \in Conns |-> "none"]
  BY DEF Init, ChannelsInit, MgmtInit, GenInit, Asking, Answering, Started
<1>2. Len(<<>>) = 0
  OBVIOUS
<1> QED BY <1>1, <1>2 DEF Handled, InOrder, AnsweredOf, RunningOf

\* The steps that neither send, handle nor answer a request.
LEMMA MgmtQuietOrder ==
  ASSUME IInv, NEW n \in Nat, Handled(n), PollNothing \/ MgmtDequeue \/ MgmtReturn,
         UNCHANGED genVars
  PROVE  Handled(n)'
<1>1. Asking' = Asking /\ UNCHANGED <<sent, asked, answer, running>>
  BY DEF PollNothing, MgmtDequeue, MgmtReturn, channelVars, genVars, Asking
<1>2. CASE MgmtDequeue
  <2>1. mgmtBatch = <<>> /\ responses \in Seq(Answer)
    BY <1>2, MessageTypes DEF IInv, Phases, MgmtDequeue
  <2>2. Answering = responses /\ mgmtBatch' \o responses' = responses
    BY <1>2, <2>1, ConcatEmptySeq, FrontRest DEF Answering, MgmtDequeue
  <2>3. Answering' = Answering
    BY <2>2 DEF Answering
  <2> QED BY <1>1, <2>3, NothingHandled
<1>3. CASE PollNothing \/ MgmtReturn
  <2>1. Answering' = Answering
    BY <1>3 DEF PollNothing, MgmtReturn, channelVars, Answering
  <2> QED BY <1>1, <2>1, NothingHandled
<1> QED BY <1>2, <1>3

LEMMA GenQuietOrder ==
  ASSUME IInv, NEW n \in Nat, Handled(n), UNCHANGED mgmtVars,
         GenDequeue \/ GenIdle \/ GenTimeout \/ GenManageTimers \/ GenTransmit \/ Expire
  PROVE  Handled(n)'
<1>1. Answering' = Answering /\ UNCHANGED <<sent, asked, answer>>
  BY DEF GenDequeue, GenIdle, GenTimeout, GenManageTimers, GenTransmit, Expire,
         channelVars, mgmtVars, Answering
<1>2. running' = running \/ running' = NoConn
  BY DEF GenDequeue, GenIdle, GenTimeout, StopGeneration, GenManageTimers, GenTransmit, Expire
<1>3. CASE GenDequeue
  <2>1. genBatch = <<>> /\ requests \in Seq(Request)
    BY <1>3, MessageTypes DEF IInv, Phases, GenDequeue
  <2>2. Asking = requests /\ genBatch' \o requests' = requests
    BY <1>3, <2>1, ConcatEmptySeq, FrontRest DEF Asking, GenDequeue
  <2>3. Asking' = Asking
    BY <2>2 DEF Asking
  <2> QED BY <1>1, <1>2, <2>3, NothingHandled
<1>4. CASE UNCHANGED <<genBatch, requests>>
  <2>1. Asking' = Asking
    BY <1>4 DEF Asking
  <2> QED BY <1>1, <1>2, <2>1, NothingHandled
<1> QED BY <1>3, <1>4 DEF GenIdle, GenTimeout, GenManageTimers, GenTransmit, Expire, channelVars

LEMMA NextOrder ==
  ASSUME IInv, OneInFlight, OrderInv, [Next]_vars
  PROVE  OrderInv'
<1>1. PICK n \in Nat : Handled(n)
  BY DEF OrderInv
<1>2. Handled(n)' \/ Handled(n + 1)'
  <2>1. CASE MgmtStep
    BY <1>1, <2>1, MgmtQuietOrder, MgmtHandleOrder, OnHttpRequestOrder
       DEF MgmtStep, MgmtNext, MgmtLoop
  <2>2. CASE GenStep
    BY <1>1, <2>2, GenQuietOrder, GenHandleOrder, OnFlowEventOrder DEF GenStep, GenLoop
  <2>3. CASE TimePasses
    BY <1>1, <2>3, GenQuietOrder DEF TimePasses
  <2>4. CASE UNCHANGED vars
    <3>1. /\ Asking' = Asking /\ Answering' = Answering /\ running' = running
          /\ UNCHANGED <<sent, asked, answer>>
      BY <2>4 DEF vars, channelVars, mgmtVars, genVars, Asking, Answering
    <3> QED BY <1>1, <3>1, NothingHandled
  <2> QED BY <2>1, <2>2, <2>3, <2>4 DEF Next
<1>3. n + 1 \in Nat
  OBVIOUS
<1> QED BY <1>2, <1>3 DEF OrderInv

THEOREM OrderInvariance == Spec => []OrderInv
<1>1. Init => OrderInv
  BY InitOrder
<1>2. IInv /\ OneInFlight /\ OrderInv /\ [Next]_vars => OrderInv'
  BY NextOrder
<1> QED BY <1>1, <1>2, Invariance, ProgramOneInFlight, PTL DEF Spec

\* gen/manager.cpp handles requests in the order they were sent: a client that is
\* told its stop is done will not see a generation go on that was asked for earlier.
THEOREM ProgramStopEndsEarlierStarts == Spec => []StopEndsEarlierStarts
<1>1. IInv /\ OrderInv => StopEndsEarlierStarts
  <2> SUFFICES ASSUME IInv, OrderInv, NEW c \in Conns, asked[c] = "stop", answer[c] = "ok", Started,
                      NEW i \in 1..Len(sent), NEW j \in 1..Len(sent),
                      i < j, sent[i] = running, sent[j] = c
               PROVE  FALSE
    BY DEF StopEndsEarlierStarts, SentBefore
  <2>1. PICK n \in Nat : Handled(n)
    BY DEF OrderInv
  <2>2. j \in 1..n
    BY <2>1 DEF Handled, AnsweredOf
  <2>3. j < i
    BY <2>1, <2>2 DEF Handled, RunningOf
  <2> QED BY <2>3
<1> QED BY <1>1, Invariance, OrderInvariance, PTL

\* A client that is told its start has failed, in gen/manager.cpp or before its
\* request was sent, has started nothing.
THEOREM ProgramFailedStartsNothing == Spec => []FailedStartsNothing
<1>1. OrderInv => FailedStartsNothing
  <2> SUFFICES ASSUME OrderInv, NEW c \in Conns, answer[c] \notin {"none", "ok"}, running = c
               PROVE  FALSE
    BY DEF FailedStartsNothing
  <2>1. PICK n \in Nat : Handled(n)
    BY DEF OrderInv
  <2>2. Started
    BY ConnAssumption DEF Started
  <2> QED BY <2>1, <2>2 DEF Handled, RunningOf
<1> QED BY <1>1, OrderInvariance, PTL

(***************************************************************************)
(* Who waits, and whom the callbacks belong to                             *)
(***************************************************************************)

\* The callback of a kind belongs to a client that waits for an answer to a request
\* of that kind, and every client that waits has its callback kept.
CallbackInv ==
  /\ \A k \in Kinds : cb[k] # NoConn => asked[cb[k]] = k /\ answer[cb[k]] = "none"
  /\ \A c \in Conns : Waiting(c) => asked[c] \in Kinds /\ cb[asked[c]] = c
  /\ \A c \in Conns : asked[c] = "nothing" => answer[c] = "none"

LEMMA NotAnAnswer == "none" \notin Answers /\ "nothing" \notin Targets
BY DEF Answers, Targets, Kinds

LEMMA InitCallbackInv == Init => CallbackInv
BY DEF Init, MgmtInit, CallbackInv, Waiting

LEMMA OnHttpRequestCallbacks ==
  ASSUME IInv, CallbackInv, NEW c \in Conns, NEW t \in Targets, OnHttpRequest(c, t)
  PROVE  CallbackInv'
<1>1. /\ asked[c] = "nothing" /\ answer[c] = "none" /\ asked' = [asked EXCEPT ![c] = t]
      /\ t # "nothing"
  BY NotAnAnswer DEF OnHttpRequest, CallbackInv
<1>2. /\ asked'[c] = t /\ \A d \in Conns : d # c => asked'[d] = asked[d]
      /\ \A k \in Kinds : cb[k] \in Conns \cup {NoConn} /\ (cb[k] # NoConn => cb[k] # c)
  BY <1>1, HistoryTypes, NotAnAnswer DEF CallbackInv, Targets
<1>3. ASSUME NEW a, a # "none", AnswerNow(c, a) PROVE CallbackInv'
  <2>1. /\ cb' = cb /\ answer'[c] = a /\ \A d \in Conns : d # c => answer'[d] = answer[d]
    BY <1>3, HistoryTypes DEF AnswerNow
  <2> QED BY <1>1, <1>2, <1>3, <2>1 DEF CallbackInv, Waiting
<1>4. CASE t \in Kinds /\ cb[t] = NoConn /\ cb' = [cb EXCEPT ![t] = c] /\ answer' = answer
  <2>1. cb'[t] = c /\ \A k \in Kinds : k # t => cb'[k] = cb[k]
    BY <1>4, HistoryTypes
  <2>2. ASSUME NEW d \in Conns, Waiting(d)' PROVE asked'[d] \in Kinds /\ cb'[asked'[d]] = d
    <3>1. CASE d = c
      BY <1>2, <1>4, <2>1, <3>1
    <3>2. CASE d # c
      <4>1. asked'[d] = asked[d] /\ Waiting(d)
        BY <1>2, <1>4, <2>2, <3>2 DEF Waiting
      <4>2. asked[d] \in Kinds /\ cb[asked[d]] = d /\ asked[d] # t
        BY <1>4, <4>1, ConnAssumption DEF CallbackInv
      <4> QED BY <2>1, <4>1, <4>2
    <3> QED BY <3>1, <3>2
  <2> QED BY <1>1, <1>2, <1>4, <2>1, <2>2 DEF CallbackInv
<1> QED BY <1>3, <1>4 DEF OnHttpRequest, Forward

LEMMA MgmtHandleCallbacks ==
  ASSUME IInv, OneInFlight, CallbackInv, MgmtHandle, UNCHANGED genVars
  PROVE  CallbackInv'
<1> DEFINE h == Head(mgmtBatch)
<1>1. h \in Answer /\ asked' = asked
  BY MessageTypes, HeadTailProperties DEF MgmtHandle
<1>2. CASE h.kind = "report"
  BY <1>1, <1>2 DEF MgmtHandle, CallbackInv, Waiting
<1>3. CASE h.kind # "report"
  <2>1. h.kind \in Kinds /\ cb[h.kind] \in Conns
    BY <1>1, <1>3, MgmtHandleOnce, HistoryTypes DEF Answer, Response, Report
  <2>2. OnResponse(h)
    BY <1>3 DEF MgmtHandle
  <2> HIDE DEF h
  <2> DEFINE c == cb[h.kind]
  <2>3. /\ cb'[h.kind] = NoConn /\ \A k \in Kinds : k # h.kind => cb'[k] = cb[k]
        /\ answer'[c] # "none" /\ \A d \in Conns : d # c => answer'[d] = answer[d]
    BY <2>1, <2>2, HistoryTypes DEF OnResponse
  <2>4. asked[c] = h.kind
    BY <2>1, ConnAssumption DEF CallbackInv
  <2>5. \A k \in Kinds : cb'[k] # NoConn => cb'[k] \in Conns /\ cb'[k] = cb[k] /\ cb[k] # c
    BY <2>1, <2>3, <2>4, HistoryTypes, ConnAssumption DEF CallbackInv
  <2>6. \A d \in Conns : Waiting(d)' => Waiting(d) /\ d # c
    BY <1>1, <2>3 DEF Waiting
  <2>7. \A d \in Conns : Waiting(d) /\ d # c => asked[d] # h.kind
    BY DEF CallbackInv
  <2>8. \A d \in Conns : asked[d] = "nothing" => answer'[d] = "none"
    BY <2>1, <2>3, <2>4, NotAnAnswer DEF CallbackInv, Targets
  <2> HIDE DEF c
  <2> QED BY <1>1, <2>3, <2>5, <2>6, <2>7, <2>8 DEF CallbackInv
<1> QED BY <1>2, <1>3

LEMMA NextCallbackInv ==
  ASSUME IInv, OneInFlight, CallbackInv, [Next]_vars
  PROVE  CallbackInv'
<1>1. CASE UNCHANGED <<cb, asked, answer>>
  BY <1>1 DEF CallbackInv, Waiting
<1>2. CASE MgmtStep
  <2>1. CASE PollNothing \/ MgmtDequeue \/ MgmtReturn
    BY <1>1, <2>1 DEF PollNothing, MgmtDequeue, MgmtReturn
  <2> QED BY <1>2, <2>1, MgmtHandleCallbacks, OnHttpRequestCallbacks
             DEF MgmtStep, MgmtNext, MgmtLoop
<1>3. CASE GenStep \/ TimePasses \/ UNCHANGED vars
  BY <1>1, <1>3 DEF GenStep, TimePasses, vars, mgmtVars
<1> QED BY <1>2, <1>3 DEF Next

THEOREM CallbackInvariance == Spec => []CallbackInv
<1>1. Init => CallbackInv
  BY InitCallbackInv
<1>2. IInv /\ OneInFlight /\ CallbackInv /\ [Next]_vars => CallbackInv'
  BY NextCallbackInv
<1> QED BY <1>1, <1>2, Invariance, ProgramOneInFlight, PTL DEF Spec

\* A client is answered once: when a response is handled the callback of its kind is
\* that of a client still without an answer.
THEOREM ProgramAnsweredOnce == Spec => AnsweredOnce
<1>1. ASSUME IInv, OneInFlight, CallbackInv, [Next]_vars,
             NEW c \in Conns, answer[c] # "none"
      PROVE  answer'[c] = answer[c]
  <2>1. CASE MgmtStep
    <3>1. CASE MgmtHandle
      <4>1. CASE Head(mgmtBatch).kind = "report"
        BY <3>1, <4>1 DEF MgmtHandle
      <4>2. CASE Head(mgmtBatch).kind # "report"
        <5>1. Head(mgmtBatch) \in Answer
          BY <3>1, <1>1, MessageTypes, HeadTailProperties DEF MgmtHandle
        <5>2. Head(mgmtBatch).kind \in Kinds /\ OnResponse(Head(mgmtBatch))
          BY <3>1, <4>2, <5>1 DEF MgmtHandle, Answer, Response, Report
        <5>3. cb[Head(mgmtBatch).kind] # NoConn
          BY <1>1, <2>1, <3>1, <4>2, MgmtHandleOnce DEF MgmtStep
        <5>4. c # cb[Head(mgmtBatch).kind]
          BY <1>1, <5>2, <5>3 DEF CallbackInv
        <5> QED BY <5>2, <5>4 DEF OnResponse
      <4> QED BY <4>1, <4>2
    <3>2. ASSUME NEW d \in Conns, NEW t \in Targets, OnHttpRequest(d, t)
          PROVE  answer'[c] = answer[c]
      <4>1. d # c
        BY <1>1, <3>2 DEF OnHttpRequest, CallbackInv
      <4> QED BY <1>1, <3>2, <4>1, HistoryTypes DEF OnHttpRequest, Forward, AnswerNow
    <3>3. CASE PollNothing \/ MgmtDequeue \/ MgmtReturn
      BY <3>3 DEF PollNothing, MgmtDequeue, MgmtReturn
    <3> QED BY <2>1, <3>1, <3>2, <3>3 DEF MgmtStep, MgmtNext, MgmtLoop
  <2>2. CASE GenStep \/ TimePasses \/ UNCHANGED vars
    BY <2>2 DEF GenStep, TimePasses, vars, mgmtVars
  <2> QED BY <1>1, <2>1, <2>2 DEF Next
<1>2. IInv /\ OneInFlight /\ CallbackInv /\ [Next]_vars
        => [\A c \in Conns : answer[c] # "none" => answer'[c] = answer[c]]_vars
  BY <1>1
<1> QED BY <1>2, Invariance, ProgramOneInFlight, CallbackInvariance, PTL DEF Spec, AnsweredOnce

(***************************************************************************)
(* What the clients see                                                    *)
(***************************************************************************)

\* The guards of Stage(c), and the variables of Control that they make up.
AskedBy(c) == \E i \in 1..Len(Asking) : Asking[i].from = c

Comes(c, ok) == \E i \in 1..Len(Answering) :
  Answering[i].kind # "report" /\ Answering[i].from = c /\ Answering[i].ok = ok

Stages == [c \in Conns |-> Stage(c)]

From(msgs) == [i \in 1..Len(msgs) |-> msgs[i].from]

\* Every message under way is from a client that waits for what it is about.
LEMMA WhoseMessage ==
  ASSUME IInv, OneInFlight, CallbackInv
  PROVE  /\ \A i \in 1..Len(Asking) :
              /\ Asking[i] \in Request /\ asked[Asking[i].from] = Asking[i].kind
              /\ Waiting(Asking[i].from)
         /\ \A i \in 1..Len(Answering) : Answering[i].kind # "report" =>
              /\ Answering[i] \in Response /\ asked[Answering[i].from] = Answering[i].kind
              /\ Waiting(Answering[i].from)
<1>1. ASSUME NEW k \in Kinds, NEW c \in Conns, cb[k] = c PROVE asked[c] = k /\ Waiting(c)
  BY <1>1, ConnAssumption DEF CallbackInv, Waiting, Kinds
<1>2. ASSUME NEW i \in 1..Len(Asking)
      PROVE  /\ Asking[i] \in Request /\ asked[Asking[i].from] = Asking[i].kind
             /\ Waiting(Asking[i].from)
  <2>1. Asking[i] \in Request
    BY MessageTypes, ElementOfSeq
  <2>2. Asking[i].kind \in Kinds /\ Asking[i].from \in Conns
    BY <2>1 DEF Request
  <2>3. cb[Asking[i].kind] = Asking[i].from
    BY <2>2 DEF OneInFlight, OnePlace, AllFrom
  <2> QED BY <1>1, <2>1, <2>2, <2>3
<1>3. ASSUME NEW i \in 1..Len(Answering), Answering[i].kind # "report"
      PROVE  /\ Answering[i] \in Response /\ asked[Answering[i].from] = Answering[i].kind
             /\ Waiting(Answering[i].from)
  <2>1. Answering[i] \in Response
    BY <1>3, MessageTypes, ElementOfSeq DEF Answer, Report
  <2>2. Answering[i].kind \in Kinds /\ Answering[i].from \in Conns
    BY <2>1 DEF Response
  <2>3. cb[Answering[i].kind] = Answering[i].from
    BY <2>2 DEF OneInFlight, OnePlace, AllFrom
  <2> QED BY <1>1, <2>1, <2>2, <2>3
<1> QED BY <1>2, <1>3

\* The guards exclude one another.
LEMMA OneGuard ==
  ASSUME IInv, OneInFlight, CallbackInv, NEW c \in Conns
  PROVE  /\ ~(AskedBy(c) /\ \E ok \in BOOLEAN : Comes(c, ok))
         /\ ~(Comes(c, TRUE) /\ Comes(c, FALSE))
<1>1. ASSUME AskedBy(c), NEW ok \in BOOLEAN, Comes(c, ok) PROVE FALSE
  <2>1. PICK i \in 1..Len(Asking) : Asking[i].from = c
    BY <1>1 DEF AskedBy
  <2>2. PICK j \in 1..Len(Answering) : Answering[j].kind # "report" /\ Answering[j].from = c
    BY <1>1 DEF Comes
  <2>3. Asking[i].kind = asked[c] /\ Answering[j].kind = asked[c] /\ asked[c] \in Kinds
    BY <2>1, <2>2, WhoseMessage DEF Request
  <2> QED BY <2>3 DEF OneInFlight, OnePlace, InFlight
<1>2. ASSUME Comes(c, TRUE), Comes(c, FALSE) PROVE FALSE
  <2>1. PICK i \in 1..Len(Answering) :
          Answering[i].kind # "report" /\ Answering[i].from = c /\ Answering[i].ok = TRUE
    BY <1>2 DEF Comes
  <2>2. PICK j \in 1..Len(Answering) :
          Answering[j].kind # "report" /\ Answering[j].from = c /\ Answering[j].ok = FALSE
    BY <1>2 DEF Comes
  <2>3. Answering[i].kind = asked[c] /\ Answering[j].kind = asked[c] /\ asked[c] \in Kinds
    BY <2>1, <2>2, WhoseMessage DEF Response
  <2>4. i = j
    BY <2>3 DEF OneInFlight, OnePlace, Unique
  <2> QED BY <2>1, <2>2, <2>4
<1> QED BY <1>1, <1>2

LEMMA StageIs ==
  ASSUME NEW c \in Conns
  PROVE  /\ answer[c] # "none" => Stage(c) = answer[c]
         /\ answer[c] = "none" /\ asked[c] = "nothing" => Stage(c) = "new"
         /\ Waiting(c) /\ AskedBy(c) /\ ~Comes(c, TRUE) /\ ~Comes(c, FALSE) => Stage(c) = "asked"
         /\ Waiting(c) /\ ~AskedBy(c) /\ Comes(c, TRUE) /\ ~Comes(c, FALSE) => Stage(c) = "done"
         /\ Waiting(c) /\ ~AskedBy(c) /\ ~Comes(c, TRUE) /\ Comes(c, FALSE) => Stage(c) = "denied"
         /\ Waiting(c) /\ ~AskedBy(c) /\ ~Comes(c, TRUE) /\ ~Comes(c, FALSE) => Stage(c) = "lost"
BY DEF Stage, Waiting, AskedBy, Comes

LEMMA StageThen ==
  ASSUME NEW c \in Conns
  PROVE  /\ answer'[c] # "none" => Stage(c)' = answer'[c]
         /\ Waiting(c)' /\ AskedBy(c)' /\ ~Comes(c, TRUE)' /\ ~Comes(c, FALSE)' => Stage(c)' = "asked"
         /\ Waiting(c)' /\ ~AskedBy(c)' /\ Comes(c, TRUE)' /\ ~Comes(c, FALSE)' => Stage(c)' = "done"
         /\ Waiting(c)' /\ ~AskedBy(c)' /\ ~Comes(c, TRUE)' /\ Comes(c, FALSE)' => Stage(c)' = "denied"
         /\ Waiting(c)' /\ ~AskedBy(c)' /\ ~Comes(c, TRUE)' /\ ~Comes(c, FALSE)' => Stage(c)' = "lost"
BY DEF Stage, Waiting, AskedBy, Comes

LEMMA StageSame ==
  ASSUME NEW c \in Conns, asked'[c] = asked[c], answer'[c] = answer[c],
         AskedBy(c)' <=> AskedBy(c), \A ok \in BOOLEAN : Comes(c, ok)' <=> Comes(c, ok)
  PROVE  Stage(c)' = Stage(c)
BY DEF Stage, Waiting, AskedBy, Comes

\* A client waits in Control exactly while it does in the program, and a kind is
\* busy there exactly while its callback is set.
LEMMA WaitsBusy ==
  ASSUME IInv, OneInFlight, CallbackInv
  PROVE  /\ \A c \in Conns : ToClients!Waits(c) <=> Waiting(c)
         /\ \A k \in Kinds : ToClients!Busy(k) <=> cb[k] # NoConn
<1>1. ASSUME NEW c \in Conns PROVE ToClients!Waits(c) <=> Waiting(c)
  <2>1. ToClients!Waits(c) <=> Stage(c) \in {"asked", "done", "denied", "lost"}
    BY DEF ToClients!Waits
  <2>2. CASE answer[c] # "none"
    <3>1. Stage(c) \in Answers
      BY <2>2, StageIs, HistoryTypes
    <3> QED BY <2>1, <2>2, <3>1 DEF Answers, Waiting
  <2>3. CASE answer[c] = "none" /\ asked[c] = "nothing"
    BY <2>1, <2>3, StageIs DEF Waiting
  <2>4. CASE Waiting(c)
    <3>1. Stage(c) \in {"asked", "done", "denied", "lost"}
      BY <2>4, StageIs, OneGuard
    <3> QED BY <2>1, <2>4, <3>1
  <2> QED BY <2>2, <2>3, <2>4 DEF Waiting
<1>2. ASSUME NEW k \in Kinds PROVE ToClients!Busy(k) <=> cb[k] # NoConn
  <2>1. ToClients!Busy(k) <=> \E c \in Conns : Waiting(c) /\ asked[c] = k
    BY <1>1 DEF ToClients!Busy
  <2>2. \A c \in Conns : Waiting(c) /\ asked[c] = k => cb[k] # NoConn
    BY ConnAssumption DEF CallbackInv
  <2>3. cb[k] # NoConn => cb[k] \in Conns /\ Waiting(cb[k]) /\ asked[cb[k]] = k
    BY HistoryTypes DEF CallbackInv, Waiting, Kinds
  <2> QED BY <2>1, <2>2, <2>3
<1> QED BY <1>1, <1>2

\* The clients of a sequence of messages follow its operations.
LEMMA FromMoves ==
  ASSUME NEW S, NEW s \in Seq(S)
  PROVE  /\ \A m \in S : From(Append(s, m)) = Append(From(s), m.from)
         /\ s # <<>> => /\ From(s) # <<>> /\ Head(From(s)) = Head(s).from
                        /\ From(Tail(s)) = Tail(From(s))
         /\ (\A i \in 1..Len(s) : s[i].from \in Conns) => From(s) \in Seq(Conns)
<1>1. Len(s) \in Nat /\ DOMAIN From(s) = 1..Len(s)
  BY DEF From
<1>2. From(s) \in Seq({s[i].from : i \in 1..Len(s)}) /\ Len(From(s)) = Len(s)
  BY <1>1, Z3 DEF From
<1> QED BY <1>1, <1>2 DEF From

LEMMA InitControl == Init => ToClients!Init
<1> SUFFICES ASSUME Init PROVE ToClients!Init
  OBVIOUS
<1>1. Asking = <<>> /\ running = NoConn /\ asked = [c \in Conns |-> "nothing"]
      /\ answer = [c \in Conns |-> "none"]
  BY DEF Init, ChannelsInit, MgmtInit, GenInit, Asking
<1>2. \A c \in Conns : Stage(c) = "new"
  BY <1>1, StageIs
<1>3. From(Asking) = <<>>
  BY <1>1 DEF From
<1> QED BY <1>1, <1>2, <1>3 DEF ToClients!Init, From

\* Nothing of what the clients see has moved, but perhaps the generation's time is up.
LEMMA QuietControl ==
  ASSUME UNCHANGED <<asked, answer>>, Asking' = Asking,
         \A c \in Conns, ok \in BOOLEAN : Comes(c, ok)' <=> Comes(c, ok),
         running' = running \/ (Started /\ running' = NoConn)
  PROVE  ToClients!TimeUp \/ UNCHANGED ToClients!vars
<1>1. \A c \in Conns : Stage(c)' = Stage(c)
  BY StageSame DEF AskedBy
<1>2. Stages' = Stages /\ From(Asking)' = From(Asking)
  BY <1>1 DEF Stages, From
<1> QED BY <1>2 DEF ToClients!TimeUp, ToClients!vars, Stages, From, Started

\* The guards after the oldest message has left, and after one has come.
LEMMA TailGuards ==
  ASSUME IInv, NEW c \in Conns
  PROVE  /\ Asking # <<>> /\ Asking' = Tail(Asking) =>
              /\ AskedBy(c) <=> Head(Asking).from = c \/ AskedBy(c)'
         /\ Answering # <<>> /\ Answering' = Tail(Answering) =>
              \A ok \in BOOLEAN : Comes(c, ok) <=>
                \/ Head(Answering).kind # "report" /\ Head(Answering).from = c
                   /\ Head(Answering).ok = ok
                \/ Comes(c, ok)'
<1>1. ASSUME NEW S, NEW s \in Seq(S), s # <<>>
      PROVE  /\ Len(s) \in Nat /\ 1 \in 1..Len(s) /\ Head(s) = s[1]
             /\ \A i \in 1..Len(Tail(s)) : i + 1 \in 1..Len(s) /\ Tail(s)[i] = s[i + 1]
             /\ \A i \in 1..Len(s) : i = 1 \/ (i - 1 \in 1..Len(Tail(s)) /\ Tail(s)[i - 1] = s[i])
  BY <1>1, HeadTailProperties, EmptySeq
<1>2. ASSUME Asking # <<>>, Asking' = Tail(Asking)
      PROVE  AskedBy(c) <=> Head(Asking).from = c \/ AskedBy(c)'
  <2>1. /\ 1 \in 1..Len(Asking) /\ Head(Asking) = Asking[1]
        /\ \A i \in 1..Len(Asking') : i + 1 \in 1..Len(Asking) /\ Asking'[i] = Asking[i + 1]
        /\ \A i \in 1..Len(Asking) :
             i = 1 \/ (i - 1 \in 1..Len(Asking') /\ Asking'[i - 1] = Asking[i])
    BY <1>1, <1>2, MessageTypes
  <2> QED BY <2>1 DEF AskedBy
<1>3. ASSUME Answering # <<>>, Answering' = Tail(Answering), NEW ok \in BOOLEAN
      PROVE  Comes(c, ok) <=> \/ Head(Answering).kind # "report" /\ Head(Answering).from = c
                                 /\ Head(Answering).ok = ok
                              \/ Comes(c, ok)'
  <2>1. /\ 1 \in 1..Len(Answering) /\ Head(Answering) = Answering[1]
        /\ \A i \in 1..Len(Answering') :
             i + 1 \in 1..Len(Answering) /\ Answering'[i] = Answering[i + 1]
        /\ \A i \in 1..Len(Answering) :
             i = 1 \/ (i - 1 \in 1..Len(Answering') /\ Answering'[i - 1] = Answering[i])
    BY <1>1, <1>3, MessageTypes
  <2> QED BY <2>1 DEF Comes
<1> QED BY <1>2, <1>3

LEMMA AppendGuards ==
  ASSUME IInv, NEW c \in Conns
  PROVE  /\ \A m \in Request : Asking' = Append(Asking, m) =>
              (AskedBy(c)' <=> AskedBy(c) \/ m.from = c)
         /\ \A m \in Answer : Answering' = Append(Answering, m) =>
              \A ok \in BOOLEAN : Comes(c, ok)' <=>
                Comes(c, ok) \/ (m.kind # "report" /\ m.from = c /\ m.ok = ok)
<1>1. ASSUME NEW S, NEW s \in Seq(S), NEW m \in S, NEW t, t = Append(s, m)
      PROVE  /\ Len(s) \in Nat /\ Len(s) + 1 \in 1..Len(t) /\ t[Len(s) + 1] = m
             /\ \A i \in 1..Len(s) : i \in 1..Len(t) /\ t[i] = s[i]
             /\ \A i \in 1..Len(t) : i \in 1..Len(s) \/ i = Len(s) + 1
  <2>1. Len(s) \in Nat /\ Len(t) = Len(s) + 1 /\ t[Len(s) + 1] = m
        /\ \A i \in 1..Len(s) : t[i] = s[i]
    BY <1>1, AppendProperties
  <2> QED BY <2>1
<1>2. ASSUME NEW m \in Request, Asking' = Append(Asking, m)
      PROVE  AskedBy(c)' <=> AskedBy(c) \/ m.from = c
  <2>1. /\ Len(Asking) + 1 \in 1..Len(Asking') /\ Asking'[Len(Asking) + 1] = m
        /\ \A i \in 1..Len(Asking) : i \in 1..Len(Asking') /\ Asking'[i] = Asking[i]
        /\ \A i \in 1..Len(Asking') : i \in 1..Len(Asking) \/ i = Len(Asking) + 1
    BY <1>1, <1>2, MessageTypes
  <2> QED BY <2>1 DEF AskedBy
<1>3. ASSUME NEW m \in Answer, Answering' = Append(Answering, m), NEW ok \in BOOLEAN
      PROVE  Comes(c, ok)' <=> Comes(c, ok) \/ (m.kind # "report" /\ m.from = c /\ m.ok = ok)
  <2>1. /\ Len(Answering) + 1 \in 1..Len(Answering') /\ Answering'[Len(Answering) + 1] = m
        /\ \A i \in 1..Len(Answering) : i \in 1..Len(Answering') /\ Answering'[i] = Answering[i]
        /\ \A i \in 1..Len(Answering') : i \in 1..Len(Answering) \/ i = Len(Answering) + 1
    BY <1>1, <1>3, MessageTypes
  <2> QED BY <2>1 DEF Comes
<1> QED BY <1>2, <1>3

\* A client asks: its request is queued behind the others, or it is told at once.
LEMMA AskControl ==
  ASSUME IInv, IInv', OneInFlight, OneInFlight', CallbackInv, CallbackInv',
         NEW c \in Conns, NEW t \in Targets, OnHttpRequest(c, t), UNCHANGED genVars
  PROVE  ToClients!Refuse(c) \/ \E k \in ToClients!Kinds : ToClients!Accept(c, k)
<1>1. /\ asked[c] = "nothing" /\ answer[c] = "none" /\ asked' = [asked EXCEPT ![c] = t]
      /\ running' = running /\ Answering' = Answering /\ t # "nothing"
  BY NotAnAnswer DEF OnHttpRequest, CallbackInv, genVars, Answering
<1>2. Stage(c) = "new" /\ \A d \in Conns, ok \in BOOLEAN : Comes(d, ok)' <=> Comes(d, ok)
  BY <1>1, StageIs DEF Comes
<1>3. ASSUME NEW a \in Answers, AnswerNow(c, a)
      PROVE  ToClients!Asks(c, t, a) /\ From(Asking)' = From(Asking)
  <2>1. /\ Asking' = Asking /\ answer'[c] = a
        /\ \A d \in Conns : d # c => answer'[d] = answer[d] /\ asked'[d] = asked[d]
    BY <1>1, <1>3, HistoryTypes DEF AnswerNow, OnHttpRequest, genVars, Asking
  <2>2. Stage(c)' = a
    <3>1. answer'[c] # "none"
      BY <2>1, NotAnAnswer
    <3> QED BY <2>1, <3>1, StageThen
  <2>3. \A d \in Conns : d # c => Stage(d)' = Stage(d)
    BY <1>2, <2>1, StageSame DEF AskedBy
  <2>4. Stages' = [Stages EXCEPT ![c] = a]
    BY <2>2, <2>3 DEF Stages
  <2>5. From(Asking)' = From(Asking)
    BY <2>1 DEF From
  <2> QED BY <1>1, <1>2, <2>4, <2>5 DEF ToClients!Asks, Stages
<1>4. \A k \in Kinds : ToClients!Busy(k) <=> cb[k] # NoConn
  BY WaitsBusy
<1>5. ASSUME NEW a \in Answers, AnswerNow(c, a),
             \/ t \in Kinds /\ a = "busy" /\ cb[t] # NoConn
             \/ t = "start" /\ a = "bad" /\ cb["start"] = NoConn
             \/ t = "other" /\ a = "unknown"
      PROVE  ToClients!Refuse(c)
  <2>1. ToClients!Asks(c, t, a) /\ From(Asking)' = From(Asking)
    BY <1>3, <1>5
  <2>2. t \in Kinds => (ToClients!Busy(t) <=> cb[t] # NoConn)
    BY <1>4
  <2> QED BY <1>1, <1>5, <2>1, <2>2 DEF ToClients!Refuse, ToClients!Kinds, Kinds, From
<1>6. ASSUME t \in Kinds, cb[t] = NoConn, requests' = Append(requests, [kind |-> t, from |-> c]),
             answer' = answer
      PROVE  ToClients!Accept(c, t)
  <2> DEFINE m == [kind |-> t, from |-> c]
  <2>1. m \in Request /\ m.from = c
    BY <1>6 DEF Request
  <2>2. Asking' = Append(Asking, m)
    BY <1>6, <2>1, MessageTypes, AppendToConcat DEF Asking, genVars
  <2> HIDE DEF m
  <2>3. \A d \in Conns : AskedBy(d)' <=> AskedBy(d) \/ d = c
    BY <2>1, <2>2, AppendGuards
  <2>4. Stage(c)' = "asked"
    <3>1. Waiting(c)' /\ AskedBy(c)'
      BY <1>1, <1>6, <2>3, HistoryTypes DEF Waiting
    <3>2. \A ok \in BOOLEAN : ~Comes(c, ok)
      BY <1>1, WhoseMessage DEF Comes, Waiting
    <3>3. ~Comes(c, TRUE)' /\ ~Comes(c, FALSE)'
      BY <1>2, <3>2
    <3> QED BY <3>1, <3>3, StageThen
  <2>5. \A d \in Conns : d # c => Stage(d)' = Stage(d)
    BY <1>1, <1>2, <1>6, <2>3, StageSame, HistoryTypes
  <2>6. Stages' = [Stages EXCEPT ![c] = "asked"]
    BY <2>4, <2>5 DEF Stages
  <2>7. From(Asking)' = Append(From(Asking), c)
    BY <2>1, <2>2, MessageTypes, FromMoves DEF From
  <2>8. ~ToClients!Busy(t)
    BY <1>4, <1>6
  <2> QED BY <1>1, <1>2, <2>6, <2>7, <2>8
          DEF ToClients!Accept, ToClients!Asks, Stages, From
<1>7. CASE t = "other" /\ AnswerNow(c, "unknown")
  BY <1>5, <1>7 DEF Answers
<1>8. CASE t = "start" /\ cb["start"] = NoConn /\ AnswerNow(c, "bad")
  BY <1>5, <1>8 DEF Answers
<1>9. CASE t \in Kinds /\ Forward(c, t)
  <2>1. CASE cb[t] # NoConn
    BY <1>5, <1>9, <2>1 DEF Forward, Answers
  <2>2. CASE cb[t] = NoConn
    BY <1>6, <1>9, <2>2, RequestsFit DEF Forward, ToClients!Kinds, Kinds
  <2> QED BY <2>1, <2>2
<1> QED BY <1>7, <1>8, <1>9 DEF OnHttpRequest

\* An answer reaches the client it is for, or a report reaches nobody.
LEMMA TellControl ==
  ASSUME IInv, IInv', OneInFlight, OneInFlight', CallbackInv, CallbackInv',
         MgmtHandle, UNCHANGED genVars
  PROVE  UNCHANGED ToClients!vars \/ \E c \in Conns : ToClients!Tell(c)
<1> DEFINE h == Head(mgmtBatch)
<1>1. /\ Answering # <<>> /\ Head(Answering) = h /\ Answering' = Tail(Answering) /\ h \in Answer
  BY MessageTypes, TailOfConcat, HeadTailProperties DEF Answering, MgmtHandle
<1>2. Asking' = Asking /\ UNCHANGED <<asked, running>>
  BY DEF MgmtHandle, genVars, Asking
<1>3. CASE h.kind = "report"
  <2>1. answer' = answer
    BY <1>3 DEF MgmtHandle
  <2>2. \A c \in Conns, ok \in BOOLEAN : Comes(c, ok)' <=> Comes(c, ok)
    BY <1>1, <1>3, TailGuards
  <2>3. \A c \in Conns : Stage(c)' = Stage(c)
    BY <1>2, <2>1, <2>2, StageSame DEF AskedBy
  <2> QED BY <1>2, <2>3 DEF ToClients!vars
<1>4. CASE h.kind # "report"
  <2>1. OnResponse(h)
    BY <1>4 DEF MgmtHandle
  <2> HIDE DEF h
  <2>2. h \in Response /\ h.kind \in Kinds /\ h.ok \in BOOLEAN /\ h.from \in Conns
    BY <1>1, <1>4 DEF Answer, Response, Report
  <2>3. PICK c \in Conns : c = h.from
    BY <2>2
  <2>4. PICK told : told = IF h.ok THEN "ok" ELSE "failed"
    OBVIOUS
  <2>5. Answering[1] = h /\ 1 \in 1..Len(Answering)
    BY <1>1, MessageTypes, HeadTailProperties, EmptySeq
  <2>6. asked[c] = h.kind /\ Waiting(c) /\ cb[h.kind] = c
    <3>1. asked[c] = h.kind /\ Waiting(c)
      BY <1>4, <2>3, <2>5, WhoseMessage
    <3> QED BY <2>2, <3>1 DEF CallbackInv
  <2>7. /\ answer'[c] = told /\ \A d \in Conns : d # c => answer'[d] = answer[d]
    BY <2>1, <2>4, <2>6 DEF OnResponse
  <2>8. Comes(c, h.ok)
    BY <1>4, <2>3, <2>5 DEF Comes
  <2>9. Stage(c) = IF h.ok THEN "done" ELSE "denied"
    BY <2>2, <2>6, <2>8, OneGuard, StageIs
  <2>10. Stage(c)' = told
    <3>1. answer'[c] # "none"
      BY <2>4, <2>7
    <3> QED BY <2>7, <3>1, StageThen
  <2>11. \A d \in Conns : d # c => Stage(d)' = Stage(d)
    <3>1. ASSUME NEW d \in Conns, d # c PROVE \A ok \in BOOLEAN : Comes(d, ok)' <=> Comes(d, ok)
      BY <1>1, <2>3, <3>1, TailGuards
    <3> QED BY <1>2, <2>7, <3>1, StageSame DEF AskedBy
  <2>12. Stages' = [Stages EXCEPT ![c] = told]
    BY <2>10, <2>11 DEF Stages
  <2>13. asked[c] # "nothing"
    BY <2>6 DEF Waiting
  <2>14. ToClients!Tell(c)
    BY <1>2, <2>4, <2>9, <2>12, <2>13 DEF ToClients!Tell, Stages
  <2> QED BY <2>14
<1> QED BY <1>3, <1>4

\* The oldest request takes effect, and its client's answer is on the way or lost.
LEMMA ServeControl ==
  ASSUME IInv, IInv', OneInFlight, OneInFlight', CallbackInv, CallbackInv',
         GenHandle, UNCHANGED mgmtVars
  PROVE  ToClients!Serve
<1> DEFINE h == Head(genBatch)
<1>1. /\ genBatch \in Seq(Request) /\ requests \in Seq(Request) /\ Asking \in Seq(Request)
      /\ mgmtBatch \in Seq(Answer) /\ responses \in Seq(Answer)
      /\ genBatch # <<>> /\ genBatch' = Tail(genBatch) /\ requests' = requests
  BY MessageTypes DEF GenHandle
<1>2. Asking # <<>> /\ Head(Asking) = h /\ Asking' = Tail(Asking) /\ h \in Request
  BY <1>1, TailOfConcat, HeadTailProperties DEF Asking
<1>3. UNCHANGED <<asked, answer, mgmtBatch>>
  BY DEF mgmtVars
<1>4. \E ok \in BOOLEAN :
        /\ Respond(h, ok)
        /\ \/ h.kind = "start" /\ ok = FALSE /\ running' = running
           \/ h.kind = "start" /\ ok = TRUE /\ running = NoConn /\ running' = h.from
           \/ h.kind = "stop" /\ ok = TRUE /\ running' = NoConn
           \/ h.kind = "stats" /\ ok = TRUE /\ running' = running
  BY DEF GenHandle, RefuseStart, AcceptStart, StopGeneration, Started
<1> HIDE DEF h
<1>5. h.kind \in Kinds /\ h.from \in Conns
  BY <1>2 DEF Request
<1>6. PICK c \in Conns : c = h.from
  BY <1>5
<1>7. PICK ok \in BOOLEAN :
        /\ Respond(h, ok)
        /\ \/ h.kind = "start" /\ ok = FALSE /\ running' = running
           \/ h.kind = "start" /\ ok = TRUE /\ running = NoConn /\ running' = c
           \/ h.kind = "stop" /\ ok = TRUE /\ running' = NoConn
           \/ h.kind = "stats" /\ ok = TRUE /\ running' = running
  BY <1>4, <1>6
<1>8. PICK outcome : outcome = IF ok THEN "done" ELSE "denied"
  OBVIOUS
<1>9. Asking[1] = h /\ 1 \in 1..Len(Asking)
  BY <1>1, <1>2, HeadTailProperties, EmptySeq
<1>10. asked[c] = h.kind /\ Waiting(c) /\ AskedBy(c)
  BY <1>6, <1>9, WhoseMessage DEF AskedBy
<1>11. ToClients!Effect(c, outcome)
  BY <1>7, <1>8, <1>10 DEF ToClients!Effect
<1>12. \A o \in BOOLEAN : ~Comes(c, o)
  BY <1>10, OneGuard
<1>13. ~AskedBy(c)'
  <2>1. ASSUME NEW i \in 1..Len(Asking'), Asking'[i].from = c PROVE FALSE
    <3>1. i + 1 \in 1..Len(Asking) /\ Asking'[i] = Asking[i + 1] /\ i + 1 # 1
      BY <1>1, <1>2, HeadTailProperties
    <3>2. Asking[i + 1].kind = h.kind
      BY <1>10, <2>1, <3>1, WhoseMessage
    <3> QED BY <1>5, <1>9, <3>1, <3>2 DEF OneInFlight, OnePlace, Unique
  <2> QED BY <2>1 DEF AskedBy
<1>14. \A d \in Conns : d # c => (AskedBy(d)' <=> AskedBy(d))
  BY <1>2, <1>6, TailGuards
<1>15. \E s \in {outcome, "lost"} : Stages' = [Stages EXCEPT ![c] = s]
  <2>0. Waiting(c)'
    BY <1>3, <1>10 DEF Waiting
  <2>1. ASSUME NEW s, Stage(c)' = s,
               \A d \in Conns : d # c => \A o \in BOOLEAN : Comes(d, o)' <=> Comes(d, o)
        PROVE  Stages' = [Stages EXCEPT ![c] = s]
    <3>1. \A d \in Conns : d # c => Stage(d)' = Stage(d)
      BY <1>3, <1>14, <2>1, StageSame
    <3> QED BY <2>1, <3>1 DEF Stages
  <2>2. CASE IsFull(responses, IncCapacity)
    <3>1. \A d \in Conns, o \in BOOLEAN : Comes(d, o)' <=> Comes(d, o)
      BY <1>3, <1>7, <2>2 DEF Respond, Answering, Comes
    <3>2. Stage(c)' = "lost"
      BY <1>12, <1>13, <2>0, <3>1, StageThen
    <3> QED BY <2>1, <3>1, <3>2
  <2>3. CASE ~IsFull(responses, IncCapacity)
    <3> DEFINE r == [kind |-> h.kind, from |-> h.from, ok |-> ok]
    <3>1. r \in Answer /\ r.kind # "report" /\ r.from = c /\ r.ok = ok
      BY <1>5, <1>6 DEF Answer, Response, Kinds
    <3>2. responses' = Append(responses, r)
      BY <1>7, <2>3 DEF Respond
    <3> HIDE DEF r
    <3>3. Answering' = Append(Answering, r)
      BY <1>1, <1>3, <3>1, <3>2, AppendToConcat DEF Answering
    <3>4. \A d \in Conns, o \in BOOLEAN : Comes(d, o)' <=> Comes(d, o) \/ (d = c /\ o = ok)
      BY <3>1, <3>3, AppendGuards
    <3>5. Stage(c)' = outcome
      BY <1>8, <1>12, <1>13, <2>0, <3>4, StageThen
    <3> QED BY <2>1, <3>4, <3>5
  <2> QED BY <2>2, <2>3
<1>16. /\ From(Asking) # <<>> /\ Head(From(Asking)) = c /\ From(Asking)' = Tail(From(Asking))
  BY <1>1, <1>2, <1>6, FromMoves DEF From
<1>17. outcome \in {"done", "denied"}
  BY <1>8
<1> QED BY <1>3, <1>11, <1>15, <1>16, <1>17 DEF ToClients!Serve, Stages, From

\* Reports, polls and timers do not show.
LEMMA HiddenControl ==
  ASSUME IInv, IInv',
         \/ UNCHANGED genVars /\ (PollNothing \/ MgmtDequeue \/ MgmtReturn)
         \/ UNCHANGED mgmtVars /\ \/ GenDequeue \/ GenIdle \/ GenTimeout \/ GenManageTimers
                                  \/ GenTransmit \/ Expire \/ \E f \in Flows : OnFlowEvent(f)
         \/ UNCHANGED vars
  PROVE  ToClients!TimeUp \/ UNCHANGED ToClients!vars
<1>1. UNCHANGED <<asked, answer>> /\ (running' = running \/ (Started /\ running' = NoConn))
  BY DEF PollNothing, MgmtDequeue, MgmtReturn, GenDequeue, GenIdle, GenTimeout, StopGeneration,
         GenManageTimers, GenTransmit, Expire, OnFlowEvent, vars, mgmtVars, genVars
<1>2. Asking' = Asking
  <2>1. CASE GenDequeue
    <3>1. genBatch = <<>> /\ requests \in Seq(Request)
      BY <2>1, MessageTypes DEF IInv, Phases, GenDequeue
    <3>2. Asking = requests /\ genBatch' \o requests' = requests
      BY <2>1, <3>1, ConcatEmptySeq, FrontRest DEF Asking, GenDequeue
    <3> QED BY <3>2 DEF Asking
  <2>2. CASE UNCHANGED <<genBatch, requests>>
    BY <2>2 DEF Asking
  <2> QED BY <2>1, <2>2 DEF PollNothing, MgmtDequeue, MgmtReturn, GenIdle, GenTimeout,
             GenManageTimers, GenTransmit, Expire, OnFlowEvent, vars, genVars, channelVars
<1>3. \A c \in Conns, ok \in BOOLEAN : Comes(c, ok)' <=> Comes(c, ok)
  <2>1. CASE MgmtDequeue
    <3>1. mgmtBatch = <<>> /\ responses \in Seq(Answer)
      BY <2>1, MessageTypes DEF IInv, Phases, MgmtDequeue
    <3>2. Answering = responses /\ mgmtBatch' \o responses' = responses
      BY <2>1, <3>1, ConcatEmptySeq, FrontRest DEF Answering, MgmtDequeue
    <3>3. Answering' = Answering
      BY <3>2 DEF Answering
    <3> QED BY <3>3 DEF Comes
  <2>2. CASE mgmtBatch' = mgmtBatch /\ DoReport
    <3> DEFINE r == [kind |-> "report"]
    <3>1. r \in Answer /\ r.kind = "report"
      BY DEF Answer, Report
    <3>2. responses' = responses \/ responses' = Append(responses, r)
      BY <2>2 DEF DoReport
    <3> HIDE DEF r
    <3>3. Answering' = Answering \/ Answering' = Append(Answering, r)
      <4>1. mgmtBatch \o Append(responses, r) = Append(mgmtBatch \o responses, r)
        BY <3>1, MessageTypes, AppendToConcat
      <4> QED BY <2>2, <3>2, <4>1 DEF Answering
    <3>4. CASE Answering' = Answering
      BY <3>4 DEF Comes
    <3>5. CASE Answering' = Append(Answering, r)
      BY <3>1, <3>5, AppendGuards
    <3> QED BY <3>3, <3>4, <3>5
  <2>3. CASE UNCHANGED <<mgmtBatch, responses>>
    <3>1. Answering' = Answering
      BY <2>3 DEF Answering
    <3> QED BY <3>1 DEF Comes
  <2> QED BY <2>1, <2>2, <2>3 DEF PollNothing, MgmtReturn, GenDequeue, GenIdle, GenTimeout,
             GenManageTimers, GenTransmit, Expire, OnFlowEvent, vars, mgmtVars, channelVars
<1> QED BY <1>1, <1>2, <1>3, QuietControl

LEMMA StepControl ==
  ASSUME IInv, IInv', OneInFlight, OneInFlight', CallbackInv, CallbackInv', [Next]_vars
  PROVE  [ToClients!Next]_(ToClients!vars)
<1>1. CASE MgmtStep
  BY <1>1, HiddenControl, TellControl, AskControl
     DEF MgmtStep, MgmtNext, MgmtLoop, ToClients!Next
<1>2. CASE GenStep
  BY <1>2, HiddenControl, ServeControl DEF GenStep, GenLoop, ToClients!Next
<1>3. CASE TimePasses \/ UNCHANGED vars
  BY <1>3, HiddenControl DEF TimePasses, ToClients!Next
<1> QED BY <1>1, <1>2, <1>3 DEF Next

\* The two threads of mgmt/manager.cpp and gen/manager.cpp, with their queues between
\* them and a callback per kind of request, are to their clients one server that takes
\* requests in turn: of any number of clients, and with queues of any capacity.
THEOREM ProgramImplementsControl == Spec => ImplementsControl
<1>1. Init => ToClients!Init
  BY InitControl
<1>2. IInv /\ IInv' /\ OneInFlight /\ OneInFlight' /\ CallbackInv /\ CallbackInv' /\ [Next]_vars
        => [ToClients!Next]_(ToClients!vars)
  BY StepControl
<1> QED BY <1>1, <1>2, Invariance, ProgramOneInFlight, CallbackInvariance, PTL
        DEF Spec, ImplementsControl, ToClients!Spec
=============================================================================
