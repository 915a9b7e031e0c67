--------------------------- MODULE Service_proofs ---------------------------
(***************************************************************************)
(* What holds of the program together with its HTTP server, for any number *)
(* of connections and flows and all capacities.                            *)
(***************************************************************************)
EXTENDS Service, RequestOrder_proofs

\* A completed operation is on a connection unless it is an accept that has failed.
OnConnection ==
  \A i \in 1..Len(ready) : ready[i].on = NoConn <=> ready[i].op = "accept" /\ ~ready[i].ok

HttpInv == HttpTypeOK /\ OnConnection /\ OneOperation

\* The coroutines and the manager's callbacks: what OneResumer says beyond OneOperation.
Resumers ==
  /\ \A c \in Conns : conn[c] = "waiting" <=> \E k \in Kinds : cb[k] = c
  /\ \A j, k \in Kinds : cb[j] = cb[k] /\ cb[j] # NoConn => j = k
  /\ \A c \in Conns : conn[c] \in {"none", "reading"} => asked[c] = "nothing"
  /\ \A c \in Conns : conn[c] \in {"none", "reading", "waiting"} => answer[c] = "none"
  /\ \A c \in Conns : conn[c] = "writing" => answer[c] # "none"

-----------------------------------------------------------------------------
(***************************************************************************)
(* The program inside                                                      *)
(***************************************************************************)

LEMMA ServiceStep ==
  ASSUME [ServiceNext]_serviceVars
  PROVE  [Next]_vars
<1>1. CASE UNCHANGED serviceVars
  BY <1>1 DEF serviceVars
<1>2. CASE ServiceNext /\ Manage /\ UNCHANGED genVars
  <2>1. MgmtNext
    BY <1>2 DEF Manage, PollHttp, PollRequest, HandleResponses, MgmtNext, MgmtLoop
  <2> QED BY <1>2, <2>1 DEF ServiceNext, Next, MgmtStep
<1>3. CASE ServiceNext /\ (GenStep \/ TimePasses)
  BY <1>3 DEF ServiceNext, Next
<1>4. CASE UNCHANGED vars
  BY <1>4
<1> QED BY <1>1, <1>2, <1>3, <1>4 DEF ServiceNext

\* The HTTP server neither adds to what the two managers do nor keeps them from it:
\* what holds of TrafficGenerator's program holds of it behind its server.
THEOREM ServiceImplementsProgram == ServiceSpec => Spec
<1>1. ServiceInit => Init
  BY DEF ServiceInit
<1>2. [ServiceNext]_serviceVars => [Next]_vars
  BY ServiceStep
<1> QED BY <1>1, <1>2, PTL DEF ServiceSpec, Spec

-----------------------------------------------------------------------------
(***************************************************************************)
(* Completed operations                                                    *)
(***************************************************************************)

\* What takes the head off leaves behind.
LEMMA TailOfReady ==
  ASSUME HttpTypeOK, ready # <<>>, ready' = Tail(ready)
  PROVE  /\ ready' \in Seq(Completed) /\ Head(ready) = ready[1] /\ 1 \in 1..Len(ready)
         /\ Head(ready) \in Completed
         /\ \A i \in 1..Len(ready') :
              i + 1 \in 1..Len(ready) /\ i + 1 # 1 /\ ready'[i] = ready[i + 1]
<1>1. ready \in Seq(Completed)
  BY DEF HttpTypeOK
<1> QED BY <1>1

LEMMA AppendToReady ==
  ASSUME HttpTypeOK, NEW done \in Completed, ready' = Append(ready, done)
  PROVE  /\ ready' \in Seq(Completed) /\ Len(ready) + 1 \in 1..Len(ready')
         /\ ready'[Len(ready) + 1] = done
         /\ \A i \in 1..Len(ready) : i \in 1..Len(ready') /\ ready'[i] = ready[i]
         /\ \A i \in 1..Len(ready') : i \in 1..Len(ready) \/ i = Len(ready) + 1
<1>1. ready \in Seq(Completed)
  BY DEF HttpTypeOK
<1> QED BY <1>1

\* A handler runs and changes at most the connection that its operation was on.
LEMMA HandlerRuns ==
  ASSUME HttpInv, NEW op, Takes(op),
         op = "accept" => accepting', op # "accept" => (accepting' <=> accepting),
         \A c \in Conns : c # Head(ready).on => conn'[c] = conn[c]
  PROVE  OnConnection' /\ OneOperation' /\ ready' \in Seq(Completed)
<1> USE DEF HttpInv
<1> DEFINE h == ready[1]
<1>1. /\ ready' \in Seq(Completed) /\ 1 \in 1..Len(ready) /\ h \in Completed /\ h.op = op
      /\ \A c \in Conns : c # h.on => conn'[c] = conn[c]
      /\ \A i \in 1..Len(ready') :
           i + 1 \in 1..Len(ready) /\ i + 1 # 1 /\ ready'[i] = ready[i + 1]
  BY TailOfReady DEF Takes
<1>2. \A i, j \in 1..Len(ready) :
        \/ ready[i].on = ready[j].on
        \/ ready[i].op = "accept" /\ ready[j].op = "accept"
        => i = j
  BY DEF OneOperation
<1>3. \A i \in 1..Len(ready') : ready'[i].on # h.on
                                /\ (op = "accept" => ready'[i].op # "accept")
  BY <1>1, <1>2
<1>4. OnConnection'
  BY <1>1 DEF OnConnection
<1>5. \A i \in 1..Len(ready') : WaitsFor(ready'[i], conn')
  <2> SUFFICES ASSUME NEW i \in 1..Len(ready') PROVE WaitsFor(ready'[i], conn')
    OBVIOUS
  <2>1. WaitsFor(ready'[i], conn)
    BY <1>1 DEF OneOperation
  <2>2. ready'[i] \in Completed
    BY <1>1
  <2>3. CASE ready'[i].on = NoConn
    BY <1>4, <2>2, <2>3 DEF OnConnection, WaitsFor, Completed
  <2>4. CASE ready'[i].on # NoConn
    <3>1. ready'[i].on \in Conns /\ ready'[i].on # h.on
      BY <1>3, <2>2, <2>4 DEF Completed
    <3>2. conn'[ready'[i].on] = conn[ready'[i].on]
      BY <1>1, <3>1
    <3> QED BY <2>1, <2>2, <3>2 DEF WaitsFor, Completed
  <2> QED BY <2>3, <2>4
<1>6. \A i, j \in 1..Len(ready') :
        \/ ready'[i].on = ready'[j].on
        \/ ready'[i].op = "accept" /\ ready'[j].op = "accept"
        => i = j
  <2> SUFFICES ASSUME NEW i \in 1..Len(ready'), NEW j \in 1..Len(ready'),
                      \/ ready'[i].on = ready'[j].on
                      \/ ready'[i].op = "accept" /\ ready'[j].op = "accept"
               PROVE  i = j
    OBVIOUS
  <2>1. i + 1 = j + 1
    BY <1>1, <1>2
  <2> QED BY <2>1
<1> DEFINE Idle == \A i \in 1..Len(ready) : ready[i].op # "accept"
           IdleNext == \A i \in 1..Len(ready') : ready'[i].op # "accept"
<1>7. accepting' <=> IdleNext
  <2>1. accepting <=> Idle
    BY DEF OneOperation
  <2>2. CASE op = "accept"
    BY <1>3, <2>2
  <2>3. CASE op # "accept"
    <3>1. ASSUME NEW i \in 1..Len(ready), ready[i].op = "accept"
          PROVE  \E j \in 1..Len(ready') : ready'[j].op = "accept"
      <4>1. i # 1
        BY <1>1, <2>3, <3>1
      <4>2. i - 1 \in 1..Len(ready') /\ ready'[i - 1] = ready[i]
        <5>1. ready \in Seq(Completed) /\ ready # <<>> /\ ready' = Tail(ready)
          BY DEF HttpTypeOK, Takes
        <5> QED BY <4>1, <5>1
      <4> QED BY <3>1, <4>2
    <3>2. Idle <=> IdleNext
      BY <1>1, <3>1
    <3>3. accepting' <=> accepting
      BY <2>3
    <3> HIDE DEF Idle, IdleNext
    <3> QED BY <2>1, <3>2, <3>3
  <2> QED BY <2>2, <2>3
<1> QED BY <1>1, <1>4, <1>5, <1>6, <1>7 DEF OneOperation

\* An operation completes.
LEMMA OperationCompletes ==
  ASSUME HttpInv, NEW op \in {"accept", "read", "write"}, NEW c \in Conns \cup {NoConn},
         NEW ok \in BOOLEAN, Complete(op, c, ok), conn' = conn,
         c = NoConn <=> op = "accept" /\ ~ok,
         WaitsFor([op |-> op, on |-> c, ok |-> ok], conn),
         op = "accept" => accepting /\ ~accepting', op # "accept" => (accepting' <=> accepting)
  PROVE  OnConnection' /\ OneOperation' /\ ready' \in Seq(Completed)
<1> USE DEF HttpInv
<1> DEFINE done == [op |-> op, on |-> c, ok |-> ok]
<1>1. done \in Completed /\ ready' = Append(ready, done)
      /\ done.op = op /\ done.on = c /\ done.ok = ok /\ WaitsFor(done, conn)
  BY DEF Complete, Completed
<1> HIDE DEF done
<1>2. /\ ready' \in Seq(Completed) /\ Len(ready) + 1 \in 1..Len(ready')
      /\ ready'[Len(ready) + 1] = done
      /\ \A i \in 1..Len(ready) : i \in 1..Len(ready') /\ ready'[i] = ready[i]
      /\ \A i \in 1..Len(ready') : i \in 1..Len(ready) \/ i = Len(ready) + 1
  BY <1>1, AppendToReady
<1>3. \A i \in 1..Len(ready) : ready[i].on # c /\ (op = "accept" => ready[i].op # "accept")
  BY DEF Complete, OneOperation
<1>4. OnConnection'
  BY <1>1, <1>2 DEF OnConnection
<1>5. \A i \in 1..Len(ready') : WaitsFor(ready'[i], conn')
  BY <1>1, <1>2 DEF OneOperation
<1>6. \A i, j \in 1..Len(ready') :
        \/ ready'[i].on = ready'[j].on
        \/ ready'[i].op = "accept" /\ ready'[j].op = "accept"
        => i = j
  <2> SUFFICES ASSUME NEW i \in 1..Len(ready'), NEW j \in 1..Len(ready'),
                      \/ ready'[i].on = ready'[j].on
                      \/ ready'[i].op = "accept" /\ ready'[j].op = "accept"
               PROVE  i = j
    OBVIOUS
  <2>1. CASE i \in 1..Len(ready) /\ j \in 1..Len(ready)
    BY <1>2, <2>1 DEF OneOperation
  <2>2. CASE i = Len(ready) + 1 /\ j \in 1..Len(ready)
    BY <1>1, <1>2, <1>3, <2>2
  <2>3. CASE i \in 1..Len(ready) /\ j = Len(ready) + 1
    BY <1>1, <1>2, <1>3, <2>3
  <2>4. CASE i = Len(ready) + 1 /\ j = Len(ready) + 1
    BY <2>4
  <2> QED BY <1>2, <2>1, <2>2, <2>3, <2>4
<1> DEFINE Idle == \A i \in 1..Len(ready) : ready[i].op # "accept"
           IdleNext == \A i \in 1..Len(ready') : ready'[i].op # "accept"
<1>7. accepting' <=> IdleNext
  <2>1. accepting <=> Idle
    BY DEF OneOperation
  <2>2. CASE op = "accept"
    <3>1. ~IdleNext
      BY <1>1, <1>2, <2>2
    <3>2. ~accepting'
      BY <2>2
    <3> HIDE DEF IdleNext
    <3> QED BY <3>1, <3>2
  <2>3. CASE op # "accept"
    <3>1. Idle <=> IdleNext
      BY <1>1, <1>2, <2>3
    <3>2. accepting' <=> accepting
      BY <2>3
    <3> HIDE DEF Idle, IdleNext
    <3> QED BY <2>1, <3>1, <3>2
  <2> QED BY <2>2, <2>3
<1> QED BY <1>2, <1>4, <1>5, <1>6, <1>7 DEF OneOperation

\* Callbacks are called: they resume coroutines that wait for them and for no operation.
LEMMA CallbacksCalled ==
  ASSUME HttpInv, NEW S, Resume(S), \A c \in S : c \in Conns /\ conn[c] = "waiting"
  PROVE  HttpInv'
<1> USE DEF HttpInv
<1>1. /\ ready' = ready /\ accepting' = accepting /\ ready \in Seq(Completed)
      /\ conn' = [c \in Conns |-> IF c \in S THEN "writing" ELSE conn[c]]
      /\ conn \in [Conns -> {"none", "reading", "waiting", "writing", "closed"}]
  BY DEF Resume, HttpTypeOK
<1>2. HttpTypeOK'
  BY <1>1 DEF HttpTypeOK
<1>3. OnConnection'
  BY <1>1 DEF OnConnection
<1>4. \A i \in 1..Len(ready) : WaitsFor(ready[i], conn')
  <2> SUFFICES ASSUME NEW i \in 1..Len(ready) PROVE WaitsFor(ready[i], conn')
    OBVIOUS
  <2>1. WaitsFor(ready[i], conn) /\ ready[i] \in Completed
    BY <1>1 DEF OneOperation
  <2>2. CASE ready[i].on = NoConn
    BY <2>1, <2>2 DEF OnConnection, WaitsFor
  <2>3. CASE ready[i].on # NoConn
    <3>1. ready[i].on \in Conns
      BY <2>1, <2>3 DEF Completed
    <3>2. (ready[i].op # "accept" \/ ready[i].ok) /\ conn[ready[i].on] # "waiting"
      BY <2>1, <2>3 DEF OnConnection, WaitsFor
    <3>3. conn'[ready[i].on] = conn[ready[i].on]
      BY <1>1, <3>1, <3>2
    <3> QED BY <2>1, <3>3 DEF WaitsFor
  <2> QED BY <2>2, <2>3
<1> QED BY <1>1, <1>2, <1>3, <1>4 DEF OneOperation
-----------------------------------------------------------------------------
(***************************************************************************)
(* One end of each wait                                                    *)
(***************************************************************************)

\* The manager's callbacks and answers stay, and so does every coroutine but one that
\* is on its way from being accepted to reading, or from reading or writing to its end.
LEMMA ManagerUnmoved ==
  ASSUME Resumers, HttpTypeOK, HttpTypeOK', UNCHANGED <<cb, asked, answer>>,
         \A c \in Conns : \/ conn'[c] = conn[c]
                          \/ conn[c] = "none" /\ conn'[c] = "reading"
                          \/ conn[c] \in {"reading", "writing"} /\ conn'[c] = "closed"
  PROVE  Resumers'
<1>1. \A c \in Conns : conn'[c] = "waiting" <=> conn[c] = "waiting"
  OBVIOUS
<1>2. \A c \in Conns : conn'[c] = "writing" => conn[c] = "writing"
  OBVIOUS
<1>3. \A c \in Conns : conn'[c] \in {"none", "reading"} => conn[c] \in {"none", "reading"}
  OBVIOUS
<1> QED BY <1>1, <1>2, <1>3 DEF Resumers

\* What clients and the network do.
LEMMA NetworkStep ==
  ASSUME HttpInv, Resumers, Network, UNCHANGED vars
  PROVE  HttpInv' /\ Resumers'
<1> USE DEF HttpInv
<1>1. NoConn \notin Conns
  BY ConnAssumption
<1>2. conn' = conn
  BY DEF Network, AcceptFails, Connect, RequestArrives, ResponseLeaves
<1>3. HttpTypeOK /\ accepting' \in BOOLEAN
  BY DEF HttpTypeOK, Network, AcceptFails, Connect, RequestArrives, ResponseLeaves
<1>4. OnConnection' /\ OneOperation' /\ ready' \in Seq(Completed)
  <2>1. CASE AcceptFails
    <3>1. WaitsFor([op |-> "accept", on |-> NoConn, ok |-> FALSE], conn)
      BY DEF WaitsFor
    <3> QED BY <1>1, <2>1, <3>1, OperationCompletes DEF AcceptFails
  <2>2. ASSUME NEW c \in Conns, Connect(c)
        PROVE  OnConnection' /\ OneOperation' /\ ready' \in Seq(Completed)
    <3>1. WaitsFor([op |-> "accept", on |-> c, ok |-> TRUE], conn)
      BY <2>2 DEF WaitsFor, Connect
    <3> QED BY <1>1, <2>2, <3>1, OperationCompletes DEF Connect
  <2>3. ASSUME NEW c \in Conns, NEW ok \in BOOLEAN, RequestArrives(c, ok)
        PROVE  OnConnection' /\ OneOperation' /\ ready' \in Seq(Completed)
    <3>1. WaitsFor([op |-> "read", on |-> c, ok |-> ok], conn)
      BY <2>3 DEF WaitsFor, RequestArrives
    <3> QED BY <1>1, <2>3, <3>1, OperationCompletes DEF RequestArrives
  <2>4. ASSUME NEW c \in Conns, NEW ok \in BOOLEAN, ResponseLeaves(c, ok)
        PROVE  OnConnection' /\ OneOperation' /\ ready' \in Seq(Completed)
    <3>1. WaitsFor([op |-> "write", on |-> c, ok |-> ok], conn)
      BY <2>4 DEF WaitsFor, ResponseLeaves
    <3> QED BY <1>1, <2>4, <3>1, OperationCompletes DEF ResponseLeaves
  <2> QED BY <2>1, <2>2, <2>3, <2>4 DEF Network
<1>5. HttpTypeOK'
  BY <1>2, <1>3, <1>4 DEF HttpTypeOK
<1>6. UNCHANGED <<cb, asked, answer>>
  BY DEF vars, mgmtVars
<1>7. Resumers'
  BY <1>2, <1>3, <1>5, <1>6, ManagerUnmoved
<1> QED BY <1>4, <1>5, <1>7

\* A handler that asks the manager for nothing.
LEMMA PollHttpStep ==
  ASSUME HttpInv, Resumers, PollHttp
  PROVE  HttpInv' /\ Resumers'
<1> USE DEF HttpInv
<1>1. UNCHANGED <<cb, asked, answer>>
  BY DEF PollHttp, PollNothing
<1>2. CASE UNCHANGED httpVars
  BY <1>1, <1>2, ManagerUnmoved
     DEF httpVars, HttpTypeOK, OnConnection, OneOperation
<1> DEFINE h == ready[1]
<1>3. ASSUME NEW op, Takes(op)
      PROVE  /\ Head(ready) = h /\ h \in Completed /\ WaitsFor(h, conn) /\ h.op = op
             /\ h.on = NoConn <=> op = "accept" /\ ~h.ok
  <2>1. 1 \in 1..Len(ready) /\ Head(ready) = h /\ h \in Completed
    BY <1>3, TailOfReady DEF Takes
  <2> QED BY <1>3, <2>1 DEF Takes, OneOperation, OnConnection
<1>4. conn \in [Conns -> {"none", "reading", "waiting", "writing", "closed"}] /\ NoConn \notin Conns
  BY ConnAssumption DEF HttpTypeOK
<1>5. CASE AcceptConnections
  <2>1. /\ Takes("accept") /\ accepting' = TRUE
        /\ conn' = [c \in Conns |-> IF c = Head(ready).on THEN "reading" ELSE conn[c]]
    BY <1>5 DEF AcceptConnections
  <2>2. OnConnection' /\ OneOperation' /\ ready' \in Seq(Completed)
    BY <1>4, <2>1, HandlerRuns
  <2>3. HttpTypeOK'
    BY <1>4, <2>1, <2>2 DEF HttpTypeOK
  <2>4. \A c \in Conns : c = Head(ready).on => conn[c] = "none"
    BY <1>3, <1>4, <2>1 DEF WaitsFor
  <2>5. Resumers'
    BY <1>1, <1>4, <2>1, <2>3, <2>4, ManagerUnmoved
  <2> QED BY <2>2, <2>3, <2>5
<1>6. ASSUME NEW op \in {"read", "write"}, Takes(op),
             conn' = [conn EXCEPT ![Head(ready).on] = "closed"], UNCHANGED accepting
      PROVE  HttpInv' /\ Resumers'
  <2>1. /\ \A c \in Conns : c # Head(ready).on => conn'[c] = conn[c]
        /\ \A c \in Conns : c = Head(ready).on => conn'[c] = "closed"
    BY <1>4, <1>6
  <2>2. OnConnection' /\ OneOperation' /\ ready' \in Seq(Completed)
    BY <1>6, <2>1, HandlerRuns
  <2>3. HttpTypeOK'
    BY <1>4, <1>6, <2>2 DEF HttpTypeOK
  <2>4. \A c \in Conns : c = Head(ready).on => conn[c] \in {"reading", "writing"}
    BY <1>3, <1>6 DEF WaitsFor
  <2>5. Resumers'
    BY <1>1, <2>1, <2>3, <2>4, ManagerUnmoved
  <2> QED BY <2>2, <2>3, <2>5
<1>7. CASE ReceiveFails
  BY <1>6, <1>7 DEF ReceiveFails
<1>8. CASE FinishRequest
  BY <1>6, <1>8 DEF FinishRequest
<1> QED BY <1>2, <1>5, <1>7, <1>8 DEF PollHttp

\* A request that has been read is handed over: it is answered at once, or its
\* connection waits for the one callback that is set for it.
LEMMA PollRequestStep ==
  ASSUME HttpInv, Resumers, MgmtTypeOK, PollRequest
  PROVE  HttpInv' /\ Resumers'
<1> USE DEF HttpInv
<1>1. PICK c \in Conns, t \in Targets : OnHttpRequest(c, t) /\ GetResponse(c, c \in Called)
  BY DEF PollRequest
<1> DEFINE called == c \in Called
<1>2. /\ Takes("read") /\ Head(ready).on = c /\ UNCHANGED accepting
      /\ conn' = [conn EXCEPT ![c] = IF called THEN "writing" ELSE "waiting"]
  BY <1>1 DEF GetResponse
<1>3. called <=> answer'[c] # answer[c]
  BY DEF Called
<1> HIDE DEF called
<1>4. /\ conn \in [Conns -> {"none", "reading", "waiting", "writing", "closed"}]
      /\ cb \in [Kinds -> Conns \cup {NoConn}] /\ answer \in [Conns -> Answers \cup {"none"}]
      /\ asked \in [Conns -> Targets \cup {"nothing"}] /\ NoConn \notin Conns
  BY ConnAssumption DEF HttpTypeOK, MgmtTypeOK
<1>5. /\ \A d \in Conns : d # c => conn'[d] = conn[d]
      /\ conn'[c] = IF called THEN "writing" ELSE "waiting"
  BY <1>2, <1>4
<1>6. OnConnection' /\ OneOperation' /\ ready' \in Seq(Completed)
  BY <1>2, <1>5, HandlerRuns
<1>7. HttpTypeOK'
  BY <1>2, <1>4, <1>6 DEF HttpTypeOK
<1>8. conn[c] = "reading"
  <2>1. 1 \in 1..Len(ready) /\ Head(ready) = ready[1] /\ ready[1].op = "read"
    BY <1>2, TailOfReady DEF Takes
  <2> QED BY <1>2, <2>1 DEF OneOperation, WaitsFor
<1>9. answer[c] = "none" /\ \A k \in Kinds : cb[k] # c
  BY <1>8 DEF Resumers
<1>10. \A d \in Conns : d # c => asked'[d] = asked[d]
  BY <1>1, <1>4 DEF OnHttpRequest
<1>11. CASE \E a \in Answers : AnswerNow(c, a)
  <2>1. /\ cb' = cb /\ answer'[c] # "none"
        /\ \A d \in Conns : d # c => answer'[d] = answer[d]
    BY <1>4, <1>11 DEF AnswerNow, Answers
  <2>2. conn'[c] = "writing"
    BY <1>3, <1>5, <1>9, <2>1
  <2>3. \A d \in Conns : conn'[d] = "waiting" <=> \E k \in Kinds : cb'[k] = d
    BY <1>5, <1>9, <2>1, <2>2 DEF Resumers
  <2>4. \A d \in Conns : /\ conn'[d] \in {"none", "reading"} => asked'[d] = "nothing"
                         /\ conn'[d] \in {"none", "reading", "waiting"} => answer'[d] = "none"
                         /\ conn'[d] = "writing" => answer'[d] # "none"
    BY <1>5, <1>10, <2>1, <2>2 DEF Resumers
  <2>5. Resumers'
    BY <2>1, <2>3, <2>4 DEF Resumers
  <2> QED BY <1>6, <1>7, <2>5
<1>12. ASSUME NEW kind \in Kinds, cb[kind] = NoConn,
              cb' = [cb EXCEPT ![kind] = c], answer' = answer
       PROVE  HttpInv' /\ Resumers'
  <2>1. conn'[c] = "waiting"
    BY <1>3, <1>5, <1>12
  <2>2. cb'[kind] = c /\ \A k \in Kinds : k # kind => cb'[k] = cb[k]
    BY <1>4, <1>12
  <2>3. \A d \in Conns : conn'[d] = "waiting" <=> \E k \in Kinds : cb'[k] = d
    <3> SUFFICES ASSUME NEW d \in Conns
                 PROVE  conn'[d] = "waiting" <=> \E k \in Kinds : cb'[k] = d
      OBVIOUS
    <3>1. CASE d = c
      BY <2>1, <2>2, <3>1
    <3>2. CASE d # c
      <4>1. conn[d] = "waiting" <=> \E k \in Kinds : cb[k] = d
        BY DEF Resumers
      <4>2. \A k \in Kinds : cb'[k] = d <=> cb[k] = d
        BY <1>4, <1>12, <2>2, <3>2
      <4>3. conn'[d] = conn[d]
        BY <1>5, <3>2
      <4> QED BY <4>1, <4>2, <4>3
    <3> QED BY <3>1, <3>2
  <2>4. \A j, k \in Kinds : cb'[j] = cb'[k] /\ cb'[j] # NoConn => j = k
    BY <1>9, <2>2 DEF Resumers
  <2>5. \A d \in Conns : /\ conn'[d] \in {"none", "reading"} => asked'[d] = "nothing"
                         /\ conn'[d] \in {"none", "reading", "waiting"} => answer'[d] = "none"
                         /\ conn'[d] = "writing" => answer'[d] # "none"
    BY <1>5, <1>9, <1>10, <1>12, <2>1 DEF Resumers
  <2>6. Resumers'
    BY <2>3, <2>4, <2>5 DEF Resumers
  <2> QED BY <1>6, <1>7, <2>6
<1> QED BY <1>1, <1>11, <1>12 DEF OnHttpRequest, Forward, Answers

\* A response resumes the one coroutine that waits for it, a report none.
LEMMA HandleResponsesStep ==
  ASSUME HttpInv, Resumers, MgmtTypeOK, HandleResponses
  PROVE  HttpInv' /\ Resumers'
<1> USE DEF HttpInv
<1> DEFINE msg == Head(mgmtBatch)
           S == Called
<1>1. /\ conn \in [Conns -> {"none", "reading", "waiting", "writing", "closed"}]
      /\ cb \in [Kinds -> Conns \cup {NoConn}] /\ answer \in [Conns -> Answers \cup {"none"}]
      /\ NoConn \notin Conns
  BY ConnAssumption DEF HttpTypeOK, MgmtTypeOK
<1>2. /\ Resume(S) /\ asked' = asked
      /\ IF msg.kind = "report" THEN answer' = answer /\ cb' = cb ELSE OnResponse(msg)
  BY DEF HandleResponses, MgmtHandle
<1>3. \A c \in Conns : c \in S <=> answer'[c] # answer[c]
  BY DEF Called
<1>4. \A c \in S : c \in Conns
  BY DEF Called
<1>5. \A c \in Conns : conn'[c] = IF c \in S THEN "writing" ELSE conn[c]
  BY <1>2 DEF Resume
<1>6. msg.kind = "report" \/ msg.kind \in Kinds
  <2>1. mgmtBatch \in Seq(Response \cup Report) /\ mgmtBatch # <<>>
    BY DEF HandleResponses, MgmtHandle, MgmtTypeOK
  <2>2. msg \in Response \cup Report
    BY <2>1
  <2> QED BY <2>2 DEF Response, Report
<1> HIDE DEF msg, S
<1>7. CASE msg.kind = "report"
  <2>1. \A c \in Conns : c \notin S
    BY <1>2, <1>3, <1>7
  <2>2. HttpInv'
    BY <1>2, <1>4, <2>1, CallbacksCalled
  <2>3. Resumers'
    BY <1>2, <1>5, <1>7, <2>1, <2>2, ManagerUnmoved
  <2> QED BY <2>2, <2>3
<1>8. CASE msg.kind \in Kinds /\ msg.kind # "report"
  <2> DEFINE kind == msg.kind
             client == cb[kind]
  <2>1. /\ answer' = [c \in Conns |-> IF c = client THEN (IF msg.ok THEN "ok" ELSE "failed")
                                      ELSE answer[c]]
        /\ cb' = [cb EXCEPT ![kind] = NoConn]
    BY <1>2, <1>8 DEF OnResponse
  <2>2. kind \in Kinds /\ client \in Conns \cup {NoConn}
    BY <1>1, <1>8
  <2>3. \A c \in Conns : /\ c # client => answer'[c] = answer[c]
                         /\ c = client => answer'[c] # "none"
    BY <2>1
  <2>4. cb'[kind] = NoConn /\ \A k \in Kinds : k # kind => cb'[k] = cb[k]
    BY <1>1, <2>1, <2>2
  <2>5. \A k \in Kinds : k # kind /\ cb[k] # NoConn => cb[k] # client
    BY <2>2 DEF Resumers
  <2> HIDE DEF kind
  <2>6. \A c \in Conns : c \in S <=> c = client
    <3>1. \A c \in Conns : c = client => conn[c] = "waiting" /\ answer[c] = "none"
      BY <2>2 DEF Resumers
    <3> QED BY <1>3, <2>3, <3>1
  <2>7. \A c \in Conns : c \in S => conn[c] = "waiting"
    BY <2>2, <2>6 DEF Resumers
  <2>8. HttpInv'
    BY <1>2, <1>4, <2>7, CallbacksCalled
  <2>9. \A c \in Conns : conn'[c] = "waiting" <=> \E k \in Kinds : cb'[k] = c
    <3> SUFFICES ASSUME NEW c \in Conns
                 PROVE  conn'[c] = "waiting" <=> \E k \in Kinds : cb'[k] = c
      OBVIOUS
    <3>1. CASE c = client
      BY <1>1, <1>5, <2>4, <2>5, <2>6, <3>1
    <3>2. CASE c # client
      <4>1. conn[c] = "waiting" <=> \E k \in Kinds : cb[k] = c
        BY DEF Resumers
      <4>2. \A k \in Kinds : cb'[k] = c <=> cb[k] = c
        BY <1>1, <2>4, <3>2
      <4>3. conn'[c] = conn[c]
        BY <1>5, <2>6, <3>2
      <4> QED BY <4>1, <4>2, <4>3
    <3> QED BY <3>1, <3>2
  <2>10. \A j, k \in Kinds : cb'[j] = cb'[k] /\ cb'[j] # NoConn => j = k
    BY <2>4 DEF Resumers
  <2>11. \A c \in Conns : /\ conn'[c] \in {"none", "reading"} => asked'[c] = "nothing"
                          /\ conn'[c] \in {"none", "reading", "waiting"} => answer'[c] = "none"
                          /\ conn'[c] = "writing" => answer'[c] # "none"
    BY <1>2, <1>5, <2>3, <2>6 DEF Resumers
  <2> QED BY <2>8, <2>9, <2>10, <2>11 DEF Resumers
<1> QED BY <1>6, <1>7, <1>8

-----------------------------------------------------------------------------
(***************************************************************************)
(* The invariant                                                           *)
(***************************************************************************)

LEMMA ServiceInitially ==
  ASSUME ServiceInit
  PROVE  HttpInv /\ Resumers
<1>1. NoConn \notin Conns
  BY ConnAssumption
<1>2. ready = <<>> /\ accepting = TRUE /\ conn = [c \in Conns |-> "none"]
      /\ Len(ready) = 0 /\ ready \in Seq(Completed) /\ 1..0 = {}
  BY DEF ServiceInit, HttpInit
<1>3. HttpInv
  BY <1>2 DEF HttpInv, HttpTypeOK, OnConnection, OneOperation
<1>4. Resumers
  BY <1>1, <1>2 DEF ServiceInit, Init, MgmtInit, Resumers
<1> QED BY <1>3, <1>4

LEMMA ServiceNextStep ==
  ASSUME HttpInv, Resumers, MgmtTypeOK, [ServiceNext]_serviceVars
  PROVE  HttpInv' /\ Resumers'
<1>1. CASE UNCHANGED httpVars /\ UNCHANGED <<cb, asked, answer>>
  BY <1>1, ManagerUnmoved
     DEF httpVars, HttpInv, HttpTypeOK, OnConnection, OneOperation
<1>2. CASE PollHttp
  BY <1>2, PollHttpStep
<1>3. CASE PollRequest
  BY <1>3, PollRequestStep
<1>4. CASE HandleResponses
  BY <1>4, HandleResponsesStep
<1>5. CASE Network /\ UNCHANGED vars
  BY <1>5, NetworkStep
<1>6. CASE (MgmtDequeue \/ MgmtReturn) /\ UNCHANGED httpVars
  BY <1>1, <1>6 DEF MgmtDequeue, MgmtReturn
<1>7. CASE (GenStep \/ TimePasses) /\ UNCHANGED httpVars
  BY <1>1, <1>7 DEF GenStep, TimePasses, mgmtVars
<1>8. CASE UNCHANGED serviceVars
  BY <1>1, <1>8 DEF serviceVars, vars, mgmtVars
<1> QED BY <1>2, <1>3, <1>4, <1>5, <1>6, <1>7, <1>8 DEF ServiceNext, Manage

LEMMA ServiceInvariance == ServiceSpec => []TypeOK /\ [](HttpInv /\ Resumers)
<1>1. ServiceSpec => []TypeOK
  BY ServiceImplementsProgram, ProgramTypeCorrect, PTL
<1>2. ServiceInit => HttpInv /\ Resumers
  BY ServiceInitially
<1>3. TypeOK /\ (HttpInv /\ Resumers) /\ [ServiceNext]_serviceVars => (HttpInv /\ Resumers)'
  BY ServiceNextStep DEF TypeOK
<1> QED BY <1>1, <1>2, <1>3, PTL DEF ServiceSpec

\* http_server.cpp beside the manager: all variables keep their types.
THEOREM ServiceTypeCorrect == ServiceSpec => []ServiceTypeOK
<1>1. TypeOK /\ HttpInv => ServiceTypeOK
  BY DEF HttpInv, ServiceTypeOK
<1> QED BY <1>1, ServiceInvariance, PTL

\* The callbacks handed from http_server.cpp to manager.cpp: a coroutine that
\* waits for an answer will be resumed by one callback and no other, and one that
\* waits for the network by one completed operation.
THEOREM ServiceOneResumer == ServiceSpec => []OneResumer
<1>1. HttpInv /\ Resumers => OneResumer
  BY DEF HttpInv, Resumers, OneResumer
<1> QED BY <1>1, ServiceInvariance, PTL

-----------------------------------------------------------------------------
(***************************************************************************)
(* From being accepted to being closed                                     *)
(***************************************************************************)

\* What the step of a coroutine, and of the answer it waits for, comes to.
Lives(c) ==
  /\ conn'[c] = conn[c] \/ <<conn[c], conn'[c]>> \in Moves
  /\ answer'[c] # answer[c] <=> conn[c] # "writing" /\ conn'[c] = "writing"

LEMMA PollHttpLives ==
  ASSUME HttpInv, PollHttp, NEW c \in Conns
  PROVE  Lives(c)
<1>1. answer' = answer
  BY DEF PollHttp, PollNothing
<1>2. conn \in [Conns -> {"none", "reading", "waiting", "writing", "closed"}] /\ NoConn \notin Conns
  BY ConnAssumption DEF HttpInv, HttpTypeOK
<1>3. ASSUME NEW op, Takes(op)
      PROVE  WaitsFor(Head(ready), conn) /\ Head(ready).op = op
             /\ (Head(ready).on = NoConn <=> op = "accept" /\ ~Head(ready).ok)
  <2>1. 1 \in 1..Len(ready) /\ Head(ready) = ready[1]
    BY <1>3, TailOfReady DEF Takes, HttpInv
  <2> QED BY <1>3, <2>1 DEF Takes, OneOperation, OnConnection, HttpInv
<1>4. CASE AcceptConnections
  <2>1. c = Head(ready).on => conn[c] = "none"
    BY <1>2, <1>3, <1>4 DEF AcceptConnections, WaitsFor
  <2>2. conn'[c] = IF c = Head(ready).on THEN "reading" ELSE conn[c]
    BY <1>4 DEF AcceptConnections
  <2> QED BY <1>1, <2>1, <2>2 DEF Lives, Moves
<1>5. CASE ReceiveFails
  <2>1. c = Head(ready).on => conn[c] = "reading"
    BY <1>3, <1>5 DEF ReceiveFails, WaitsFor
  <2>2. conn'[c] = IF c = Head(ready).on THEN "closed" ELSE conn[c]
    BY <1>2, <1>5 DEF ReceiveFails
  <2> QED BY <1>1, <2>1, <2>2 DEF Lives, Moves
<1>6. CASE FinishRequest
  <2>1. c = Head(ready).on => conn[c] = "writing"
    BY <1>3, <1>6 DEF FinishRequest, WaitsFor
  <2>2. conn'[c] = IF c = Head(ready).on THEN "closed" ELSE conn[c]
    BY <1>2, <1>6 DEF FinishRequest
  <2> QED BY <1>1, <2>1, <2>2 DEF Lives, Moves
<1>7. CASE UNCHANGED httpVars
  BY <1>1, <1>7 DEF httpVars, Lives
<1> QED BY <1>4, <1>5, <1>6, <1>7 DEF PollHttp

LEMMA PollRequestLives ==
  ASSUME HttpInv, MgmtTypeOK, PollRequest, NEW c \in Conns
  PROVE  Lives(c)
<1>1. PICK d \in Conns, t \in Targets : OnHttpRequest(d, t) /\ GetResponse(d, d \in Called)
  BY DEF PollRequest
<1>2. conn[d] = "reading"
  <2>1. 1 \in 1..Len(ready) /\ Head(ready) = ready[1]
    BY <1>1, TailOfReady DEF GetResponse, Takes, HttpInv
  <2> QED BY <1>1, <2>1 DEF GetResponse, Takes, OneOperation, WaitsFor, HttpInv
<1>3. conn'[c] = IF c # d THEN conn[c] ELSE IF d \in Called THEN "writing" ELSE "waiting"
  BY <1>1 DEF GetResponse, HttpInv, HttpTypeOK
<1>4. d \in Called <=> answer'[d] # answer[d]
  BY DEF Called
<1>5. c # d => answer'[c] = answer[c]
  BY <1>1 DEF OnHttpRequest, Forward, AnswerNow, MgmtTypeOK
<1> QED BY <1>2, <1>3, <1>4, <1>5 DEF Lives, Moves

LEMMA HandleResponsesLives ==
  ASSUME Resumers, MgmtTypeOK, HandleResponses, NEW c \in Conns
  PROVE  Lives(c)
<1> DEFINE msg == Head(mgmtBatch)
<1>1. conn'[c] = IF answer'[c] # answer[c] THEN "writing" ELSE conn[c]
  BY DEF HandleResponses, Resume, Called
<1>2. answer'[c] # answer[c] => conn[c] = "waiting"
  <2>1. CASE msg.kind = "report"
    BY <2>1 DEF HandleResponses, MgmtHandle
  <2>2. CASE OnResponse(msg)
    <3>1. msg \in Response \cup Report
      BY HeadTailProperties DEF HandleResponses, MgmtHandle, MgmtTypeOK
    <3>2. answer'[c] # answer[c] => c = cb[msg.kind]
      BY <2>2 DEF OnResponse
    <3>3. msg.kind \in Kinds \/ msg.kind = "report"
      BY <3>1 DEF Response, Report
    <3> HIDE DEF msg
    <3>4. CASE msg.kind \in Kinds
      BY <3>2, <3>4 DEF Resumers
    <3>5. CASE msg.kind = "report"
      BY <2>1, <3>5
    <3> QED BY <3>3, <3>4, <3>5
  <2> QED BY <2>1, <2>2 DEF HandleResponses, MgmtHandle
<1> QED BY <1>1, <1>2 DEF Lives, Moves

LEMMA StepLives ==
  ASSUME HttpInv, Resumers, MgmtTypeOK, [ServiceNext]_serviceVars, NEW c \in Conns
  PROVE  Lives(c)
<1>1. CASE UNCHANGED <<conn, answer>>
  BY <1>1 DEF Lives
<1>2. CASE Manage
  BY <1>1, <1>2, PollHttpLives, PollRequestLives, HandleResponsesLives
     DEF Manage, MgmtDequeue, MgmtReturn, httpVars
<1>3. CASE (GenStep \/ TimePasses) /\ UNCHANGED httpVars
  BY <1>1, <1>3 DEF GenStep, TimePasses, mgmtVars, httpVars
<1>4. CASE Network /\ UNCHANGED vars
  BY <1>1, <1>4 DEF Network, AcceptFails, Connect, RequestArrives, ResponseLeaves, vars, mgmtVars
<1>5. CASE UNCHANGED serviceVars
  BY <1>1, <1>5 DEF serviceVars, vars, mgmtVars, httpVars
<1> QED BY <1>2, <1>3, <1>4, <1>5 DEF ServiceNext

\* A connection is accepted, read, answered, written and closed in this order, and the
\* manager's callback resumes its coroutine once, while that waits for it.
THEOREM ServiceConnectionLife == ServiceSpec => ConnectionLife
<1>1. TypeOK /\ (HttpInv /\ Resumers) /\ [ServiceNext]_serviceVars
        => [\A c \in Conns :
              /\ conn'[c] = conn[c] \/ <<conn[c], conn'[c]>> \in Moves
              /\ answer'[c] # answer[c] <=> conn[c] # "writing" /\ conn'[c] = "writing"
           ]_serviceVars
  BY StepLives DEF Lives, TypeOK
<1> QED BY <1>1, ServiceInvariance, PTL DEF ServiceSpec, ConnectionLife

\* Behind its HTTP server, too, the program is to its clients the one server that takes
\* their requests in turn.
THEOREM ServiceImplementsControl == ServiceSpec => ImplementsControl
BY ServiceImplementsProgram, ProgramImplementsControl, PTL
=============================================================================
