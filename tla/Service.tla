------------------------------- MODULE Service -------------------------------
(***************************************************************************)
(* The program together with its HTTP server: how a client's connection    *)
(* fares from being accepted to being closed, while its request makes its  *)
(* way through both threads.                                               *)
(*                                                                         *)
(* Each step of the management thread is the step that TrafficGenerator    *)
(* knows and what it does to the coroutines.                               *)
(***************************************************************************)
EXTENDS TrafficGenerator, HttpServer

serviceVars == <<vars, httpVars>>

ServiceInit == Init /\ HttpInit

\* The connections whose callback this step calls.
Called == {c \in Conns : answer'[c] # answer[c]}

\* poll_one() with nothing to do, or with a handler that asks for nothing.
PollHttp ==
  /\ PollNothing
  /\ \/ ready = <<>> /\ UNCHANGED httpVars
     \/ AcceptConnections \/ ReceiveFails \/ FinishRequest

\* poll_one() with a request that has arrived: process_request() hands it to
\* on_http_request().
PollRequest ==
  \E c \in Conns, t \in Targets :
    OnHttpRequest(c, t) /\ GetResponse(c, c \in Called)

\* Mutant: the callback is kept for later, and the coroutine is not resumed.
HandleResponsesUnresumed == MgmtHandle /\ UNCHANGED httpVars

\* on_inc_msg(): calling a stored callback resumes its coroutine.
HandleResponses == MgmtHandle /\ Resume(Called)

Manage ==
  \/ PollHttp \/ PollRequest \/ HandleResponses
  \/ (MgmtDequeue \/ MgmtReturn) /\ UNCHANGED httpVars

ServiceNext ==
  /\ ~aborted
  /\ \/ Manage /\ UNCHANGED genVars
     \/ (GenStep \/ TimePasses) /\ UNCHANGED httpVars
     \/ Network /\ UNCHANGED vars

ServiceSpec == ServiceInit /\ [][ServiceNext]_serviceVars

\* Both loops spin and time passes, as in TrafficGenerator.  The network takes
\* a response off the server's hands or reports that it cannot; clients may
\* connect and ask, or leave it.
ServiceFairSpec ==
  /\ ServiceSpec
  /\ WF_serviceVars(~aborted /\ Manage /\ UNCHANGED genVars)
  /\ WF_serviceVars(~aborted /\ GenStep /\ UNCHANGED httpVars)
  /\ WF_serviceVars(~aborted /\ TimePasses /\ UNCHANGED httpVars)
  /\ \A c \in Conns :
       WF_serviceVars(~aborted /\ (\E ok \in BOOLEAN : ResponseLeaves(c, ok)) /\ UNCHANGED vars)

-----------------------------------------------------------------------------
(***************************************************************************)
(* Properties                                                              *)
(***************************************************************************)

\* The types of all variables.
ServiceTypeOK == TypeOK /\ HttpTypeOK

\* The coroutines being where `at` says, one of them waits for this completed operation.
WaitsFor(done, at) ==
  \/ done.op = "accept" /\ (~done.ok \/ at[done.on] = "none")
  \/ done.op = "read" /\ at[done.on] = "reading"
  \/ done.op = "write" /\ at[done.on] = "writing"

\* A completed operation finds the coroutine that waits for it; there is one accept
\* at a time, and one operation of each connection.
OneOperation ==
  /\ \A i \in 1..Len(ready) : WaitsFor(ready[i], conn)
  /\ \A i, j \in 1..Len(ready) :
       \/ ready[i].on = ready[j].on
       \/ ready[i].op = "accept" /\ ready[j].op = "accept"
       => i = j
  /\ accepting <=> \A i \in 1..Len(ready) : ready[i].op # "accept"

\* Of each coroutine's wait there is one end: a coroutine waits for an answer
\* exactly while one callback of the manager would resume it, none is forgotten,
\* resumed twice or resumed after it has gone; and none writes a response before
\* it has been given one.
OneResumer ==
  /\ OneOperation
  /\ \A c \in Conns : conn[c] = "waiting" <=> \E k \in Kinds : cb[k] = c
  /\ \A j, k \in Kinds : cb[j] = cb[k] /\ cb[j] # NoConn => j = k
  /\ \A c \in Conns : conn[c] \in {"none", "reading"} => asked[c] = "nothing"
  /\ \A c \in Conns : conn[c] \in {"none", "reading", "waiting"} => answer[c] = "none"
  /\ \A c \in Conns : conn[c] = "writing" => answer[c] # "none"

\* What a coroutine may do in one step.
Moves == {<<"none", "reading">>, <<"reading", "waiting">>, <<"reading", "writing">>,
          <<"reading", "closed">>, <<"waiting", "writing">>, <<"writing", "closed">>}

\* A coroutine never goes back, and it begins to write in the very step in which the
\* manager answers its request: no callback comes twice, before the request has been
\* read or after the connection has gone, and nothing is written without an answer.
ConnectionLife ==
  [][\A c \in Conns : /\ conn'[c] = conn[c] \/ <<conn[c], conn'[c]>> \in Moves
                      /\ answer'[c] # answer[c] <=> conn[c] # "writing" /\ conn'[c] = "writing"
    ]_serviceVars

\* Connection c's request has arrived.
Arrived(c) == \E i \in 1..Len(ready) : ready[i].op = "read" /\ ready[i].on = c

\* A connection whose request has arrived is answered and closed in the end,
\* unless its answer was thrown away at the full response queue, or closed
\* without an answer if reading it has failed.
ConnectionsEnd == \A c \in Conns : Arrived(c) ~> (conn[c] = "closed" \/ asked[c] \in lost)

\* The server goes on accepting, whatever becomes of one connection.
AcceptsAgain == []<>accepting
=============================================================================
