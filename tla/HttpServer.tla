----------------------------- MODULE HttpServer -----------------------------
(***************************************************************************)
(* mgmt/priv/http_server.cpp: one coroutine accepts connections, and each  *)
(* connection has a coroutine that reads one request, hands it over and    *)
(* waits for the answer, writes that, and ends with the connection.        *)
(*                                                                         *)
(* Operations that have completed wait in the io_context; poll_one() runs  *)
(* the handler of the oldest, which resumes its coroutine until the        *)
(* coroutine waits again.  Of Channels this module needs the connections   *)
(* only.                                                                   *)
(***************************************************************************)
EXTENDS Channels

VARIABLES
  accepting,  \* async_accept() is in progress
  conn,       \* where the coroutine of each connection is
  ready       \* the operations that have completed, oldest first

httpVars == <<accepting, conn, ready>>

\* A completed operation; an accept that has failed is on no connection.
Completed == [op : {"accept", "read", "write"}, on : Conns \cup {NoConn}, ok : BOOLEAN]

\* start_running()
HttpInit ==
  /\ accepting = TRUE
  /\ conn = [c \in Conns |-> "none"]
  /\ ready = <<>>
-----------------------------------------------------------------------------
(***************************************************************************)
(* External: what clients and the network do                               *)
(***************************************************************************)

\* An operation completes, once.
Complete(op, c, ok) ==
  /\ \A i \in 1..Len(ready) : ready[i].on # c
  /\ ready' = Append(ready, [op |-> op, on |-> c, ok |-> ok])

Connect(c) ==
  /\ accepting /\ conn[c] = "none"
  /\ accepting' = FALSE
  /\ Complete("accept", c, TRUE)
  /\ UNCHANGED conn

AcceptFails ==
  /\ accepting
  /\ accepting' = FALSE
  /\ Complete("accept", NoConn, FALSE)
  /\ UNCHANGED conn

\* The whole request has arrived; or the client has gone, or sent what is no
\* request or does not fit into 1024 bytes.
RequestArrives(c, ok) ==
  /\ conn[c] = "reading" /\ Complete("read", c, ok)
  /\ UNCHANGED <<accepting, conn>>

\* The response is in the hands of the network; or the client has gone.
ResponseLeaves(c, ok) ==
  /\ conn[c] = "writing" /\ Complete("write", c, ok)
  /\ UNCHANGED <<accepting, conn>>

Network == \/ AcceptFails
           \/ \E c \in Conns, ok \in BOOLEAN :
                Connect(c) \/ RequestArrives(c, ok) \/ ResponseLeaves(c, ok)
-----------------------------------------------------------------------------
(***************************************************************************)
(* Handlers, run by poll_one()                                             *)
(***************************************************************************)

\* poll_one() takes the oldest completed operation, which is this one.
Takes(op) ==
  /\ ready # <<>> /\ Head(ready).op = op
  /\ ready' = Tail(ready)

\* Mutant: the coroutine gives up at the first error.
AcceptConnectionsOnce ==
  /\ Takes("accept")
  /\ accepting' = Head(ready).ok
  /\ conn' = [c \in Conns |-> IF c = Head(ready).on THEN "reading" ELSE conn[c]]

\* accept_connections(): a connection gets its coroutine, which begins to read;
\* an error is logged.  In both cases the next connection is accepted.
AcceptConnections ==
  /\ Takes("accept")
  /\ accepting' = TRUE
  /\ conn' = [c \in Conns |-> IF c = Head(ready).on THEN "reading" ELSE conn[c]]

\* Mutant: a connection that has failed while reading is answered, too.
ReceiveFailsAnswers ==
  /\ Takes("read") /\ ~Head(ready).ok
  /\ conn' = [conn EXCEPT ![Head(ready).on] = "writing"]
  /\ UNCHANGED accepting

\* process_request() after a failed async_read: co_return.
ReceiveFails ==
  /\ Takes("read") /\ ~Head(ready).ok
  /\ conn' = [conn EXCEPT ![Head(ready).on] = "closed"]
  /\ UNCHANGED accepting

\* process_request() goes on to get_response(), which hands the request of
\* connection c over.  `called` tells whether the callback that goes with it
\* has been called before the user handler returned.
GetResponse(c, called) ==
  /\ Takes("read") /\ Head(ready).ok /\ Head(ready).on = c
  /\ conn' = [conn EXCEPT ![c] = IF called THEN "writing" ELSE "waiting"]
  /\ UNCHANGED accepting

\* The callbacks of the connections S are called: their coroutines are resumed
\* at once and begin to write.
Resume(S) ==
  /\ conn' = [c \in Conns |-> IF c \in S THEN "writing" ELSE conn[c]]
  /\ UNCHANGED <<accepting, ready>>

\* process_request() after async_write: whether it has failed or not, the end
\* of the coroutine destroys the socket.
FinishRequest ==
  /\ Takes("write")
  /\ conn' = [conn EXCEPT ![Head(ready).on] = "closed"]
  /\ UNCHANGED accepting

HttpTypeOK ==
  /\ accepting \in BOOLEAN
  /\ conn \in [Conns -> {"none", "reading", "waiting", "writing", "closed"}]
  /\ ready \in Seq(Completed)
=============================================================================
