---------------------------- MODULE MgmtManager ----------------------------
(***************************************************************************)
(* mgmt/manager.cpp: the management thread.  One iteration of its loop is  *)
(* io_ctx_.poll_one(), which may run the handler of one HTTP request, and  *)
(* then one dequeue of the generation thread's messages.                   *)
(***************************************************************************)
EXTENDS Channels

VARIABLES
  mgmtPc,     \* "poll", "dequeue" or "handle"
  mgmtBatch,  \* the messages dequeued and not visited yet
  cb,         \* start_cb_, stop_cb_, stats_cb_: the connection to answer
  asked,      \* history: what each connection has asked for
  answer,     \* what each connection has been answered
  sent        \* history: the connections whose request was enqueued, in order

mgmtVars == <<mgmtPc, mgmtBatch, cb, asked, answer, sent>>

Targets == Kinds \cup {"other"}

\* 200; 412 from the generation thread; and the answers given at once: 412 as
\* one is in progress, 500 as the queue is full, 400 and 404.
Answers == {"ok", "failed", "busy", "full", "bad", "unknown"}

MgmtInit ==
  /\ mgmtPc = "poll" /\ mgmtBatch = <<>>
  /\ cb = [k \in Kinds |-> NoConn]
  /\ asked = [c \in Conns |-> "nothing"]
  /\ answer = [c \in Conns |-> "none"]
  /\ sent = <<>>

\* cb(status, body) before the request handler returns.
AnswerNow(c, a) ==
  /\ answer' = [answer EXCEPT ![c] = a]
  /\ UNCHANGED <<requests, cb, sent>>

\* Mutant: a second request of a kind is let through.
ForwardAnyway(c, kind) ==
  IF IsFull(requests, OutCapacity)
    THEN AnswerNow(c, "full")
    ELSE /\ requests' = Append(requests, [kind |-> kind, from |-> c])
         /\ cb' = [cb EXCEPT ![kind] = c]
         /\ sent' = Append(sent, c)
         /\ UNCHANGED answer

\* Mutant: the request is enqueued, but its callback is not stored.
ForwardForgetsCallback(c, kind) ==
  IF cb[kind] # NoConn THEN AnswerNow(c, "busy")
  ELSE IF IsFull(requests, OutCapacity) THEN AnswerNow(c, "full")
  ELSE /\ requests' = Append(requests, [kind |-> kind, from |-> c])
       /\ sent' = Append(sent, c)
       /\ UNCHANGED <<answer, cb>>

\* The common part of on_req_start_gen, on_req_stop_gen and on_req_get_stats.
Forward(c, kind) ==
  IF cb[kind] # NoConn THEN AnswerNow(c, "busy")
  ELSE IF IsFull(requests, OutCapacity) THEN AnswerNow(c, "full")
  ELSE /\ requests' = Append(requests, [kind |-> kind, from |-> c])
       /\ cb' = [cb EXCEPT ![kind] = c]
       /\ sent' = Append(sent, c)
       /\ UNCHANGED answer

\* on_http_request: connection c's request has been read.  A start request
\* with a bad configuration is refused before anything is enqueued, but only
\* when no other start is in progress.
OnHttpRequest(c, target) ==
  /\ mgmtPc = "poll" /\ asked[c] = "nothing"
  /\ mgmtPc' = "dequeue"
  /\ asked' = [asked EXCEPT ![c] = target]
  /\ \/ target = "other" /\ AnswerNow(c, "unknown")
     \/ target = "start" /\ cb["start"] = NoConn /\ AnswerNow(c, "bad")
     \/ target \in Kinds /\ Forward(c, target)
  /\ UNCHANGED <<mgmtBatch, responses, lost, aborted>>

\* poll_one() runs nothing, or a handler of the HTTP server that leaves the
\* manager alone.
PollNothing ==
  /\ mgmtPc = "poll"
  /\ mgmtPc' = "dequeue"
  /\ UNCHANGED <<mgmtBatch, cb, asked, answer, sent, channelVars>>

MgmtDequeue ==
  /\ mgmtPc = "dequeue"
  /\ \E n \in PopCounts(responses) :
       /\ mgmtBatch' = Front(responses, n)
       /\ responses' = Rest(responses, n)
  /\ mgmtPc' = "handle"
  /\ UNCHANGED <<cb, asked, answer, sent, requests, lost, aborted>>

\* Mutant: the callback is called but not reset.
OnResponseKeepsCallback(msg) ==
  /\ aborted' = EnforceAborts(cb[msg.kind] # NoConn)
  /\ answer' = [c \in Conns |-> IF c = cb[msg.kind] THEN (IF msg.ok THEN "ok" ELSE "failed")
                                ELSE answer[c]]
  /\ UNCHANGED cb

\* on_inc_msg of a response: the waiting connection is answered, and the next
\* request of the kind may come.
OnResponse(msg) ==
  /\ aborted' = EnforceAborts(cb[msg.kind] # NoConn)
  /\ answer' = [c \in Conns |-> IF c = cb[msg.kind] THEN (IF msg.ok THEN "ok" ELSE "failed")
                                ELSE answer[c]]
  /\ cb' = [cb EXCEPT ![msg.kind] = NoConn]

\* One turn of the loop over the batch; a generation_report is ignored.
MgmtHandle ==
  /\ mgmtPc = "handle" /\ mgmtBatch # <<>>
  /\ mgmtBatch' = Tail(mgmtBatch)
  /\ LET msg == Head(mgmtBatch) IN
       IF msg.kind = "report" THEN UNCHANGED <<aborted, answer, cb>> ELSE OnResponse(msg)
  /\ UNCHANGED <<mgmtPc, asked, sent, requests, responses, lost>>

MgmtReturn ==
  /\ mgmtPc = "handle" /\ mgmtBatch = <<>>
  /\ mgmtPc' = "poll"
  /\ UNCHANGED <<mgmtBatch, cb, asked, answer, sent, channelVars>>

MgmtLoop == PollNothing \/ MgmtDequeue \/ MgmtHandle \/ MgmtReturn

MgmtNext == MgmtLoop \/ \E c \in Conns, t \in Targets : OnHttpRequest(c, t)

MgmtTypeOK ==
  /\ mgmtPc \in {"poll", "dequeue", "handle"}
  /\ mgmtBatch \in Seq(Response \cup Report)
  /\ cb \in [Kinds -> Conns \cup {NoConn}]
  /\ asked \in [Conns -> Targets \cup {"nothing"}]
  /\ answer \in [Conns -> Answers \cup {"none"}]
  /\ sent \in Seq(Conns)
=============================================================================
