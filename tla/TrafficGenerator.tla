-------------------------- MODULE TrafficGenerator -------------------------
(***************************************************************************)
(* The running program: the management loop and the generation loop of     *)
(* app/application.cpp, each on a thread of its own, joined by their two   *)
(* message queues.                                                         *)
(***************************************************************************)
EXTENDS MgmtManager, GenManager

vars == <<channelVars, mgmtVars, genVars>>

Init == ChannelsInit /\ MgmtInit /\ GenInit

MgmtStep == MgmtNext /\ UNCHANGED genVars
GenStep == GenLoop /\ UNCHANGED mgmtVars
TimePasses == Expire /\ UNCHANGED mgmtVars

Next == ~aborted /\ (MgmtStep \/ GenStep \/ TimePasses)

\* Both loops spin (run_loop calls process_events again and again), and time
\* goes on.  No client is obliged to ask for anything.
Fairness == /\ WF_vars(~aborted /\ MgmtLoop /\ UNCHANGED genVars)
            /\ WF_vars(~aborted /\ GenStep)
            /\ WF_vars(~aborted /\ TimePasses)

Spec == Init /\ [][Next]_vars

FairSpec == Spec /\ Fairness

-----------------------------------------------------------------------------
(***************************************************************************)
(* Safety                                                                  *)
(***************************************************************************)

\* The types of all variables.
TypeOK ==
  /\ requests \in Seq(Request)
  /\ responses \in Seq(Response \cup Report)
  /\ lost \in SUBSET Kinds
  /\ aborted \in BOOLEAN
  /\ MgmtTypeOK /\ GenTypeOK

\* No TG_ENFORCE takes the process down, if it aborts on a condition that does not
\* hold: a response always finds its callback, an idle generation thread has
\* neither packets nor timers left, and stopping a generation returns every timer.
NoAbort == ~aborted

\* Where the program comes to a TG_ENFORCE its condition holds, whichever way the
\* macro reads: a response finds its callback; while no generation runs, as after
\* stop_generation() and before a start, there are neither generators nor timers;
\* and the idle thread has no packets.  So the process is taken down only if the
\* macro aborts on conditions that hold.
EnforcedHold ==
  /\ mgmtPc = "handle" /\ mgmtBatch # <<>> /\ Head(mgmtBatch).kind # "report"
       => cb[Head(mgmtBatch).kind] # NoConn
  /\ ~Started => flows = {}
  /\ genPc = "handle" /\ genBatch = <<>> /\ ~Started => txPkts = 0
  /\ aborted => AbortsWhen

\* On their way between the threads, in the order they will be handled.
Asking == genBatch \o requests
Answering == mgmtBatch \o responses

Unique(msgs, kind) ==
  \A i, j \in 1..Len(msgs) : msgs[i].kind = kind /\ msgs[j].kind = kind => i = j

InFlight(msgs, kind) == \E i \in 1..Len(msgs) : msgs[i].kind = kind

AllFrom(msgs, kind, c) == \A i \in 1..Len(msgs) : msgs[i].kind = kind => msgs[i].from = c

\* Of kind k there is at most one request, answer or dropped answer, and if
\* there is one then `client` waits for it.
OnePlace(k, asking, answering, dropped, client) ==
  /\ client # NoConn <=> InFlight(asking, k) \/ InFlight(answering, k) \/ dropped
  /\ ~(InFlight(asking, k) /\ InFlight(answering, k))
  /\ dropped => ~InFlight(asking, k) /\ ~InFlight(answering, k)
  /\ Unique(asking, k) /\ Unique(answering, k)
  /\ AllFrom(asking, k, client) /\ AllFrom(answering, k, client)

\* The callback of a kind is set exactly while one request of the kind is under
\* way, and it is then in one place: asked for, answered, or its response thrown
\* away at the full queue.  Whatever is under way came from the connection whose
\* callback is waiting, so matching responses to callbacks by kind alone never
\* answers the wrong client.
OneInFlight == \A k \in Kinds : OnePlace(k, Asking, Answering, k \in lost, cb[k])

\* "Failed to enqueue request" is never answered: however clients hurry, the
\* request queue holds at most one request of each kind.
RequestsAlwaysFit == \A c \in Conns : answer[c] # "full"

\* While no generation runs no timer is held, and no packet is left over when an
\* iteration of the generation loop begins.
IdleIsClean == /\ ~Started => flows = {} /\ due = {} /\ txPkts = 0
               /\ genPc = "dequeue" => txPkts = 0 /\ due = {}

\* Connection a's request was put on the queue before connection b's.
SentBefore(a, b) ==
  \E i, j \in 1..Len(sent) : i < j /\ sent[i] = a /\ sent[j] = b

\* A client that is told its stop request is done will not see a generation go
\* on that was asked for before its request was accepted.
StopEndsEarlierStarts ==
  \A c \in Conns : asked[c] = "stop" /\ answer[c] = "ok" /\ Started => ~SentBefore(running, c)

\* A client that is told its start request has failed has started nothing.
FailedStartsNothing == \A c \in Conns : answer[c] \notin {"none", "ok"} => running # c

-----------------------------------------------------------------------------
(***************************************************************************)
(* What the program looks like to its clients                              *)
(***************************************************************************)

Waiting(c) == asked[c] # "nothing" /\ answer[c] = "none"

\* How far c's request has come: it has been answered, waits to be handled, has
\* been handled and its response is on the way, or the response was thrown away.
Stage(c) ==
  LET Comes(ok) == \E i \in 1..Len(Answering) :
        Answering[i].kind # "report" /\ Answering[i].from = c /\ Answering[i].ok = ok
  IN CASE answer[c] # "none" -> answer[c]
       [] answer[c] = "none" /\ asked[c] = "nothing" -> "new"
       [] Waiting(c) /\ (\E i \in 1..Len(Asking) : Asking[i].from = c) -> "asked"
       [] Waiting(c) /\ Comes(TRUE) -> "done"
       [] Waiting(c) /\ Comes(FALSE) -> "denied"
       [] OTHER -> "lost"

ToClients == INSTANCE Control WITH
  Clients <- Conns, Nobody <- NoConn,
  kind <- asked, stage <- [c \in Conns |-> Stage(c)],
  queue <- [i \in 1..Len(Asking) |-> Asking[i].from], current <- running

\* Two threads, two queues and one callback per kind of request look to the
\* clients like one object that serves them one after the other: whatever the
\* interleaving, a request takes effect once, after those accepted before it, and
\* the outcome is what its own client is told.
ImplementsControl == ToClients!Spec

Contract == INSTANCE FlowTimers WITH Flow <- Flows

\* Requests and the end of the duration reach the flows between two passes of
\* rte_timer_manage() only, and no generation begins before the timers of the
\* last one have been returned.
ImplementsTimers == Contract!Spec

\* A client that has been answered is not answered again: a callback is called
\* once, although all that ties a response to it is the kind of the request.
AnsweredOnce == [][\A c \in Conns : answer[c] # "none" => answer'[c] = answer[c]]_vars

-----------------------------------------------------------------------------
(***************************************************************************)
(* Liveness                                                                *)
(***************************************************************************)

\* Every client is answered in the end, unless a response of its kind was thrown
\* away at the full response queue.
AnsweredUnlessLost == \A c \in Conns : Waiting(c) ~> (~Waiting(c) \/ asked[c] \in lost)

\* A generation does not run for ever: its time runs out if nobody stops it.
GenerationEnds == Started ~> ~Started

\* gen/manager.cpp promises that a stop request "is always fully processed so
\* that the summary stats can be reported via the response".
StopIsReported == \A c \in Conns : Waiting(c) /\ asked[c] = "stop" ~> ~Waiting(c)
=============================================================================
