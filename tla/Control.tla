------------------------------- MODULE Control -------------------------------
(***************************************************************************)
(* What the program promises to the clients that control it: their         *)
(* requests are served one at a time in the order in which they were       *)
(* accepted.  A request takes effect at one moment, between being asked    *)
(* and being answered, and its client alone is told what came of it, once. *)
(* The two threads, the queues and the callbacks are not seen here; only   *)
(* that an answer may get lost, and that a kind of request is then refused *)
(* for ever.                                                               *)
(***************************************************************************)
EXTENDS Naturals, Sequences

CONSTANTS Clients,  \* each asks once
          Nobody    \* "no client"

VARIABLES
  kind,     \* what each client has asked for
  stage,    \* how far its request has come
  queue,    \* the clients whose requests have been accepted and not served
  current   \* whose start request began the generation that runs

vars == <<kind, stage, queue, current>>

Kinds == {"start", "stop", "stats"}

Init == /\ kind = [c \in Clients |-> "nothing"]
        /\ stage = [c \in Clients |-> "new"]
        /\ queue = <<>> /\ current = Nobody

\* A client waits from being accepted to being told; without its answer, for ever.
Waits(c) == stage[c] \in {"asked", "done", "denied", "lost"}

Busy(k) == \E c \in Clients : Waits(c) /\ kind[c] = k

\* Client c asks for k, which takes it to stage s.
Asks(c, k, s) == /\ kind[c] = "nothing" /\ stage[c] = "new"
                 /\ kind' = [kind EXCEPT ![c] = k]
                 /\ stage' = [stage EXCEPT ![c] = s]

Accept(c, k) == /\ Asks(c, k, "asked") /\ ~Busy(k)
                /\ queue' = Append(queue, c)
                /\ UNCHANGED current

\* Only another request of the kind, or a mistake of the client, is a reason.
Refuse(c) == /\ \/ \E k \in Kinds : Asks(c, k, "busy") /\ Busy(k)
                \/ Asks(c, "start", "bad") /\ ~Busy("start")
                \/ Asks(c, "other", "unknown")
             /\ UNCHANGED <<queue, current>>

\* What serving client c does to the generation, and what c is to be told.
Effect(c, outcome) ==
  \/ kind[c] = "start" /\ outcome = "done" /\ current = Nobody /\ current' = c
  \/ kind[c] = "start" /\ outcome = "denied" /\ UNCHANGED current
  \/ kind[c] = "stop" /\ outcome = "done" /\ current' = Nobody
  \/ kind[c] = "stats" /\ outcome = "done" /\ UNCHANGED current

Serve == /\ queue # <<>> /\ queue' = Tail(queue)
         /\ \E outcome \in {"done", "denied"} :
              /\ Effect(Head(queue), outcome)
              /\ \E s \in {outcome, "lost"} : stage' = [stage EXCEPT ![Head(queue)] = s]
         /\ UNCHANGED kind

Tell(c) == /\ kind[c] # "nothing"
           /\ \/ stage[c] = "done" /\ stage' = [stage EXCEPT ![c] = "ok"]
              \/ stage[c] = "denied" /\ stage' = [stage EXCEPT ![c] = "failed"]
           /\ UNCHANGED <<kind, queue, current>>

TimeUp == current # Nobody /\ current' = Nobody /\ UNCHANGED <<kind, stage, queue>>

Next == \/ Serve \/ TimeUp
        \/ \E c \in Clients : Refuse(c) \/ Tell(c) \/ \E k \in Kinds : Accept(c, k)

Spec == Init /\ [][Next]_vars
=============================================================================
