-------------------------- MODULE EventScheduler --------------------------
(***************************************************************************)
(* gen/priv/event_scheduler.h and the DPDK timers it works with: the       *)
(* events of one generation's flows, each with an rte_timer of its own.    *)
(* Everything happens in the generation thread, on the lcore GenLcore; the *)
(* scheduler has been constructed with the application, on MainLcore.      *)
(*                                                                         *)
(* Of a timer this module keeps its status and the lcore in whose list it  *)
(* waits.  rte_timer_stop() and rte_timer_reset() refuse a timer that      *)
(* rte_timer_manage() has taken out of its list to fire it, unless its own *)
(* callback asks.                                                          *)
(***************************************************************************)
EXTENDS Naturals, FiniteSets

CONSTANTS
  Flows,      \* the flows of a generation, one event each
  MainLcore,  \* rte_lcore_id() of the thread that constructs the application
  GenLcore,   \* rte_lcore_id() of the generation thread, cpus[1]
  NoFlow      \* no callback is being executed

ASSUME FlowsAssumption == IsFiniteSet(Flows) /\ NoFlow \notin Flows

VARIABLES
  gen,        \* "idle", "building" while the generators are constructed, "running"
  status,     \* of each flow's timer: "none", "stop", "pending" or "running"
  list,       \* list[l]: the timers in the list of lcore l
  expired,    \* the timers of the lists whose time has come
  runList,    \* the timers the rte_timer_manage() in progress still has to fire
  current,    \* the flow whose callback is being executed
  refused,    \* the flows for which rte_timer_stop() or rte_timer_reset() failed
  cntTimers   \* cnt_timers_

vars == <<gen, status, list, expired, runList, current, refused, cntTimers>>

Lcores == {MainLcore, GenLcore}

\* The flows that have a timer: its memory is allocated.
Held == {f \in Flows : status[f] # "none"}

Init ==
  /\ gen = "idle"
  /\ status = [f \in Flows |-> "none"]
  /\ list = [l \in Lcores |-> {}]
  /\ expired = {} /\ runList = {} /\ current = NoFlow /\ refused = {}
  /\ cntTimers = 0
-----------------------------------------------------------------------------
\* timer_set_config_state(), external: whether a timer may be touched now.
MayConfigure(f) == status[f] # "running" \/ f = current

Unlisted(S) == [l \in Lcores |-> list[l] \ S]

\* lcore_id_, a constant of the scheduler: rte_lcore_id() in its constructor.
LcoreId == MainLcore

\* A request to start: the manager begins to construct the generators.
BeginGeneration ==
  /\ gen = "idle"
  /\ gen' = "building"
  /\ UNCHANGED <<status, list, expired, runList, current, refused, cntTimers>>

\* get_timer() and schedule_single() for a flow of a generator under
\* construction; the flow's event is new, so the timer is not in any list.
SetupEvent(f) ==
  /\ gen = "building" /\ status[f] = "none"
  /\ status' = [status EXCEPT ![f] = "pending"]
  /\ list' = [list EXCEPT ![LcoreId] = @ \cup {f}]
  /\ cntTimers' = cntTimers + 1
  /\ UNCHANGED <<gen, expired, runList, current, refused>>

GenerationBuilt ==
  /\ gen = "building" /\ Held = Flows
  /\ gen' = "running"
  /\ UNCHANGED <<status, list, expired, runList, current, refused, cntTimers>>

\* Mutant: timers are freed without being stopped.
ReturnTimersUnstopped ==
  /\ status' = [f \in Flows |-> "none"]
  /\ cntTimers' = cntTimers - Cardinality(Held)
  /\ UNCHANGED <<list, expired, refused>>

\* Mutant: handles without a timer return one, too.
ReturnTimersUnguarded ==
  /\ refused' = refused \cup {f \in Held : ~MayConfigure(f)}
  /\ list' = Unlisted({f \in Held : MayConfigure(f)})
  /\ expired' = expired \ {f \in Held : MayConfigure(f)}
  /\ status' = [f \in Flows |-> "none"]
  /\ cntTimers' = cntTimers - Cardinality(Flows)

\* ret_timer() of every event, when the handles of the flows are destroyed.
\* A timer that could not be stopped would stay in its list, freed.
ReturnTimers ==
  /\ refused' = refused \cup {f \in Held : ~MayConfigure(f)}
  /\ list' = Unlisted({f \in Held : MayConfigure(f)})
  /\ expired' = expired \ {f \in Held : MayConfigure(f)}
  /\ status' = [f \in Flows |-> "none"]
  /\ cntTimers' = cntTimers - Cardinality(Held)

\* Mutant: the generators built so far are forgotten instead of destroyed.
BuildFailsLeaks ==
  /\ gen = "building"
  /\ gen' = "idle"
  /\ UNCHANGED <<status, list, expired, runList, current, refused, cntTimers>>

\* A generator cannot be constructed; those before it are destroyed.
BuildFails ==
  /\ gen = "building"
  /\ ReturnTimers
  /\ gen' = "idle"
  /\ UNCHANGED <<runList, current>>

\* Mutant: the end of the generation is a timer event as well.
StopGenerationFromCallback ==
  /\ gen = "running"
  /\ ReturnTimers
  /\ gen' = "idle" /\ runList' = {}
  /\ UNCHANGED current

\* stop_generation(), for a request or at the end of the duration; never
\* from a callback, so no rte_timer_manage() is in progress.
StopGeneration ==
  /\ gen = "running" /\ runList = {} /\ current = NoFlow
  /\ ReturnTimers
  /\ gen' = "idle"
  /\ UNCHANGED <<runList, current>>

\* Mutant: of the timers that have expired only one is called back.
ProcessEventsOnce ==
  /\ gen = "running" /\ runList = {} /\ current = NoFlow
  /\ LET ready == list[GenLcore] \cap expired IN
       /\ list' = Unlisted(ready)
       /\ expired' = expired \ ready
       /\ runList' \in {{f} : f \in ready} \cup {r \in {{}} : ready = {}}
       /\ status' = [f \in Flows |-> IF f \in ready THEN "running" ELSE status[f]]
  /\ UNCHANGED <<gen, current, refused, cntTimers>>

\* process_events(), once a microsecond has passed: rte_timer_manage() takes
\* the expired timers out of the list of the lcore it is called on.
ProcessEvents ==
  /\ gen = "running" /\ runList = {} /\ current = NoFlow
  /\ LET ready == list[GenLcore] \cap expired IN
       /\ list' = Unlisted(ready)
       /\ expired' = expired \ ready
       /\ runList' = ready
       /\ status' = [f \in Flows |-> IF f \in ready THEN "running" ELSE status[f]]
  /\ UNCHANGED <<gen, current, refused, cntTimers>>

\* rte_timer_manage() calls back on_event() of flow f.
EnterCallback(f) ==
  /\ f \in runList /\ current = NoFlow
  /\ current' = f /\ runList' = runList \ {f}
  /\ UNCHANGED <<gen, status, list, expired, refused, cntTimers>>

\* schedule_single() as the last thing on_flow_event() does: the timer waits again.
ScheduleAgain ==
  /\ current # NoFlow
  /\ IF MayConfigure(current)
       THEN /\ status' = [status EXCEPT ![current] = "pending"]
            /\ list' = [list EXCEPT ![LcoreId] = @ \cup {current}]
            /\ UNCHANGED refused
       ELSE refused' = refused \cup {current} /\ UNCHANGED <<status, list>>
  /\ current' = NoFlow
  /\ UNCHANGED <<gen, expired, runList, cntTimers>>

\* on_flow_event() without an mbuf: the callback returns, and
\* rte_timer_manage() marks the single-shot timer as stopped.
CallbackGivesUp ==
  /\ current # NoFlow
  /\ status' = [status EXCEPT ![current] = "stop"]
  /\ current' = NoFlow
  /\ UNCHANGED <<gen, list, expired, runList, refused, cntTimers>>

\* External: the time of a waiting timer comes.
Expire(f) ==
  /\ f \notin expired /\ \E l \in Lcores : f \in list[l]
  /\ expired' = expired \cup {f}
  /\ UNCHANGED <<gen, status, list, runList, current, refused, cntTimers>>

Next ==
  \/ BeginGeneration \/ GenerationBuilt \/ BuildFails \/ StopGeneration \/ ProcessEvents
  \/ ScheduleAgain \/ CallbackGivesUp
  \/ \E f \in Flows : SetupEvent(f) \/ EnterCallback(f) \/ Expire(f)

Spec == Init /\ [][Next]_vars

\* The generation thread goes on calling process_events() while a generation
\* runs, a callback returns, and time passes.
Fairness ==
  /\ WF_vars(ProcessEvents) /\ WF_vars(ScheduleAgain \/ CallbackGivesUp)
  /\ \A f \in Flows : WF_vars(EnterCallback(f)) /\ WF_vars(Expire(f))

FairSpec == Spec /\ Fairness
-----------------------------------------------------------------------------
(***************************************************************************)
(* Properties                                                              *)
(***************************************************************************)

\* The types of the scheduler's variables.
TypeOK ==
  /\ gen \in {"idle", "building", "running"}
  /\ status \in [Flows -> {"none", "stop", "pending", "running"}]
  /\ list \in [Lcores -> SUBSET Flows]
  /\ expired \in SUBSET Flows /\ runList \in SUBSET Flows
  /\ current \in Flows \cup {NoFlow} /\ refused \in SUBSET Flows
  /\ cntTimers \in Nat

\* "Assertion here would mean that the event handle is incorrectly used"
\* (73, 89): a timer is never stopped or armed while rte_timer_manage() holds
\* it for another one's callback.  This is why the end of a generation is
\* tracked outside the timers (gen/manager.cpp:115).
NothingRefused == refused = {}

\* The timer subsystem never holds a timer that has been freed: what waits in a
\* list or is about to be called back belongs to a handle, and waits once.
ListsMatchStatus ==
  /\ \A f \in Flows : status[f] = "pending" <=> \E l \in Lcores : f \in list[l]
  /\ \A l, m \in Lcores : l # m => list[l] \cap list[m] = {}
  /\ \A f \in Flows : status[f] = "running" <=> f \in runList \cup {current}

\* "All timers should have been returned to the scheduler" (41) whenever no
\* generation exists, however the last one ended or failed to begin.
AllReturned ==
  /\ cntTimers = Cardinality(Held)
  /\ gen = "idle" => Held = {}

WhileRunning(S) == IF gen = "running" THEN S ELSE {}

Contract == INSTANCE FlowTimers WITH
  Flow <- Flows, flows <- WhileRunning(Held),
  armed <- WhileRunning({f \in Flows : status[f] \in {"pending", "running"}}),
  due <- WhileRunning(runList \cup ({current} \ {NoFlow}))

\* Whatever the lists and the lcores, whoever owns the flows sees timers that come
\* and go with the flows, between the passes of rte_timer_manage(), and that fire
\* once each per pass and only while they are armed.
ImplementsTimers == Contract!Spec

\* A scheduled event takes place, unless the generation ends before.
EventsFire ==
  \A f \in Flows : (\E l \in Lcores : f \in list[l]) ~> (current = f \/ gen # "running")
=============================================================================
