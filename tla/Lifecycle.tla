------------------------------ MODULE Lifecycle ------------------------------
(***************************************************************************)
(* The process from main() to its end: main.cpp, app/application.cpp, the  *)
(* members of the managers.  The members are constructed one after the     *)
(* other; if one throws, and at the end of the run, those that exist are   *)
(* destroyed in the opposite order.  In between the management loop and    *)
(* the generation loop run until the stop flag is set.                     *)
(*                                                                         *)
(* At any time a signal may arrive.  Of the management loop only its end   *)
(* is seen here; module Service has the rest.                              *)
(***************************************************************************)
EXTENDS EthDev, PacketBuffers, CrashHandler

CONSTANTS
  Main,   \* the thread that calls main()
  Worker  \* the worker thread of the DPDK, which exists if there are two lcores

ASSUME LifecycleAssumption == Threads = {Main, Worker} /\ Main # Worker

VARIABLES
  phase,       \* how far main() has come
  built,       \* the members that exist, in the order of their construction
  loopOf,      \* the loop each thread is to run, by the setting `cpus`
  looping,     \* the threads that are in their loop
  genAt,       \* the generation thread: "top", "requests" or "events" of its loop
  subscribed,  \* SIGINT and SIGTERM call signal_handler()
  stop         \* stop_flag_

lifeVars == <<phase, built, loopOf, looping, genAt, subscribed, stop>>
allVars == <<ethVars, bufferVars, crashVars, lifeVars>>

\* eal_, the two queues and genr_ with mbuf_pool_, eth_dev_ and then scheduler_,
\* generators_ and tx_pkts_; mgmt_.
Members == <<"eal", "queues", "pool", "port", "generation", "mgmt">>

Exists(m) == \E i \in 1..Len(built) : built[i] = m

\* The member whose constructor is next or in progress.
Due == Members[Len(built) + 1]

Init ==
  /\ EthInit /\ BuffersInit /\ CrashInit
  /\ phase = "install" /\ built = <<>> /\ looping = {}
  /\ loopOf = [t \in Threads |-> "none"]
  /\ genAt = "top" /\ subscribed = FALSE /\ stop = FALSE
-----------------------------------------------------------------------------
(***************************************************************************)
(* main() until both loops run                                             *)
(***************************************************************************)

\* An exception: what has been constructed is destroyed, and main() catches it.
Throw == phase' = "unwind"

\* dump_stacktrace_on_fatal_signal(STDERR_FILENO), whose error main() throws.
InstallHandler ==
  /\ \/ phase = "install" /\ InstallActions(TRUE) /\ phase' = "output"
     \/ phase = "install" /\ InstallActions(FALSE) /\ Throw
     \/ phase = "output" /\ SetOutput(TRUE) /\ phase' = "config"
     \/ phase = "output" /\ SetOutput(FALSE) /\ Throw
  /\ UNCHANGED <<ethVars, bufferVars, built, loopOf, looping, genAt, subscribed, stop>>

\* config(cfg_path): the file may be invalid; the two cpus may be in any order, or
\* be the same, and the main thread gets one of them.
ReadConfig ==
  /\ phase = "config"
  /\ \/ Throw /\ UNCHANGED loopOf
     \/ /\ phase' = "construct"
        /\ loopOf' \in {l \in [Threads -> {"mgmt", "gen", "none"}] :
                          \/ l[Main] = "mgmt" /\ l[Worker] \in {"gen", "none"}
                          \/ l[Main] = "gen" /\ l[Worker] = "mgmt"}
  /\ UNCHANGED <<ethVars, bufferVars, crashVars, built, looping, genAt, subscribed, stop>>

\* Constructors that have no steps of their own here: rte_eal_init() may fail, and
\* so may the endpoint of make_acceptor().
ConstructMember ==
  /\ phase = "construct" /\ Len(built) < Len(Members) /\ Due \in {"eal", "queues", "generation", "mgmt"}
  /\ \/ built' = Append(built, Due) /\ UNCHANGED phase
     \/ Due \in {"eal", "mgmt"} /\ Throw /\ UNCHANGED built
  /\ UNCHANGED <<ethVars, bufferVars, crashVars, loopOf, looping, genAt, subscribed, stop>>

\* mbuf_pool(): the limit of file descriptors or the pool itself may fail.
ConstructPool ==
  /\ phase = "construct" /\ Len(built) < Len(Members) /\ Due = "pool"
  /\ \/ CreatePool /\ built' = Append(built, Due) /\ UNCHANGED phase
     \/ Throw /\ UNCHANGED <<bufferVars, built>>
  /\ UNCHANGED <<ethVars, crashVars, loopOf, looping, genAt, subscribed, stop>>

\* eth_dev(): step by step.
ConstructPort ==
  /\ phase = "construct" /\ Len(built) < Len(Members) /\ Due = "port"
  /\ \/ (SetCapabilities \/ Configure \/ StartFails \/ LinkUp) /\ UNCHANGED bufferVars
     \/ StartPort /\ FillRxRing
     \/ LinkStaysDown /\ DrainRings
  /\ built' = IF ethDev' = "valid" THEN Append(built, Due) ELSE built
  /\ phase' = IF ethDev' = "failed" THEN "unwind" ELSE phase
  /\ UNCHANGED <<crashVars, loopOf, looping, genAt, subscribed, stop>>

\* The body of application_impl(), signal() for SIGINT and SIGTERM, and then
\* rte_eal_mp_remote_launch().
Launch ==
  /\ phase = "construct" /\ built = Members
  /\ \/ /\ subscribed' = TRUE /\ phase' = "run"
        /\ looping' = {t \in Threads : loopOf[t] # "none"}
     \/ subscribed' \in BOOLEAN /\ Throw /\ UNCHANGED looping
  /\ UNCHANGED <<ethVars, bufferVars, crashVars, built, loopOf, genAt, stop>>
-----------------------------------------------------------------------------
(***************************************************************************)
(* The end of main()                                                       *)
(***************************************************************************)

\* Mutant: main() goes on when its own loop has ended.
JoinLoopsEarly ==
  /\ phase = "run" /\ Main \notin looping
  /\ phase' = "unwind"
  /\ UNCHANGED <<ethVars, bufferVars, crashVars, built, loopOf, looping, genAt, subscribed, stop>>

\* rte_eal_mp_wait_lcore(), and ~application().
JoinLoops ==
  /\ phase = "run" /\ looping = {}
  /\ phase' = "unwind"
  /\ UNCHANGED <<ethVars, bufferVars, crashVars, built, loopOf, looping, genAt, subscribed, stop>>

Last == built[Len(built)]

\* One destructor.
DestroyLast ==
  /\ phase = "unwind" /\ built # <<>>
  /\ built' = SubSeq(built, 1, Len(built) - 1)
  /\ \/ Last = "pool" /\ FreePool /\ UNCHANGED ethVars
     \/ Last = "port" /\ ClosePort /\ DrainRings
     \/ Last = "generation" /\ StopGeneration /\ UNCHANGED ethVars
     \/ Last \in {"eal", "queues", "mgmt"} /\ UNCHANGED <<bufferVars, ethVars>>
  /\ UNCHANGED <<crashVars, phase, loopOf, looping, genAt, subscribed, stop>>

ReturnFromMain ==
  /\ phase = "unwind" /\ built = <<>>
  /\ phase' = "exited"
  /\ UNCHANGED <<ethVars, bufferVars, crashVars, built, loopOf, looping, genAt, subscribed, stop>>

MainStep ==
  \/ InstallHandler \/ ReadConfig \/ ConstructMember \/ ConstructPool \/ ConstructPort
  \/ Launch \/ JoinLoops \/ DestroyLast \/ ReturnFromMain
-----------------------------------------------------------------------------
(***************************************************************************)
(* The loops                                                               *)
(***************************************************************************)

\* Mutant: the flag is not looked at while a generation runs.
LeaveLoopWhenIdle(t) ==
  /\ t \in looping /\ stop
  /\ loopOf[t] = "gen" => genAt = "top" /\ ~started
  /\ looping' = looping \ {t}
  /\ UNCHANGED <<ethVars, bufferVars, crashVars, phase, built, loopOf, genAt, subscribed, stop>>

\* run_loop finds the stop flag set.
LeaveLoop(t) ==
  /\ t \in looping /\ stop
  /\ loopOf[t] = "gen" => genAt = "top"
  /\ looping' = looping \ {t}
  /\ UNCHANGED <<ethVars, bufferVars, crashVars, phase, built, loopOf, genAt, subscribed, stop>>

\* run_loop calls process_events() of the generation manager.
BeginIteration ==
  /\ genAt = "top" /\ ~stop
  /\ genAt' = "requests"
  /\ UNCHANGED <<ethVars, bufferVars, crashVars, phase, built, loopOf, looping, subscribed, stop>>

\* Its requests: stop, start, and the loading of the captures of a start.
HandleRequests ==
  /\ genAt = "requests"
  /\ BeginStart \/ LoadStep \/ (load = "none" /\ StopGeneration)
  /\ UNCHANGED <<ethVars, crashVars, lifeVars>>

RequestsHandled ==
  /\ genAt = "requests" /\ load = "none"
  /\ genAt' = "events"
  /\ UNCHANGED <<ethVars, bufferVars, crashVars, phase, built, loopOf, looping, subscribed, stop>>

\* The events that are due; a full burst is sent at once.
SendPackets ==
  /\ genAt = "events"
  /\ SendCopy \/ (sending > 0 /\ TransmitTxPkts)
  /\ UNCHANGED <<ethVars, crashVars, lifeVars>>

\* The end of process_events(): what has been collected is sent, or, when the
\* duration has passed, the generation is stopped instead of any events.
EndIteration ==
  /\ genAt = "events"
  /\ \/ sending > 0 /\ TransmitTxPkts
     \/ sending = 0 /\ UNCHANGED bufferVars
     \/ sending = 0 /\ started /\ StopGeneration
  /\ genAt' = "top"
  /\ UNCHANGED <<ethVars, crashVars, phase, built, loopOf, looping, subscribed, stop>>

LoopStep(t) ==
  \/ LeaveLoop(t)
  \/ /\ t \in looping /\ loopOf[t] = "gen"
     /\ BeginIteration \/ HandleRequests \/ RequestsHandled \/ SendPackets \/ EndIteration
-----------------------------------------------------------------------------
(***************************************************************************)
(* Signals                                                                 *)
(***************************************************************************)

\* SIGINT or SIGTERM: signal_handler(), or the default action before there is one.
StopSignal ==
  /\ IF subscribed THEN stop' = TRUE /\ UNCHANGED killed ELSE killed' = TRUE /\ UNCHANGED stop
  /\ UNCHANGED <<ethVars, bufferVars, phase, built, loopOf, looping, genAt, subscribed>>
  /\ UNCHANGED <<installed, outputSet, called, at, stdoutOf, dumped>>

\* The main thread, and the worker from rte_eal_init() to the end.
Alive(t) == t = Main \/ (Exists("eal") /\ loopOf[Worker] # "none")

FatalSignal(t) ==
  /\ Alive(t)
  /\ Kill(t) \/ EnterHandler(t)
  /\ UNCHANGED <<ethVars, bufferVars, lifeVars>>

\* A thread in the handler does nothing else.
Step(t) ==
  \/ at[t] = "out" /\ (LoopStep(t) \/ (t = Main /\ MainStep))
  \/ Handle(t) /\ UNCHANGED <<ethVars, bufferVars, lifeVars>>

Running == ~killed /\ phase # "exited"

Next == Running /\ (StopSignal \/ \E t \in Threads : Step(t) \/ FatalSignal(t))

Spec == Init /\ [][Next]_allVars

\* Every thread goes on; the requests of an iteration are finitely many, one
\* batch, and so are the events that rte_timer_manage() finds due.
FairSpec ==
  /\ Spec
  /\ \A t \in Threads : WF_allVars(Running /\ Step(t))
  /\ SF_allVars(\E t \in Threads : Running /\ at[t] = "out" /\ loopOf[t] = "gen" /\ RequestsHandled)
  /\ WF_allVars(\E t \in Threads : Running /\ at[t] = "out" /\ loopOf[t] = "gen" /\ EndIteration)
-----------------------------------------------------------------------------
(***************************************************************************)
(* Properties                                                              *)
(***************************************************************************)

\* The types of all variables.
TypeOK ==
  /\ EthTypeOK /\ BuffersTypeOK /\ CrashTypeOK
  /\ phase \in {"install", "output", "config", "construct", "run", "unwind", "exited"}
  /\ built \in Seq({"eal", "queues", "pool", "port", "generation", "mgmt"})
  /\ loopOf \in [Threads -> {"mgmt", "gen", "none"}]
  /\ looping \in SUBSET Threads
  /\ genAt \in {"top", "requests", "events"}
  /\ subscribed \in BOOLEAN /\ stop \in BOOLEAN

\* Every mbuf is in one place as long as the pool exists, and the pool outlives
\* them all: whatever fails and whenever the stop comes, none is out and the NIC
\* is not working with the pool's memory when it is freed.
PoolOutlivesMbufs ==
  /\ Exists("pool") => pool + Out = CntMbufs
  /\ ~Exists("pool") => pool = 0 /\ Out = 0 /\ port # "started"

\* A start that has failed and a generation that has ended leave no mbuf behind
\* but in the NIC's queues, and every iteration ends with nothing to send.
EndedHoldsNothing ==
  /\ load = "none" => chain + loaded + building = 0
  /\ ~started => playing = 0
  /\ genAt # "events" => sending = 0

\* A generator plays the packets of its capture as far as they are complete, all
\* of them, and none that was captured partially (tcap_loader.cpp:62).
LoadsWholePackets ==
  load = "verify" =>
    /\ \A i \in 1..cntPkts : capture[i].end = "whole"
    /\ cntPkts < Len(capture) => capture[cntPkts + 1].end = "cut"

\* Nothing is destroyed under a thread that is in its loop, and no packet is sent
\* or received on a port that is not started.
LoopsHaveMembers == looping # {} => built = Members /\ port = "started" /\ ethDev = "valid"

\* When the process ends by itself the port has been stopped and closed; only a
\* failure in the middle of configure() leaves it configured.
PortClosed == phase = "exited" => port = "closed" \/ (port = "configured" /\ ethDev = "failed")

\* Two threads that crash at once do not mix what they write: one of them writes,
\* the sections in order, and before it lets the process die it has written either
\* all of them or, where the output had not been set, nothing.
OneDump ==
  /\ \A s, t \in Threads : Dumping(s) /\ Dumping(t) => s = t
  /\ \E n \in 0..Len(Sections) : dumped = SubSeq(Sections, 1, n)
  /\ \A t \in Threads : at[t] \in {"flush", "restore", "raise"} =>
       dumped = IF outputSet THEN Sections ELSE <<>>

\* However many threads crash, one of them is on its way through the handler and
\* not pausing; it waits for nobody but a thread that pauses and was interrupted
\* while it printed (stacktrace.cpp: `called`, pause(), fflush(stdout)).
HandlerGoesOn ==
  called => \E t \in Threads :
    /\ Dumping(t)
    /\ at[t] = "flush" => stdoutOf \in {NoThread, t} \/ at[stdoutOf] = "paused"

\* Once asked to stop the process ends, with everything destroyed, unless a fatal
\* signal comes.
StopEnds == stop ~> (phase = "exited" \/ killed \/ \E t \in Threads : at[t] # "out")

\* A fatal signal ends the process, unless a thread pauses that has been
\* interrupted while it printed: fflush() then waits for it for ever.
FatalEnds ==
  called ~> (killed \/ phase = "exited" \/ \E t \in Threads : at[t] = "paused" /\ stdoutOf = t)
=============================================================================
