----------------------- MODULE EventScheduler_proofs -----------------------
(***************************************************************************)
(* What holds of the events of every number of flows, whichever lcores the *)
(* scheduler and the generation thread are on.                             *)
(***************************************************************************)
EXTENDS EventScheduler, FiniteSetTheorems, TLAPS

\* rte_timer_manage() is in progress only while a generation runs, and all
\* timers wait in the list of the lcore the scheduler has captured.
Phases ==
  /\ gen # "running" => runList = {} /\ current = NoFlow
  /\ \A l \in Lcores : l # LcoreId => list[l] = {}
  /\ current \notin runList

IInv == TypeOK /\ Phases /\ NothingRefused /\ ListsMatchStatus /\ AllReturned

LEMMA HeldFinite == IsFiniteSet(Held) /\ Cardinality(Held) \in Nat
<1>1. Held \in SUBSET Flows
  BY DEF Held
<1> QED BY <1>1, FlowsAssumption, FS_Subset, FS_CardinalityType

LEMMA InitIInv == Init => IInv
<1> SUFFICES ASSUME Init PROVE IInv
  OBVIOUS
<1>1. Held = {} /\ Cardinality({}) = 0
  BY FS_EmptySet DEF Init, Held
<1>2. NoFlow \notin Flows
  BY FlowsAssumption
<1> QED BY <1>1, <1>2
        DEF Init, IInv, TypeOK, Phases, NothingRefused, ListsMatchStatus, AllReturned

\* While rte_timer_manage() holds no timer, all of them can be returned.
LEMMA ReturnTimersStep ==
  ASSUME IInv, ReturnTimers, runList = {}, current = NoFlow,
         gen' = "idle", UNCHANGED <<runList, current>>
  PROVE  IInv'
<1>1. \A f \in Flows : status[f] # "running"
  BY FlowsAssumption DEF IInv, ListsMatchStatus
<1>2. \A f \in Held : MayConfigure(f)
  BY <1>1 DEF Held, MayConfigure
<1>3. refused' = {} /\ status' = [f \in Flows |-> "none"]
  BY <1>2 DEF ReturnTimers, IInv, NothingRefused
<1>4. list' = [l \in Lcores |-> {}]
  <2>1. {f \in Held : MayConfigure(f)} = Held
    BY <1>2
  <2>2. \A l \in Lcores : list[l] \subseteq Held
    BY DEF IInv, TypeOK, ListsMatchStatus, Held
  <2> QED BY <2>1, <2>2 DEF ReturnTimers, Unlisted
<1>5. Held' = {} /\ Cardinality({}) = 0
  BY <1>3, FS_EmptySet DEF Held
<1>6. cntTimers' = 0
  BY HeldFinite DEF ReturnTimers, IInv, AllReturned
<1>7. TypeOK'
  BY <1>3, <1>4, <1>6 DEF ReturnTimers, IInv, TypeOK
<1>8. Phases' /\ ListsMatchStatus'
  BY <1>3, <1>4, FlowsAssumption DEF IInv, Phases, ListsMatchStatus
<1> QED BY <1>3, <1>5, <1>6, <1>7, <1>8 DEF IInv, NothingRefused, AllReturned

\* A step after which the same flows hold timers leaves nothing to return.
LEMMA SameHeld ==
  ASSUME IInv, UNCHANGED cntTimers, Held' = Held, gen' = "idle" => gen = "idle"
  PROVE  AllReturned'
BY DEF IInv, AllReturned

LEMMA StepIInv == IInv /\ [Next]_vars => IInv'
<1> SUFFICES ASSUME IInv, [Next]_vars PROVE IInv'
  OBVIOUS
<1> USE DEF IInv
<1>1. CASE BeginGeneration
  BY <1>1 DEF BeginGeneration, TypeOK, Phases, NothingRefused, ListsMatchStatus, AllReturned, Held
<1>2. CASE GenerationBuilt
  BY <1>2 DEF GenerationBuilt, TypeOK, Phases, NothingRefused, ListsMatchStatus, AllReturned, Held
<1>3. ASSUME NEW f \in Flows, SetupEvent(f) PROVE IInv'
  <2>1. /\ status' = [status EXCEPT ![f] = "pending"] /\ status[f] = "none"
        /\ list' = [list EXCEPT ![LcoreId] = @ \cup {f}]
        /\ UNCHANGED <<gen, expired, runList, current, refused>>
    BY <1>3 DEF SetupEvent
  <2>2. LcoreId \in Lcores
    BY DEF LcoreId, Lcores
  <2>3. Held' = Held \cup {f} /\ f \notin Held
    BY <2>1 DEF Held, TypeOK
  <2>4. Cardinality(Held') = Cardinality(Held) + 1
    BY <2>3, HeldFinite, FS_AddElement
  <2>5. AllReturned'
    BY <1>3, <2>4 DEF SetupEvent, AllReturned
  <2>6. TypeOK'
    BY <1>3, <2>1, <2>2 DEF TypeOK, SetupEvent
  <2>7. Phases'
    BY <2>1, <2>2 DEF Phases, TypeOK, LcoreId
  <2>8. ListsMatchStatus'
    BY <2>1, <2>2, <2>7 DEF ListsMatchStatus, TypeOK, Phases, LcoreId
  <2> QED BY <2>1, <2>5, <2>6, <2>7, <2>8 DEF NothingRefused
<1>4. CASE BuildFails
  BY <1>4, ReturnTimersStep DEF BuildFails, Phases
<1>5. CASE StopGeneration
  BY <1>5, ReturnTimersStep DEF StopGeneration
<1>6. CASE ProcessEvents
  <2> DEFINE ready == list[GenLcore] \cap expired
  <2>1. /\ list' = Unlisted(ready) /\ expired' = expired \ ready /\ runList' = ready
        /\ status' = [f \in Flows |-> IF f \in ready THEN "running" ELSE status[f]]
        /\ gen = "running" /\ runList = {} /\ current = NoFlow
        /\ UNCHANGED <<gen, current, refused, cntTimers>>
    BY <1>6 DEF ProcessEvents
  <2>2. /\ ready \in SUBSET Flows /\ \A f \in ready : status[f] = "pending"
        /\ \A f \in ready, l \in Lcores : f \in list[l] => l = GenLcore
        /\ GenLcore \in Lcores
    BY DEF TypeOK, ListsMatchStatus, Lcores
  <2> HIDE DEF ready
  <2>3. Held' = Held
    BY <2>1, <2>2 DEF Held
  <2>4. TypeOK'
    BY <2>1, <2>2 DEF TypeOK, Unlisted
  <2>5. Phases'
    BY <2>1, <2>2, FlowsAssumption DEF Phases, Unlisted, LcoreId
  <2>6. ListsMatchStatus'
    <3>1. \A f \in Flows : status'[f] = "pending" <=> \E l \in Lcores : f \in list'[l]
      BY <2>1, <2>2 DEF ListsMatchStatus, Unlisted
    <3>2. \A l, m \in Lcores : l # m => list'[l] \cap list'[m] = {}
      BY <2>1 DEF ListsMatchStatus, Unlisted
    <3>3. \A f \in Flows : status'[f] = "running" <=> f \in runList' \cup {current'}
      BY <2>1, <2>2 DEF ListsMatchStatus
    <3> QED BY <3>1, <3>2, <3>3 DEF ListsMatchStatus
  <2>7. AllReturned'
    BY <2>1, <2>3, SameHeld
  <2> QED BY <2>1, <2>4, <2>5, <2>6, <2>7 DEF NothingRefused
<1>7. ASSUME NEW f \in Flows, EnterCallback(f) PROVE IInv'
  <2>1. Held' = Held
    BY <1>7 DEF EnterCallback, Held
  <2>2. AllReturned'
    BY <1>7, <2>1, SameHeld DEF EnterCallback
  <2>3. TypeOK' /\ Phases' /\ NothingRefused'
    BY <1>7 DEF EnterCallback, TypeOK, Phases, NothingRefused, LcoreId
  <2>4. ListsMatchStatus'
    BY <1>7, FlowsAssumption DEF EnterCallback, ListsMatchStatus
  <2> QED BY <2>2, <2>3, <2>4
<1>8. CASE ScheduleAgain
  <2>1. PICK f \in Flows : f = current
    BY <1>8 DEF ScheduleAgain, TypeOK
  <2>2. status[f] = "running" /\ LcoreId \in Lcores
    BY <2>1 DEF ListsMatchStatus, LcoreId, Lcores
  <2>3. /\ status' = [status EXCEPT ![f] = "pending"]
        /\ list' = [list EXCEPT ![LcoreId] = @ \cup {f}]
        /\ current' = NoFlow /\ UNCHANGED <<gen, expired, runList, refused, cntTimers>>
    BY <1>8, <2>1 DEF ScheduleAgain, MayConfigure
  <2>4. Held' = Held
    BY <2>2, <2>3 DEF Held, TypeOK
  <2>5. AllReturned'
    BY <2>3, <2>4, SameHeld
  <2>6. TypeOK'
    BY <2>2, <2>3 DEF TypeOK
  <2>7. Phases'
    BY <2>2, <2>3, FlowsAssumption DEF Phases, TypeOK, LcoreId
  <2>8. ListsMatchStatus'
    <3>1. \A g \in Flows : status'[g] = "pending" <=> \E l \in Lcores : g \in list'[l]
      BY <2>2, <2>3 DEF ListsMatchStatus, TypeOK
    <3>2. \A l, m \in Lcores : l # m => list'[l] \cap list'[m] = {}
      BY <2>3, <2>7 DEF Phases, LcoreId
    <3>3. \A g \in Flows : status'[g] = "running" <=> g \in runList' \cup {current'}
      BY <2>1, <2>3, FlowsAssumption DEF ListsMatchStatus, TypeOK, Phases
    <3> QED BY <3>1, <3>2, <3>3 DEF ListsMatchStatus
  <2> QED BY <2>3, <2>5, <2>6, <2>7, <2>8 DEF NothingRefused
<1>9. CASE CallbackGivesUp
  <2>1. PICK f \in Flows : f = current
    BY <1>9 DEF CallbackGivesUp, TypeOK
  <2>2. status[f] = "running"
    BY <2>1 DEF ListsMatchStatus
  <2>3. /\ status' = [status EXCEPT ![f] = "stop"]
        /\ current' = NoFlow /\ UNCHANGED <<gen, list, expired, runList, refused, cntTimers>>
    BY <1>9, <2>1 DEF CallbackGivesUp
  <2>4. Held' = Held
    BY <2>2, <2>3 DEF Held, TypeOK
  <2>5. AllReturned'
    BY <2>3, <2>4, SameHeld
  <2>6. TypeOK' /\ Phases'
    BY <2>3, FlowsAssumption DEF TypeOK, Phases, LcoreId
  <2>7. ListsMatchStatus'
    BY <2>1, <2>2, <2>3, FlowsAssumption DEF ListsMatchStatus, TypeOK, Phases
  <2> QED BY <2>3, <2>5, <2>6, <2>7 DEF NothingRefused
<1>10. ASSUME NEW f \in Flows, Expire(f) PROVE IInv'
  BY <1>10 DEF Expire, TypeOK, Phases, NothingRefused, ListsMatchStatus, AllReturned, Held, LcoreId
<1>11. CASE UNCHANGED vars
  BY <1>11 DEF vars, TypeOK, Phases, NothingRefused, ListsMatchStatus, AllReturned, Held, LcoreId
<1> QED BY <1>1, <1>2, <1>3, <1>4, <1>5, <1>6, <1>7, <1>8, <1>9, <1>10, <1>11 DEF Next

LEMMA Invariance == Spec => []IInv
BY InitIInv, StepIInv, PTL DEF Spec

\* The scheduler's variables keep their types.
THEOREM EventsTypeCorrect == Spec => []TypeOK
<1>1. IInv => TypeOK
  BY DEF IInv
<1> QED BY <1>1, Invariance, PTL

\* No call to the timer library is refused: what ends a generation never runs
\* inside rte_timer_manage().
THEOREM EventsNothingRefused == Spec => []NothingRefused
<1>1. IInv => NothingRefused
  BY DEF IInv
<1> QED BY <1>1, Invariance, PTL

\* The timer library never keeps a timer that has been freed, nor one twice.
THEOREM EventsListsMatchStatus == Spec => []ListsMatchStatus
<1>1. IInv => ListsMatchStatus
  BY DEF IInv
<1> QED BY <1>1, Invariance, PTL

\* All timers are back when there is no generation.
THEOREM EventsAllReturned == Spec => []AllReturned
<1>1. IInv => AllReturned
  BY DEF IInv
<1> QED BY <1>1, Invariance, PTL

(***************************************************************************)
(* The contract of timers and flows                                        *)
(***************************************************************************)

\* The timers that are pending or have to be called back.
Armed == {f \in Flows : status[f] \in {"pending", "running"}}

\* Those that this pass has still to see the end of.
ToFire == runList \cup ({current} \ {NoFlow})

\* While the generators are built nothing has fired, and every timer there is waits.
Waiting == gen = "building" => \A f \in Flows : status[f] \in {"none", "pending"}

LEMMA InitWaiting == Init => Waiting
BY DEF Init, Waiting

LEMMA StepWaiting == IInv /\ Waiting /\ [Next]_vars => Waiting'
<1> SUFFICES ASSUME IInv, Waiting, [Next]_vars PROVE Waiting'
  OBVIOUS
<1>1. CASE BeginGeneration
  BY <1>1 DEF BeginGeneration, Waiting, IInv, AllReturned, Held
<1>2. ASSUME NEW f \in Flows, SetupEvent(f) PROVE Waiting'
  BY <1>2 DEF SetupEvent, Waiting, IInv, TypeOK
<1>3. CASE GenerationBuilt
  BY <1>3 DEF GenerationBuilt, Waiting
<1>4. CASE BuildFails \/ StopGeneration
  BY <1>4 DEF BuildFails, StopGeneration, Waiting
<1>5. CASE ProcessEvents
  BY <1>5 DEF ProcessEvents, Waiting
<1>6. ASSUME NEW f \in Flows, EnterCallback(f) PROVE Waiting'
  BY <1>6 DEF EnterCallback, Waiting
<1>7. CASE ScheduleAgain \/ CallbackGivesUp
  <2>1. gen = "running" /\ gen' = gen
    BY <1>7 DEF ScheduleAgain, CallbackGivesUp, IInv, Phases
  <2> QED BY <2>1 DEF Waiting
<1>8. ASSUME NEW f \in Flows, Expire(f) PROVE Waiting'
  BY <1>8 DEF Expire, Waiting
<1>9. CASE UNCHANGED vars
  BY <1>9 DEF vars, Waiting
<1> QED BY <1>1, <1>2, <1>3, <1>4, <1>5, <1>6, <1>7, <1>8, <1>9 DEF Next

LEMMA InitContract == Init => Contract!Init
BY DEF Init, Contract!Init, WhileRunning

\* Between the passes a generation comes and goes with all its timers; a pass
\* takes the expired ones, and each callback brings one of them back, or does not.
LEMMA StepContract ==
  ASSUME IInv, IInv', Waiting, [Next]_vars
  PROVE  [Contract!Next]_(Contract!vars)
<1> DEFINE fl == WhileRunning(Held)
           ar == WhileRunning(Armed)
           du == WhileRunning(ToFire)
<1>1. ASSUME fl' = fl, ar' = ar, du' = du PROVE UNCHANGED Contract!vars
  BY <1>1 DEF Contract!vars, Armed, ToFire
<1>2. ASSUME gen # "running", gen' # "running" PROVE UNCHANGED Contract!vars
  BY <1>1, <1>2 DEF WhileRunning
<1>3. CASE BeginGeneration \/ BuildFails
  BY <1>2, <1>3 DEF BeginGeneration, BuildFails
<1>4. ASSUME NEW f \in Flows, SetupEvent(f) PROVE UNCHANGED Contract!vars
  BY <1>2, <1>4 DEF SetupEvent
<1>5. CASE GenerationBuilt
  <2>1. gen = "building" /\ gen' = "running" /\ UNCHANGED <<status, runList, current>>
    BY <1>5 DEF GenerationBuilt
  <2>2. fl = {} /\ ar = {} /\ du = {}
    BY <2>1 DEF WhileRunning
  <2>3. Held' = Flows /\ Armed' = Flows
    BY <1>5, <2>1 DEF GenerationBuilt, Held, Armed, Waiting
  <2>4. ToFire' = {}
    BY <2>1 DEF IInv, Phases, ToFire
  <2>5. fl' = Flows /\ ar' = Flows /\ du' = {}
    BY <2>1, <2>3, <2>4 DEF WhileRunning
  <2>6. Contract!Begin
    BY <2>2, <2>5 DEF Contract!Begin, Armed, ToFire
  <2> QED BY <2>6 DEF Contract!Next
<1>6. CASE StopGeneration
  <2>1. gen = "running" /\ gen' = "idle" /\ runList = {} /\ current = NoFlow
    BY <1>6 DEF StopGeneration
  <2>2. du = {} /\ fl' = {} /\ ar' = {} /\ du' = {}
    BY <2>1 DEF WhileRunning, ToFire
  <2>3. Contract!End
    BY <2>2 DEF Contract!End, Armed, ToFire
  <2> QED BY <2>3 DEF Contract!Next
<1>7. CASE ProcessEvents
  <2> DEFINE expiring == list[GenLcore] \cap expired
  <2>1. /\ gen = "running" /\ gen' = gen /\ runList = {} /\ current = NoFlow
        /\ current' = NoFlow /\ runList' = expiring
        /\ status' = [f \in Flows |-> IF f \in expiring THEN "running" ELSE status[f]]
    BY <1>7 DEF ProcessEvents
  <2>2. GenLcore \in Lcores
    BY DEF Lcores
  <2>3. \A f \in expiring : f \in Flows /\ status[f] = "pending"
    BY <2>2 DEF IInv, TypeOK, ListsMatchStatus
  <2>4. Held' = Held /\ Armed' = Armed
    BY <2>1, <2>3 DEF Held, Armed
  <2>5. expiring \in SUBSET Armed
    BY <2>3 DEF Armed
  <2>6. ToFire = {} /\ ToFire' = expiring
    BY <2>1 DEF ToFire
  <2>7. fl' = fl /\ ar' = ar /\ du = {} /\ du' \in SUBSET ar
    BY <2>1, <2>4, <2>5, <2>6 DEF WhileRunning
  <2>8. Contract!StartPass
    BY <2>7 DEF Contract!StartPass, Armed, ToFire
  <2> QED BY <2>8 DEF Contract!Next
<1>8. ASSUME NEW f \in Flows, EnterCallback(f) PROVE UNCHANGED Contract!vars
  <2>1. UNCHANGED <<gen, status>> /\ ToFire' = ToFire
    BY <1>8, FlowsAssumption DEF EnterCallback, ToFire
  <2>2. fl' = fl /\ ar' = ar /\ du' = du
    BY <2>1 DEF WhileRunning, Held, Armed
  <2> QED BY <1>1, <2>2
<1>9. CASE ScheduleAgain \/ CallbackGivesUp
  <2>1. PICK f \in Flows : f = current
    BY <1>9 DEF ScheduleAgain, CallbackGivesUp, IInv, TypeOK
  <2>2. status[f] = "running" /\ gen = "running" /\ f \notin runList
    BY <2>1, FlowsAssumption DEF IInv, ListsMatchStatus, Phases
  <2>3. /\ gen' = gen /\ runList' = runList /\ current' = NoFlow
        /\ status' \in {[status EXCEPT ![f] = "pending"], [status EXCEPT ![f] = "stop"]}
    BY <1>9, <2>1 DEF ScheduleAgain, CallbackGivesUp, MayConfigure
  <2>4. Held' = Held /\ Armed' \in {Armed, Armed \ {f}}
    <3>1. CASE status' = [status EXCEPT ![f] = "pending"]
      BY <2>2, <3>1 DEF Held, Armed, IInv, TypeOK
    <3>2. CASE status' = [status EXCEPT ![f] = "stop"]
      BY <2>2, <3>2 DEF Held, Armed, IInv, TypeOK
    <3> QED BY <2>3, <3>1, <3>2
  <2>5. f \in ToFire /\ ToFire' = ToFire \ {f}
    BY <2>1, <2>2, <2>3, FlowsAssumption DEF ToFire
  <2>6. fl' = fl /\ ar' \in {ar, ar \ {f}} /\ f \in du /\ du' = du \ {f}
    BY <2>2, <2>3, <2>4, <2>5 DEF WhileRunning
  <2>7. Contract!Fire(f)
    BY <2>6 DEF Contract!Fire, Armed, ToFire
  <2> QED BY <2>7 DEF Contract!Next
<1>10. ASSUME NEW f \in Flows, Expire(f) PROVE UNCHANGED Contract!vars
  BY <1>1, <1>10 DEF Expire, WhileRunning, Held, Armed, ToFire
<1>11. CASE UNCHANGED vars
  BY <1>1, <1>11 DEF vars, WhileRunning, Held, Armed, ToFire
<1> QED BY <1>3, <1>4, <1>5, <1>6, <1>7, <1>8, <1>9, <1>10, <1>11 DEF Next

\* The scheduler keeps the contract with the owner of the flows on any lcores,
\* with the lists of the timer library and callbacks under way.
THEOREM EventsImplementTimers == Spec => ImplementsTimers
<1>1. Init => IInv /\ Waiting /\ Contract!Init
  BY InitIInv, InitWaiting, InitContract
<1>2. IInv /\ Waiting /\ [Next]_vars => IInv' /\ Waiting'
  BY StepIInv, StepWaiting
<1>3. IInv /\ IInv' /\ Waiting /\ [Next]_vars => [Contract!Next]_(Contract!vars)
  BY StepContract
<1> QED BY <1>1, <1>2, <1>3, PTL DEF Spec, ImplementsTimers, Contract!Spec
=============================================================================
