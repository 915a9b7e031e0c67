# The traffic generator in TLA+

This directory specifies `traffic-generator`, a DPDK program that replays
captured packets as many parallel flows, and checks the specifications with
TLC and TLAPS. Paths such as `put/spsc_ring.h` are relative to `src/`.

## 1. The system

The program runs two threads, one per CPU of its configuration, and each spins
in a loop that calls `process_events()` until a signal sets a stop flag
(`app/application.cpp`). They share two message queues and nothing else.

```
 HTTP clients        management thread                  generation thread        NIC
      |  request   +--------------------+  out_messages (32)  +--------------+    |
      |----------->| http_server        |-------------------->| gen::manager |--->|
      |            | mgmt::manager      |                     |  flows_gen.  |    |
      |<-----------|  start/stop/stats  |<--------------------|  scheduler   |<---|
      |  answer    +--------------------+  inc_messages (256) +--------------+    |
```

| Component | State | Operations | What makes it correct |
|---|---|---|---|
| message ring, `put/spsc_ring.h` | two atomic indexes, each thread's cached copy of the other's, raw slots | push one/many, consume one/ranges, pop one/many, counts, destructor | no slot is accessed by both threads; FIFO without loss or duplication; every object destroyed once |
| message queues, `mgmt/messages.h` | one ring of variants each way | `enqueue`, `dequeue` (at most 8 messages) | what the ring promises; full queues are noticed |
| management, `mgmt/manager.cpp` | one stored callback per kind of request | three request handlers, four message handlers | each client gets its own answer, exactly once |
| HTTP server, `mgmt/priv/http_server.cpp` | acceptor, one coroutine per connection | accept, read, hand over, write | a request is handed over once; errors end one connection only |
| configuration of a generation, `mgmt/gen_config.cpp` | parsed values | construction | exactly the documented values are accepted |
| generation, `gen/manager.cpp` | generators, `gen_cycles_`, `tx_pkts_`, drop counters | three message handlers, timeout, transmit, receive, report | nothing is left of a generation that has ended; every request answered |
| flows generator, `gen/priv/flows_generator.cpp` | packets, flows, address iterators, burst counter | construction, one event per flow and packet | each flow replays the capture in order and on time; addresses change per burst |
| event scheduler and handle, `gen/priv/event_*` | timer count, one `rte_timer` per handle | get, return, schedule, process | as many timers returned as handed out |
| capture loader, mbuf pool, `gen/priv/tcap_loader.cpp`, `mbuf_pool.cpp` | open file, pool | load a packet, allocate | every packet of the file, every mbuf freed |
| Ethernet device, `gen/priv/eth_dev.cpp` | port | configure, start, burst send and receive | closed when construction fails |
| application, `app/`, `main.cpp` | stop flag, the two managers, the queues | start-up, loops, signals, shutdown | both loops end; destruction in a safe order |
| crash handler, `put/stacktrace.cpp` | one flag, the output descriptor | installation, the handler of fatal signals | one crash is written, and the process dies of it |
| assertions, `put/tg_assert.h` | - | `TG_ENFORCE`, `TG_ASSERT` | aborts exactly when a condition fails |
| utilities, logging, tools | - | - | - |

The behaviours that are hard to test here are the interleavings of the two
threads inside the ring, the stale copies it works with, the matching of
answers to clients through one callback per kind, the two queues at their
limits, and the end of a generation, which may come by request or by time while
packets and timers are pending; then the coroutines that callbacks of another
component resume, the failure of one of many construction steps, and signals that
come at any moment. `PROJECT.json` lists each at its line.

## 2. The modules

| Module | Models | Uses |
|---|---|---|
| `BoundedFifo` | the promise of the ring: a bounded first-in first-out buffer | |
| `SpscRing` | `put/spsc_ring.h`, both threads step by step | refines `BoundedFifo` |
| `Channels` | the two queues of `mgmt/messages.h` and `TG_ENFORCE` | |
| `Control` | the promise of the program to its clients: their requests served one at a time | |
| `FlowTimers` | the contract between the owner of the flows and whoever fires their timers | |
| `MgmtManager` | `mgmt/manager.cpp` | extends `Channels` |
| `GenManager` | `gen/manager.cpp` with the timers and flow events that reach it | extends `Channels` |
| `TrafficGenerator` | both threads, the properties of the program | extends the two managers; refines `Control`, `FlowTimers` |
| `HttpServer` | `mgmt/priv/http_server.cpp`, the coroutines and the completed operations | extends `Channels` |
| `Service` | the program behind its HTTP server, connections from accept to close | extends `TrafficGenerator`, `HttpServer`; refines `TrafficGenerator` |
| `Replay` | the promise of a flows generator to each of its flows | |
| `FlowsGenerator` | `gen/priv/flows_generator.cpp`, one capture | refines `Replay`, `FlowTimers` |
| `EventScheduler` | `gen/priv/event_scheduler.h` on top of DPDK's timers | refines `FlowTimers` |
| `EventHandle` | `gen/priv/event_handle.cpp` | |
| `GenConfig` | the captures of `mgmt/gen_config.cpp` | |
| `EthDev` | `gen/priv/eth_dev.cpp`, the port up and down | |
| `PacketBuffers` | where mbufs are: pool, captures being loaded, generators, packets to send, NIC | |
| `CrashHandler` | `put/stacktrace.cpp` in several threads | |
| `Lifecycle` | the process from `main()` to its end, signals | extends the three above |
| `*_proofs` | theorems about `SpscRing`, `TrafficGenerator`, `Service`, `FlowsGenerator`, `EventScheduler`, `EventHandle`, `Lifecycle` | extend these |
| `RequestOrder_proofs` | theorems about the order of requests in `TrafficGenerator` | extends `TrafficGenerator_proofs` |
| `MC*` | instances for TLC; `MCEvents` checks `EventScheduler` and `EventHandle` in one run | |

Definitions whose comment begins with "Mutant:" are deliberate mistakes. They
are used by no specification; putting one in the place of the definition after
it shows that a property would notice the mistake.

### The ring

`head` and `tail` are the atomic indexes, `prodTail` and `consHead` the cached
copies. An index counts modulo `Laps * Size`, which stands for 2^64: the code
only needs that `Size` divides the modulus and that there are at least two laps.
Each thread has a program counter (`prodPc`, `consPc`). A step is one store the
other thread can see, one access to slots, or the load of the other's index.

* An acquire load of the other's index may return any value the index has had
  since the value this thread read last. Coherence of C++ atomics promises no
  more, and the invariants hold even so. The thread that runs the destructor has
  synchronised with the other and reads the newest value.
* A slot is `Raw` (no object), a message, or `Husk` (moved from, to be
  destroyed). `todo` and `filled` are what the push in progress has still to
  construct and has constructed.
* The function given to the range form of `try_consume` may take any part of
  what it is offered. The one of `try_pop(U*, sz)` takes what fits; that is also
  what the destructor uses. Trivially copyable types are copied by `memcpy` and
  not moved from, a difference no property depends on.
* A throwing constructor is modelled for the single push, the only one that
  admits it. A throwing function is modelled for the single consume (it takes
  nothing); for the range form no caller has one.

### The program

Since `SpscRing` implements `BoundedFifo`, `Channels` works with sequences. The
cached head shows once: a `dequeue` may be given fewer messages than the queue
holds, but none only if it is empty. Both managers see an enqueued message at
the next dequeue: a load as stale as the ring allows would only postpone it,
which another interleaving of the same steps does too.

| In the code | In the model |
|---|---|
| `start_cb_`, `stop_cb_`, `stats_cb_` | `cb[kind]`, the connection to answer |
| the HTTP status answered | `answer[c]` |
| `gen_cycles_` | `running`, which also remembers who asked; `expired` once the duration has passed |
| `generators_`, `scheduler_.count_events()` | `flows`, each holding one timer |
| pending timers; expired ones that still fire | `armed`; `due` |
| `tx_pkts_` | `txPkts`, a number |
| the end of the process by `abort()` | `aborted`, after which nothing happens |

`asked`, `sent`, `lost` and the `from` of messages are history variables: they
let the properties speak of who asked what and in which order, and no guard
depends on them except that a connection carries one request.

A step of a manager is one `dequeue`, the handling of one message, one request
handler or timer callback, or the rest of an iteration. Within such a step a
thread touches the queues at most once, so the two threads interleave as in the
program. Received packets are freed at once and are left out. Whether a start
request's configuration is valid, its captures can be loaded, an mbuf is free
for a copy, and which timers are due, are free choices here (`PacketBuffers` makes
those about mbufs from what the pool holds). `stop_flag_` is a matter of
`Lifecycle`: in this module the loops run for ever.

`TG_ENFORCE(cond)` calls `abort()` when `cond` is true. Every use of it, and
every comment beside a use, means the opposite. `AbortsWhen` is the reading: the
passing runs use the intended one (FALSE), because as written the program does not
survive its first idle iteration, which is what `enforce_as_written` shows. The
theorems make no assumption about it. `TG_ENFORCE` on the results of `rte_timer_stop` and
`rte_timer_reset` concerns a library and is not modelled.

`Control` is what all this amounts to for a client. Its variables are functions of
the program's: `Stage` reads off the queues, the callbacks and the answers how far a
request has come, and the queue of `Control` is the clients of `Asking`, the
requests between the two threads. A request takes effect when the generation
thread handles it; the dequeues, the batches, the reports and the way back are not
seen. That an answer can get lost at a full response queue, and its kind is then
refused for ever, is part of `Control`, because it is what the code does.

`FlowTimers` is where three modules meet. The flows and timers of a generation are in
`GenManager` (with the messages around them), in `EventScheduler` (with DPDK's lists
and states) and in `FlowsGenerator` (with packets and times); each leaves out what the
other two are about. Each has the same `Contract`, an instance of `FlowTimers`, and
implements it: flows and timers come and go together and between two passes of
`rte_timer_manage` only, an armed timer fires at most once per pass, and its own
callback alone arms it again.

### The HTTP server

| In the code | In the model |
|---|---|
| a pending `async_accept` | `accepting` |
| where the coroutine of a connection is suspended | `conn[c]`: "reading", "waiting" (for the user handler's callback), "writing" |
| completed operations in the `io_context` | `ready`, oldest first |

`poll_one()` takes one completed operation and runs its coroutine to the next
suspension: `AcceptConnections`, `ReceiveFails`, `GetResponse`, `FinishRequest`.
`Service` joins each with the manager's step in the same call. `PollRequest` is
`process_request` calling `on_http_request`; if the manager calls the callback
before it returns, the coroutine does not suspend and goes on to write.
`HandleResponses` is a response whose callback resumes a coroutine in the middle
of the manager's loop. `Called` reads off the manager's `answer` which callbacks a
step has called. The network (`Network`) completes operations in any order,
successfully or not; each connection carries one request, as the code closes it
after the response.

### A flows generator

| In the code | In the model |
|---|---|
| `flow::pkt_idx`, `cln_ip_addr`, `srv_ip_addr` | `pktIdx`, `cln`, `srv`, functions of the flow |
| `flow::event`, the time its timer has left | `left`, `Off` if it is not armed |
| `cln_ip_addr_`, `srv_ip_addr_`, `burst_idx_` | `clnIt`, `srvIt`, `burstIdx`; the locals of `setup_flows` use the same variables |
| timers one `rte_timer_manage` has still to fire | `due` |

A time is a whole number of microseconds and a packet an index. `setup_flows` is
one step per flow, `setup_flow_events` one step, each call of `on_flow_event` one
step; its copy may fail for want of an mbuf, which leaves the flow without a
timer. Expired timers fire in any order and may be late; DPDK's are more orderly,
which the properties do not rely on. An address is a number modulo `AddrMod`, so
that an iterator that runs past its range behaves as in the code. `HostsBegin`,
`HostsEnd` and `NumHosts` are those of the network library, including the empty
range of a network of two addresses. The configuration accepts such a network
(`gen_config.cpp:112`). Its iterator starts at the end of the range, and `inc_reset`
increments before it compares, so it goes through all addresses there are before it
starts again (`Round`, `Reached`): the flows leave the configured network, which is
hardly the "range of IPv4 addresses to be used" of `gen_config.cpp:20`. A capture's time stamps may go back, by at
most `if_gap` (`OrderAssumption`); by more, the unsigned difference is a wait of
centuries. `taken`, `turn` and `played` are history variables.

### Events

`EventScheduler` has the four states of a timer that DPDK distinguishes and a
list of waiting timers per lcore. All that matters of time is which timers have
`expired`. A generation is built flow by flow, and building it may fail in
between. `rte_timer_manage` takes the expired timers of its own lcore out of the
list and calls back one after the other; meanwhile no one else's callback may
touch them (`MayConfigure`).

`EventHandle` follows timers through handles. Move assignment is a stack of
frames because it is one: `std::swap` assigns with the very operator that calls
it. `MaxDepth` is the room on the stack.

What the runs `handle_assign` and `scheduler_lcores` find would hide everything
behind it, so the other modules take the intended behaviour: `FlowsGenerator` and `EventScheduler` give a flow
its event in one step, and `GenManager` and `FlowsGenerator` let the timers fire.

### The process

`Lifecycle` is `main()`: the handler is installed, the configuration read, the
members constructed in the order of their declaration (`Members`), the loops run,
and the members destroyed from the last to the first, at the end or when
something throws. A constructor of several steps that may fail (`eth_dev`) takes
several steps here. A signal may arrive between any two. `StopSignal` is SIGINT or
SIGTERM; before the handler is set it kills.

`PacketBuffers` counts mbufs by place; a segment is an mbuf, and a packet has one
to `MaxSegs`. Loading a start request's captures is a step per record header,
segment and verification, and every way out that throws is `AbandonStart`, which
stands for `exit_guard` and the destructors of the packet vectors. A file that ends
within a record is "cut": `load_pkt` throws, but `load_pkts` looks at `is_eof()`
and takes it for the end. The NIC takes any part of a burst it has room for, gives
mbufs back with later bursts, and the rest when its port is stopped.

In `CrashHandler` a fatal signal enters the handler on its own thread. The first
thread to set `called` writes section by section, flushes, restores the default
action and raises the signal again; every later one pauses. `stdoutOf` is a thread
that was interrupted while it held the lock of `stdout`, for which `fflush` waits.
A fault of the handler itself kills at once. The generation loop is seen at the
grain of requests, events and the end of an iteration (`genAt`); of the management
loop only its end matters here. If both cpus of the configuration are the same,
DPDK has one lcore and only the management loop runs, which the module allows.

### The configuration of a generation

A field of a capture is a value, `Missing`, or `Other` (of another type). What
the JSON parser takes for an unsigned number belongs to the library; here it is
every natural number. (Boost.JSON stores a small integer as a signed one, so
`as_uint64` at line 86 and `as_double` at line 67 may reject a request before a
missing field does; `config_as_documented` shows one reason of several.) Captures are read in order, the first bad one rejects the
request.

## 3. The runs

| Run | Bounds | Shows |
|---|---|---|
| `ring` | 4 slots, 2 laps, 2 messages, arrays of 0 to 2 | all ring properties and the refinement |
| `program` | 4 connections, 2 flows, response queue of 2, request queue of 3, batches of 2, bursts of 2 | all safety properties of the program and the refinement of `Control` |
| `service` | 2 connections, 1 flow, response queue of 1, request queue of 3, batches of 2, bursts of 1 | connections from accept to close with all failures of the network; liveness |
| `stop_reported` | 2 connections, 2 flows, otherwise as `program` | a stop that is never answered, against the comment at `gen/manager.cpp:198` |
| `enforce_as_written` | `AbortsWhen = TRUE`, 3 connections | the abort in the first idle iteration |
| `flows` | 2 flows, 3 packets, bursts of 3, no client hosts (a /31), 2 server hosts, 8 addresses | addresses, refinement of `Replay`, flows that go on for ever |
| `as_captured` | the same, 2 client and 6 server hosts, bursts of 1 | flows begin with the second packet (`flows_generator.cpp:152`) and keep other gaps than the capture (`:32`) |
| `events` | 3 flows, both threads on the same lcore; 3 handles, 2 timers, a stack of 3 frames | ownership and firing of timers; one owner per timer; refinement of `FlowTimers` |
| `scheduler_lcores` | 1 flow, two lcores | events that never fire (`gen/manager.cpp:124`) |
| `handle_assign` | 3 handles, 3 timers, a stack of 6 frames | assignment without end (`event_handle.h:17`) |
| `config_as_documented` | captures with each field at and around its limits, alone or beside another | optional fields are not optional (`gen_config.cpp:18`, `22`) |
| `lifecycle` | 5 mbufs, queues of 1, up to 2 captures per start out of 4, packets of 1 or 2 segments, 2 threads | start-up, failures, stop and destruction; every mbuf accounted for; crashes |

Why the bounds are enough. Four slots and arrays of two make every split of a
batch over the end of the buffer occur, partly consumed first ranges included;
two laps make the indexes wrap while entries are stored. Properties of the ring
do not compare messages, so two values show every reordering. In the program,
four connections allow two requests of one kind with two others between them; a
response queue of two is filled by reports or by responses alone; three is the
smallest request queue the code's reasoning admits (there are three kinds), and
the theorems cover every larger one. Connections and flows are interchangeable,
and symmetry is used in the safety runs only. The number of connections bounds
the number of requests; nothing else is bounded in the guards.

In `service` two connections are enough for one to be accepted, fail or be
refused ("busy") while the other waits, writes or is resumed, and a response queue
of one makes answers and reports compete for every entry; more connections add no
new pair of coroutine states. In `lifecycle` five mbufs, one of them in the NIC,
let the pool run dry in the middle of a packet, of a capture, of the second capture
and while a generation sends. The captures are a good one, one cut within its
second packet, one with a bad record after a good one, and an empty one, in every
combination of two. `events` puts two independent modules side by side, which
changes nothing in either: only their states multiply.

Bursts of three with two flows begin in the construction and end within the
events. The client iterator goes through all eight addresses and over the top of the
address space, the server iterator through its two hosts, so they wrap at different
times; the theorems cover every other pair. Everything in that module
is finite, as timers only count down from the largest relative time. The events
of flows do not interact except through the lists, for which three flows are
plenty. In the configuration each field is tested against constants, so a value
on each side of each limit is every case there is.

Properties, ring: `CachesTrail` (why stale copies are harmless),
`SlotsMatchIndexes` (which objects live), `NoSlotRace`, `NothingLeaks`,
`ImplementsFifo`. Program: `OneInFlight` (a request of a kind is in one place,
and its client is the one whose callback is stored), `RequestsAlwaysFit` (the
answer 500 never happens), `NoAbort`, `IdleIsClean`, `StopEndsEarlierStarts` and
`FailedStartsNothing` (what a client may conclude from an answer),
`ImplementsControl` (to its clients the program is one object that serves them in
order), `AnsweredUnlessLost`, `GenerationEnds`. Service: `OneResumer` (each suspended
coroutine is resumed by one callback or completed operation, none twice or after
its end), `ConnectionsEnd` (a request that has arrived is answered and its
connection closed, unless the answer was thrown away), `AcceptsAgain`. Flows: `AddressesByBurst`,
`ImplementsReplay` (which includes that the addresses are hosts of the networks,
if these have any),
`KeepsReplaying`. Events:
`NothingRefused`, `ListsMatchStatus`, `AllReturned`, `ImplementsTimers`, `EventsFire`; `OneOwner`,
`BoundIffHolding`. Process: `PoolOutlivesMbufs` (every mbuf is in one place, and
the pool is freed when all are back and the port is stopped), `EndedHoldsNothing`,
`LoadsWholePackets`, `LoopsHaveMembers`, `PortClosed`, `OneDump` (one
thread writes, and before the process dies all sections or none), `StopEnds` (once
asked to stop the process ends), `FatalEnds` (a fatal signal ends the process).

`FatalEnds` has an exception in its statement: two threads crash, and the one that
pauses was interrupted while it printed. `fflush` then waits for a lock that is
never given back, so that the first handler does not "finish", on which the comment
at `put/stacktrace.cpp:337` relies.

Eight properties are stated by theorems and no run: `EnforcedHold` (what is given to
`TG_ENFORCE` holds, however it reads), `HandleTypeOK` and `ServiceTypeOK`, which the runs' properties imply or rest on; `ImplementsTimers` of
`TrafficGenerator` and of `FlowsGenerator`; `AnsweredOnce` (no callback is called
twice) and `ConnectionLife` (no coroutine goes back, and each begins to write in the
step that answers it); `HandlerGoesOn` (of the threads in the crash handler one can
go on unless one that pauses has the lock of `stdout`), which is the part of
`FatalEnds` that needs no fairness.

Fairness. `FairSpec` assumes that each loop goes on: the management loop takes
its own steps (but no client is obliged to ask), the generation loop takes its
steps, and time passes. Both loops spin without ever waiting, each on a CPU of
its own, so weak fairness of each loop as a whole is what the code gives.
`ServiceFairSpec` adds that the network takes or refuses every response in the end;
that clients connect or send anything is not assumed.
`AnsweredUnlessLost` needs no fairness towards a particular message, as queues
and batches are handled in order. For flows and events: construction goes on,
`rte_timer_manage` is called again and again by the same loop, time passes, and
each timer that one call has found is called back before the next call, which is
weak fairness per flow because the call ends only when all are done. For the
process: each thread goes on, in its loop or in the handler. A batch of requests is
finite and so are the events of one `rte_timer_manage`, but the model does not count
them; that an iteration passes from requests to events (strong fairness, as a start
in progress interrupts it) and then ends (weak) takes their place.

Deadlock is checked for the program, alone and behind its server, which never stops
unless it aborts. It is not checked for the ring, which ends with its destructor,
for events and handles, whose thread may be killed, for a configuration, whose
construction ends, and for the process, which exits.

Six runs find what the code does against what is written about it; "findings" in
`PROJECT.json` has each with the line it contradicts.

## 4. The proofs

`SpscRing_proofs` assumes only what the modules' ASSUMEs state: a non-zero
`Size`, at least two laps, distinct markers. The inductive invariant is
`TypeOK /\ CachesTrail /\ Calls /\ SlotsMatchIndexes`. None of the parts is
inductive alone: which slots a step changes depends on how far the call in
progress has come, which is what `Calls` records for each value of the two
program counters. The argument goes over distances: every index is the tail plus
a distance of at most `Size`, two distances below `Size` meet in a slot only if
they are equal (`Pos` of `Add`, lemmas on the remainder), and every step moves one
of the distances. `NoSlotRace` and `NothingLeaks` follow from the invariant.
`RingImplementsFifo` maps each step to a step of `BoundedFifo`: publishing the
head is the `Put`, handing entries to the function is the `Take`, everything else
leaves the content, the entries from the tail that have not been handed over, as
it is.

`TrafficGenerator_proofs` covers every number of connections and flows, every
capacity with room for one request of each kind, and every batch and burst size.
First `TypeOK /\ Phases`, where `Phases` says what is empty at which point of the
two loops; `IdleIsClean` follows. Then `OneInFlight`, which is inductive with it:
seen as the two sequences `Asking` and `Answering`, a dequeue moves nothing, a
handler takes the head of one and appends to the other, and a lemma per such move
and kind (`AskPlace`, `RespondPlace`, `LosePlace`, `SettlePlace`, ...) keeps one
message of the kind. `RequestsAlwaysFit` is a pigeonhole argument on it: of the
kind asked for nothing is under way, of the other two at most one request each.
`EnforcedHold` follows from `Phases` and `OneInFlight` together: the conditions of
every `TG_ENFORCE` hold where the program comes to it, whatever `AbortsWhen` is. With
the intended reading this is `NoAbort`.

`FlowsGenerator_proofs` assumes of the constants what their ASSUMEs say and nothing
else; networks without hosts are included. The strengthening ties the iterators to
the number of starts: `burstIdx` is `taken` modulo the burst, each iterator the
address whose number is the quotient modulo the round (`IncResetAddress` has the
three kinds of networks: one address, two, more). `ReachedHosts` says that an iterator
stays with the hosts of its network if there are any. `taken` itself
counts modulo one round of all combinations, and a lemma on remainders carries
quotient and remainder over an increment. From the same invariant every step is
a `Begin` or `Advance` of `Replay` or leaves its variables alone. For `FlowTimers`
the types are almost enough: `SetupFlowEvents` is its `Begin`, and the times that pass
show only in which timers a pass finds expired.

`EventScheduler_proofs` rests on what holds at each phase: nothing is on its way
to a callback unless a generation runs, and none ends while something is. With
that `ReturnTimers` meets no running timer. `EventsImplementTimers` sees of a
generation what there is while it runs (`WhileRunning`); the timers armed during its
construction appear all at once at its end, and those of a construction that fails
never. `EventHandle_proofs` shows
`OneOwner` inductive with the types and `BoundIffHolding`, counting the locals of
each level of the recursion among the owners.

`RequestOrder_proofs` adds the order of requests. Its invariant says of a number
`n` that the first `n` requests sent have been handled and that the others are on
their way in that order (`InOrder`); that whoever has been answered is among the
first `n`, and what travels back as well (`AnsweredOf`); and that the generation
that runs was asked for by one of them, after every stop among them, and is not
answered with a failure (`RunningOf`). Handling a request is the only step that
moves `n`. `OneInFlight` is needed where a callback is called: it is the callback of
the client the response came from. `StopEndsEarlierStarts` and
`FailedStartsNothing` are two readings of the invariant.

On top of it comes `CallbackInv`, the converse of `OneInFlight`: every client that
waits has its callback stored, in the place of its own kind. `ProgramAnsweredOnce`
follows, as answering takes a stored callback whose client has no answer yet.
`ProgramImplementsControl` then maps each step. What a step does to the stages of all
clients follows from which client's message it moves: only one message has a given
client (`WhoseMessage`), so a client whose message stays where it is keeps its stage
(`StageThen`, `StageSame`). A request handler is an `Accept` or a `Refuse`
(`WaitsBusy`: the callback of a kind is stored exactly while somebody waits for an
answer of that kind, lost or not; that 500 is never answered is
`RequestsAlwaysFit`), the handling of a request is the `Serve` of the head of the
queue with the outcome that is sent back or thrown away, the handling of a response
is the `Tell`, the end of the duration is `TimeUp`, and the rest is hidden.
`ProgramImplementsTimers` is in `TrafficGenerator_proofs` and needs `Phases` only.

`Service_proofs` first shows that a step of the service is a step of the program or
leaves it alone, so `ServiceSpec` implements `Spec` and all theorems about the
program hold behind the server. `OneResumer` is then split: `HttpInv` (a completed
operation meets the coroutine that waits for it, one per connection) with a lemma
for an operation that completes, a handler that runs, callbacks that are called;
and `Resumers`, which ties `conn` to the manager's callbacks and answers and is
disturbed by `PollRequest` and `HandleResponses` only. `ServiceConnectionLife` goes
from a step of the service to the coroutines it resumes: those `Called`, of which
`Resumers` says that they wait, and the one whose operation has completed.
`ServiceImplementsControl` is `ServiceImplementsProgram` followed by
`ProgramImplementsControl`.

`Lifecycle_proofs` holds for every size of the pool and of the queues, all captures
and every number of segments. The invariant has `Prefix` (what is built is a prefix
of `Members`), `LoopPhases` and `PortPhases` (which phase of `main()` goes with which
state of loops and port), `MbufPlaces` (the mbufs of all places add up to the pool's
size as long as it exists), `GenerationPhases` (what is empty at which point of a
start or an iteration), `WholeSoFar` (the packets read so far are complete),
`OneWriter` (one thread writes as long as there is one in the handler at all, and its
place tells what has been written) and `WorkerLater` (while the output descriptor is
being set there is no second thread that could be in the handler, so that no dump
begins without an output and ends with one). The
safety properties of the run `lifecycle` follow; that the sum of the places is kept
is arithmetic per step, and that the pool goes last is the order of `Members`.

Only model-checked: liveness (`AnsweredUnlessLost`, `GenerationEnds`,
`ConnectionsEnd`, `AcceptsAgain`, `KeepsReplaying`, `EventsFire`, `StopEnds`,
`FatalEnds`), which is out of the prover's reach, as are the counterexamples of the
six runs that expect a violation. Every other property of a passing run is a theorem,
or in the case of `NoAbort` a consequence of one.

## 5. Plan

Done: all modules and proofs above. Left:

1. The way of a configuration: what `GenConfig` accepts is what `FlowsGenerator`
   assumes of its constants; the duration and the address of the DUT.
2. Several generators in `GenManager`, of which a later one fails to construct
   (`EventScheduler` and `PacketBuffers` have this case for timers and mbufs).
3. The rest of the configuration file: which end points and cpus are accepted.
4. The queues of `Channels` as two instances of `BoundedFifo`: a dequeue is its
   `StartTake` and `Take` in one step, and the batch is used up afterwards, so
   `BoundedFifo` needs a record of what has been delivered first.

## 6. Not modelled

The ring's slot counts (nothing calls them); JSON texts and bodies; the limits of
the duration and the address in a request; statistics and the counters of dropped
packets, which are only reported; logging; the headers of packets; received packets,
which are freed at once; the getters and moves of `eth_dev`; the NIC and the DPDK
library beyond what is said above, its interrupt thread included; what the third
part of an end point is when there are two (`app/priv/config.cpp:19`, undefined
behaviour of which nothing later can be said); what `fmt` and `stdout` do when
`signal_handler()` interrupts a print (`app/application.cpp:97`); the text that the
crash handler writes and how it formats numbers; build files, tools and third-party
code. The reasons are with each component in `PROJECT.json`.
