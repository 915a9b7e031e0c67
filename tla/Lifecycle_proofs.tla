-------------------------- MODULE Lifecycle_proofs --------------------------
(***************************************************************************)
(* What holds of the process from main() to its end for every size of the  *)
(* pool and of the NIC's queues and for any captures.                      *)
(***************************************************************************)
EXTENDS Lifecycle, SequenceTheorems, TLAPS

\* The number of members that exist.
Cnt == Len(built)

\* The members that exist are the first ones, in the order of construction.
Prefix == Cnt \in 0..6 /\ \A i \in 1..Cnt : built[i] = Members[i]

\* How far main() has come, and where the loops are.
LoopPhases ==
  /\ phase = "run" => Cnt = 6
  /\ phase \in {"install", "output", "config", "exited"} => Cnt = 0
  /\ looping # {} => phase = "run"
  /\ genAt # "top" => \E t \in looping : loopOf[t] = "gen"

\* The port is the fourth member; it is started exactly in its lifetime and, before
\* that, while its link is waited for.
PortPhases ==
  /\ Cnt >= 4 => port = "started" /\ ethDev = "valid"
  /\ Cnt < 4 => ethDev # "valid"
  /\ ethDev \in {"configure", "start", "link"} => Cnt = 3 /\ phase = "construct"
  /\ port = "started" => ethDev \in {"link", "valid"}
  /\ port = "configured" => ethDev \in {"start", "failed"}
  /\ ethDev = "link" => port = "started"

\* The pool is the third member, and each of its mbufs is in one place; which
\* places may hold one depends on the port, the generation and the start request.
MbufPlaces ==
  /\ Cnt >= 3 => pool + Out = CntMbufs
  /\ Cnt < 3 => pool = 0
  /\ port # "started" => nicTx = 0 /\ nicRx = 0
  /\ ~started => playing = 0
  /\ genAt # "events" => sending = 0
  /\ load # "body" => chain = 0
  /\ load \in {"none", "open"} => loaded = 0
  /\ load = "none" => building = 0

\* A generation runs in the loop, and is left over after it until generators_ is
\* destroyed; a start request is handled while none does.
GenerationPhases ==
  /\ started => phase = "run" \/ (phase = "unwind" /\ Cnt >= 5)
  /\ load # "none" => genAt = "requests" /\ ~started

\* The packets read so far were complete.
WholeSoFar ==
  /\ load = "body" => cntPkts < Len(capture)
  /\ load \in {"header", "body", "verify"} => \A i \in 1..cntPkts : capture[i].end = "whole"

\* What has been written when a thread is at a place in the handler, if the output
\* is set.
SoFar == [info |-> <<>>, stack |-> <<"info">>, registers |-> <<"info", "stack">>,
          flush |-> Sections, restore |-> Sections, raise |-> Sections]

\* Until the first thread comes in nobody is there and nothing is written; then one
\* thread writes, and how far it has come tells what.
OneWriter ==
  /\ ~called => dumped = <<>> /\ \A t \in Threads : at[t] = "out"
  /\ called => \E t \in Threads : Dumping(t)
  /\ \A s, t \in Threads : Dumping(s) /\ Dumping(t) => s = t
  /\ \A t \in Threads : Dumping(t) => dumped = IF outputSet THEN SoFar[at[t]] ELSE <<>>
  /\ stdoutOf # NoThread => at[stdoutOf] # "out"

\* The output is set before there is a worker: nobody is writing then but the main
\* thread.
WorkerLater == phase \in {"install", "output", "config"} => at[Worker] = "out"

LifeInv == Prefix /\ LoopPhases /\ PortPhases
BufferInv == MbufPlaces /\ GenerationPhases /\ WholeSoFar /\ LoadsWholePackets

IInv == TypeOK /\ LifeInv /\ BufferInv /\ OneWriter /\ WorkerLater
-----------------------------------------------------------------------------
(***************************************************************************)
(* The crash handler, whatever the rest of the process does                *)
(***************************************************************************)

LEMMA SoFarIs ==
  /\ SoFar["info"] = <<>>
  /\ SoFar["stack"] = Append(SoFar["info"], "info")
  /\ SoFar["registers"] = Append(SoFar["stack"], "stack")
  /\ SoFar["flush"] = Append(SoFar["registers"], "registers")
  /\ SoFar["restore"] = SoFar["flush"] /\ SoFar["raise"] = SoFar["flush"]
<1>1. <<>> \o <<"info">> = <<"info">>
  OBVIOUS
<1> QED BY <1>1 DEF SoFar, Sections

\* A thread of the handler that moves on from one place to the next, having written
\* what it is to write between them.
LEMMA MoveOn ==
  ASSUME CrashTypeOK, OneWriter, NEW t \in Threads, NEW from, NEW to,
         at[t] = from, at' = [at EXCEPT ![t] = to],
         from \notin {"out", "paused"},
         to \in {"info", "stack", "registers", "flush", "restore", "raise"},
         UNCHANGED <<installed, outputSet, called, stdoutOf, killed>>,
         dumped' = IF outputSet THEN SoFar[to] ELSE <<>>,
         dumped' \in Seq({"info", "stack", "registers"})
  PROVE  CrashTypeOK' /\ OneWriter'
<1> USE DEF CrashTypeOK
<1>1. CrashTypeOK' /\ at'[t] = to /\ \A s \in Threads : s # t => at'[s] = at[s]
  OBVIOUS
<1>2. Dumping(t) /\ Dumping(t)' /\ called
  BY <1>1 DEF Dumping, OneWriter
<1>3. \A s \in Threads : s # t => ~Dumping(s) /\ ~Dumping(s)'
  BY <1>1, <1>2 DEF Dumping, OneWriter
<1>4. \A s \in Threads : Dumping(s)' => dumped' = IF outputSet' THEN SoFar[at'[s]] ELSE <<>>
  BY <1>1, <1>3
<1>5. stdoutOf' # NoThread => at'[stdoutOf'] # "out"
  BY <1>1 DEF OneWriter
<1> QED BY <1>1, <1>2, <1>3, <1>4, <1>5 DEF OneWriter

\* Every step of a thread in the handler.
LEMMA HandleStep ==
  ASSUME CrashTypeOK, OneWriter, NEW t \in Threads, Handle(t)
  PROVE  CrashTypeOK' /\ OneWriter'
<1>1. Dumping(t) => dumped = IF outputSet THEN SoFar[at[t]] ELSE <<>>
  BY DEF OneWriter
<1>2. ASSUME NEW section \in {"info", "stack", "registers"}, NEW next, Dump(t, section, next),
             SoFar[next] = Append(SoFar[section], section),
             next \in {"info", "stack", "registers", "flush", "restore", "raise"}
      PROVE  CrashTypeOK' /\ OneWriter'
  <2>1. at[t] = section /\ at' = [at EXCEPT ![t] = next] /\ Dumping(t)
    BY <1>2 DEF Dump, Goto, Dumping
  <2>2. dumped' = IF outputSet THEN SoFar[next] ELSE <<>>
    BY <1>1, <1>2, <2>1 DEF Dump
  <2>3. dumped' \in Seq({"info", "stack", "registers"})
    BY <1>2 DEF Dump, CrashTypeOK
  <2> QED BY <1>2, <2>1, <2>2, <2>3, MoveOn DEF Dump
<1>3. CASE DumpSignalInfo(t) \/ DumpStacktrace(t) \/ DumpRegisters(t)
  BY <1>2, <1>3, SoFarIs DEF DumpSignalInfo, DumpStacktrace, DumpRegisters
<1>4. CASE Flush(t) \/ RestoreDefault(t)
  <2>1. PICK from \in {"flush", "restore"}, to \in {"restore", "raise"} :
          /\ at[t] = from /\ at' = [at EXCEPT ![t] = to] /\ SoFar[to] = SoFar[from]
          /\ UNCHANGED <<installed, outputSet, called, stdoutOf, dumped, killed>>
    BY <1>4, SoFarIs DEF Flush, RestoreDefault, Goto
  <2>2. Dumping(t)
    BY <2>1 DEF Dumping
  <2>3. dumped' = IF outputSet THEN SoFar[to] ELSE <<>>
    BY <1>1, <2>1, <2>2
  <2>4. dumped' \in Seq({"info", "stack", "registers"})
    BY <2>1 DEF CrashTypeOK
  <2> QED BY <2>1, <2>3, <2>4, MoveOn
<1>5. CASE Reraise(t)
  BY <1>5 DEF Reraise, CrashTypeOK, OneWriter, Dumping
<1> QED BY <1>3, <1>4, <1>5 DEF Handle

\* A thread comes in, first or not.
LEMMA EnterHandlerStep ==
  ASSUME CrashTypeOK, OneWriter, NEW t \in Threads, EnterHandler(t)
  PROVE  CrashTypeOK' /\ OneWriter'
<1>1. CrashTypeOK' /\ called' /\ dumped' = dumped /\ outputSet' = outputSet
  BY DEF CrashTypeOK, EnterHandler
<1>2. /\ at[t] = "out" /\ at'[t] = IF called THEN "paused" ELSE "info"
      /\ \A s \in Threads : s # t => at'[s] = at[s]
  BY DEF CrashTypeOK, EnterHandler
<1>3. stdoutOf' # NoThread => at'[stdoutOf'] # "out"
  <2>1. CASE stdoutOf' = stdoutOf
    BY <1>2, <2>1 DEF OneWriter, CrashTypeOK
  <2>2. CASE stdoutOf' = t
    BY <1>2, <2>2
  <2> QED BY <2>1, <2>2 DEF EnterHandler
<1>4. CASE called
  <2>1. \A s \in Threads : Dumping(s)' <=> Dumping(s)
    BY <1>2, <1>4 DEF Dumping
  <2>2. \A s \in Threads : Dumping(s) => at'[s] = at[s]
    BY <1>2 DEF Dumping
  <2> QED BY <1>1, <1>3, <1>4, <2>1, <2>2 DEF OneWriter
<1>5. CASE ~called
  <2>1. dumped' = <<>> /\ at'[t] = "info" /\ \A s \in Threads : s # t => at'[s] = "out"
    BY <1>1, <1>2, <1>5 DEF OneWriter
  <2>2. \A s \in Threads : Dumping(s)' <=> s = t
    BY <2>1 DEF Dumping
  <2> QED BY <1>1, <1>3, <2>1, <2>2, SoFarIs DEF OneWriter
<1> QED BY <1>4, <1>5

\* Steps that leave the places of the threads and what is written alone; the output
\* is set while nobody is in the handler.
LEMMA NobodyMoves ==
  ASSUME CrashTypeOK, OneWriter, UNCHANGED <<called, at, stdoutOf, dumped>>,
         installed' \in {"none", "some", "all"}, outputSet' \in BOOLEAN, killed' \in BOOLEAN,
         outputSet' = outputSet \/ \A t \in Threads : at[t] = "out"
  PROVE  CrashTypeOK' /\ OneWriter'
<1>1. CrashTypeOK'
  BY DEF CrashTypeOK
<1>2. \A t \in Threads : Dumping(t)' <=> Dumping(t)
  BY DEF Dumping
<1>3. \A t \in Threads : Dumping(t) => dumped' = IF outputSet' THEN SoFar[at'[t]] ELSE <<>>
  BY DEF OneWriter, Dumping
<1> QED BY <1>1, <1>2, <1>3 DEF OneWriter
-----------------------------------------------------------------------------
(***************************************************************************)
(* The members                                                             *)
(***************************************************************************)

\* The types of what is not the crash handler's.
LifeTypes ==
  /\ EthTypeOK
  /\ phase \in {"install", "output", "config", "construct", "run", "unwind", "exited"}
  /\ built \in Seq({"eal", "queues", "pool", "port", "generation", "mgmt"})
  /\ loopOf \in [Threads -> {"mgmt", "gen", "none"}]
  /\ looping \in SUBSET Threads
  /\ genAt \in {"top", "requests", "events"}
  /\ subscribed \in BOOLEAN /\ stop \in BOOLEAN

LEMMA MembersAre ==
  /\ Members[1] = "eal" /\ Members[2] = "queues" /\ Members[3] = "pool"
  /\ Members[4] = "port" /\ Members[5] = "generation" /\ Members[6] = "mgmt"
  /\ Len(Members) = 6
  /\ \A i \in 1..6 : Members[i] \in {"eal", "queues", "pool", "port", "generation", "mgmt"}
<1>1. \A i \in 1..6 : i = 1 \/ i = 2 \/ i = 3 \/ i = 4 \/ i = 5 \/ i = 6
  OBVIOUS
<1> QED BY <1>1 DEF Members

\* The member whose turn it is tells how many there are.
LEMMA DueIs ==
  ASSUME Prefix, Len(built) < Len(Members)
  PROVE  /\ Cnt \in 0..5 /\ Due = Members[Cnt + 1]
         /\ Due = "eal" <=> Cnt = 0
         /\ Due = "queues" <=> Cnt = 1
         /\ Due = "pool" <=> Cnt = 2
         /\ Due = "port" <=> Cnt = 3
         /\ Due = "generation" <=> Cnt = 4
         /\ Due = "mgmt" <=> Cnt = 5
<1>1. Cnt \in 0..6 /\ Cnt < Len(Members)
  BY DEF Prefix, Cnt
<1>2. Cnt \in 0..5
  BY <1>1, MembersAre
<1>3. Due = Members[Cnt + 1]
  BY DEF Due, Cnt
<1>4. Cnt = 0 \/ Cnt = 1 \/ Cnt = 2 \/ Cnt = 3 \/ Cnt = 4 \/ Cnt = 5
  BY <1>2
<1> QED BY <1>2, <1>3, <1>4, MembersAre

\* And so does the last one there is.
LEMMA LastIs ==
  ASSUME Prefix, built # <<>>, LifeTypes
  PROVE  /\ Cnt \in 1..6
         /\ Last = "eal" <=> Cnt = 1
         /\ Last = "queues" <=> Cnt = 2
         /\ Last = "pool" <=> Cnt = 3
         /\ Last = "port" <=> Cnt = 4
         /\ Last = "generation" <=> Cnt = 5
         /\ Last = "mgmt" <=> Cnt = 6
<1>1. Cnt # 0
  BY DEF LifeTypes, Cnt
<1>2. Cnt \in 1..6
  BY <1>1 DEF Prefix
<1>3. Last = Members[Cnt]
  BY <1>2 DEF Last, Prefix, Cnt
<1>4. Cnt = 1 \/ Cnt = 2 \/ Cnt = 3 \/ Cnt = 4 \/ Cnt = 5 \/ Cnt = 6
  BY <1>2
<1> QED BY <1>2, <1>3, <1>4, MembersAre

LEMMA ExistsMeans ==
  ASSUME Prefix
  PROVE  Exists("pool") <=> Cnt >= 3
<1>1. \A i \in 1..6 : Members[i] = "pool" <=> i = 3
  BY MembersAre, \A i \in 1..6 : i = 1 \/ i = 2 \/ i = 3 \/ i = 4 \/ i = 5 \/ i = 6
<1>2. Exists("pool") <=> \E i \in 1..Cnt : built[i] = "pool"
  BY DEF Exists, Cnt
<1> QED BY <1>1, <1>2 DEF Prefix

LEMMA LongerPrefix ==
  ASSUME Prefix, Cnt \in 0..5, Cnt' = Cnt + 1, built'[Cnt + 1] = Members[Cnt + 1],
         \A i \in 1..Cnt : built'[i] = built[i]
  PROVE  Prefix'
<1>1. Cnt' \in 0..6 /\ \A i \in 1..Cnt' : i \in 1..Cnt \/ i = Cnt + 1
  OBVIOUS
<1> QED BY <1>1 DEF Prefix

LEMMA ShorterPrefix ==
  ASSUME Prefix, Cnt \in 1..6, NEW n, n = Cnt - 1, Cnt' = IF 1 <= n THEN n - 1 + 1 ELSE 0,
         \A i \in 1..(n - 1 + 1) : built'[i] = built[1 + i - 1]
  PROVE  Cnt' = Cnt - 1 /\ Prefix'
<1>1. Cnt' = Cnt - 1
  OBVIOUS
<1>2. \A i \in 1..Cnt' : i \in 1..(n - 1 + 1) /\ i \in 1..Cnt /\ 1 + i - 1 = i
  BY <1>1
<1>3. \A i \in 1..Cnt' : built'[i] = built[i]
  BY <1>2
<1>4. Cnt' \in 0..6
  BY <1>1
<1> QED BY <1>1, <1>2, <1>3, <1>4 DEF Prefix

\* One member more.
LEMMA OneMore ==
  ASSUME LifeTypes, Prefix, Len(built) < Len(Members), built' = Append(built, Due)
  PROVE  /\ Prefix' /\ Cnt' = Cnt + 1
         /\ built' \in Seq({"eal", "queues", "pool", "port", "generation", "mgmt"})
<1>1. Cnt \in 0..5 /\ Due = Members[Cnt + 1]
  BY DueIs
<1>2. Due \in {"eal", "queues", "pool", "port", "generation", "mgmt"}
  BY <1>1, MembersAre
<1>3. built \in Seq({"eal", "queues", "pool", "port", "generation", "mgmt"})
  BY DEF LifeTypes
<1>4. /\ Len(built') = Len(built) + 1
      /\ built' \in Seq({"eal", "queues", "pool", "port", "generation", "mgmt"})
      /\ built'[Len(built) + 1] = Due
      /\ \A i \in 1..Len(built) : built'[i] = built[i]
  BY <1>2, <1>3
<1>5. /\ Cnt' = Cnt + 1 /\ built'[Cnt + 1] = Due
      /\ \A i \in 1..Cnt : built'[i] = built[i]
  BY <1>4 DEF Cnt
<1>6. built'[Cnt + 1] = Members[Cnt + 1]
  BY <1>1, <1>5
<1> QED BY <1>1, <1>4, <1>5, <1>6, LongerPrefix

\* One member less.
LEMMA OneLess ==
  ASSUME LifeTypes, Prefix, built # <<>>, built' = SubSeq(built, 1, Len(built) - 1)
  PROVE  /\ Prefix' /\ Cnt' = Cnt - 1
         /\ built' \in Seq({"eal", "queues", "pool", "port", "generation", "mgmt"})
<1> DEFINE n == Len(built) - 1
<1>1. Cnt \in 1..6 /\ n = Cnt - 1
  BY LastIs DEF Cnt
<1>2. built' = SubSeq(built, 1, n)
  OBVIOUS
<1> HIDE DEF n
<1>3. n \in 0..5
  BY <1>1
<1>4. \A i \in 1..n : built[i] \in {"eal", "queues", "pool", "port", "generation", "mgmt"}
  <2>1. \A i \in 1..n : i \in 1..Cnt /\ i \in 1..6
    BY <1>1
  <2> QED BY <2>1, MembersAre DEF Prefix
<1>5. /\ built' \in Seq({"eal", "queues", "pool", "port", "generation", "mgmt"})
      /\ Cnt' = IF 1 <= n THEN n - 1 + 1 ELSE 0
      /\ \A i \in 1..(n - 1 + 1) : built'[i] = built[1 + i - 1]
  BY <1>2, <1>3, <1>4, SubSeqProperties DEF Cnt
<1> QED BY <1>1, <1>5, ShorterPrefix

LEMMA SameMembers ==
  ASSUME Prefix, built' = built
  PROVE  Prefix' /\ Cnt' = Cnt
BY DEF Prefix, Cnt
-----------------------------------------------------------------------------
(***************************************************************************)
(* main()                                                                  *)
(***************************************************************************)

LEMMA QueueSizes == RxRing \in Nat /\ TxRing \in Nat
BY BuffersAssumption

LEMMA PoolSize == CntMbufs \in Nat
BY BuffersAssumption

Types == LifeTypes /\ BuffersTypeOK
Inv == LifeInv /\ BufferInv

\* Steps that touch no mbuf and no port.
LEMMA NothingTouched ==
  ASSUME Types, Inv, UNCHANGED <<bufferVars, ethVars, loopOf, genAt>>,
         LifeTypes', Prefix', LoopPhases',
         Cnt' \in 0..6, Cnt >= 3 <=> Cnt' >= 3, Cnt >= 4 <=> Cnt' >= 4,
         ethDev \in {"configure", "start", "link"} => Cnt' = Cnt /\ phase' = phase,
         started => phase' = "run" \/ (phase' = "unwind" /\ Cnt' >= 5)
  PROVE  Types' /\ Inv'
<1>1. BuffersTypeOK' /\ WholeSoFar' /\ LoadsWholePackets'
  BY DEF Types, Inv, BufferInv, bufferVars, mbufVars, loadVars, BuffersTypeOK, WholeSoFar,
         LoadsWholePackets
<1>0. (Cnt < 3 <=> Cnt' < 3) /\ (Cnt < 4 <=> Cnt' < 4)
  <2>1. Cnt \in 0..6
    BY DEF Inv, LifeInv, Prefix
  <2> QED BY <2>1
<1>2. PortPhases'
  BY <1>0 DEF Types, Inv, LifeInv, PortPhases, ethVars
<1>3. MbufPlaces'
  BY <1>0 DEF Types, Inv, BufferInv, MbufPlaces, Out, bufferVars, mbufVars, loadVars, ethVars
<1>4. GenerationPhases'
  BY DEF Types, Inv, BufferInv, GenerationPhases, bufferVars, loadVars
<1> QED BY <1>1, <1>2, <1>3, <1>4 DEF Types, Inv, LifeInv, BufferInv

\* The steps of main() that do not construct or destroy a member.
LEMMA MainProceeds ==
  ASSUME Types, Inv, InstallHandler \/ ReadConfig \/ Launch \/ JoinLoops \/ ReturnFromMain
  PROVE  Types' /\ Inv'
<1> USE DEF Types, Inv, LifeInv, LifeTypes, EthTypeOK
<1>1. Prefix' /\ Cnt' = Cnt /\ Cnt \in 0..6
  <2>1. built' = built
    BY DEF InstallHandler, ReadConfig, Launch, JoinLoops, ReturnFromMain
  <2> QED BY <2>1, SameMembers DEF Prefix
<1>2. Len(Members) = 6
  BY MembersAre
<1>3. built = Members => Cnt = 6
  BY <1>2 DEF Cnt
<1>4. built = <<>> => Cnt = 0
  BY DEF Cnt
<1>5. CASE InstallHandler
  <2>1. LifeTypes' /\ LoopPhases'
    BY <1>1, <1>5 DEF InstallHandler, Throw, ethVars, LoopPhases
  <2>2. UNCHANGED <<bufferVars, ethVars, loopOf, genAt>> /\ ~started
    BY <1>5 DEF InstallHandler, BufferInv, GenerationPhases
  <2>3. ethDev \notin {"configure", "start", "link"}
    BY <1>5 DEF InstallHandler, PortPhases
  <2> QED BY <1>1, <2>1, <2>2, <2>3, NothingTouched
<1>6. CASE ReadConfig
  <2>0. Cnt = 0 /\ looping = {} /\ genAt = "top" /\ ~started
    BY <1>6 DEF ReadConfig, LoopPhases, BufferInv, GenerationPhases
  <2>1. LifeTypes'
    BY <1>6 DEF ReadConfig, Throw, ethVars
  <2>2. Cnt' = 0 /\ looping' = {} /\ genAt' = "top" /\ phase' \in {"unwind", "construct"}
    BY <1>1, <1>6, <2>0 DEF ReadConfig, Throw
  <2>3. LoopPhases'
    BY <2>2 DEF LoopPhases
  <2>4. UNCHANGED <<port, ethDev>> /\ ethDev \notin {"configure", "start", "link"}
    BY <1>6 DEF ReadConfig, PortPhases, ethVars
  <2>5. PortPhases'
    BY <2>2, <2>0, <2>4 DEF PortPhases
  <2>6. UNCHANGED <<bufferVars, genAt>>
    BY <1>6 DEF ReadConfig
  <2>7. BuffersTypeOK' /\ BufferInv'
    BY <2>0, <2>2, <2>4, <2>6
       DEF BufferInv, bufferVars, mbufVars, loadVars, BuffersTypeOK, WholeSoFar,
           LoadsWholePackets, MbufPlaces, Out, GenerationPhases
  <2> QED BY <1>1, <2>1, <2>3, <2>5, <2>7
<1>7. CASE Launch
  <2>1. LifeTypes' /\ LoopPhases'
    BY <1>1, <1>3, <1>7 DEF Launch, Throw, ethVars, LoopPhases
  <2>2. UNCHANGED <<bufferVars, ethVars, loopOf, genAt>> /\ ~started /\ Cnt = 6
    BY <1>3, <1>7 DEF Launch, BufferInv, GenerationPhases
  <2>3. ethDev \notin {"configure", "start", "link"}
    BY <2>2 DEF PortPhases
  <2> QED BY <1>1, <2>1, <2>2, <2>3, NothingTouched
<1>8. CASE JoinLoops
  <2>1. LifeTypes' /\ LoopPhases'
    BY <1>1, <1>8 DEF JoinLoops, ethVars, LoopPhases
  <2>2. UNCHANGED <<bufferVars, ethVars, loopOf, genAt>> /\ Cnt = 6 /\ phase' = "unwind"
    BY <1>8 DEF JoinLoops, LoopPhases
  <2>3. ethDev \notin {"configure", "start", "link"}
    BY <2>2 DEF PortPhases
  <2> QED BY <1>1, <2>1, <2>2, <2>3, NothingTouched
<1>9. CASE ReturnFromMain
  <2>1. LifeTypes' /\ LoopPhases'
    BY <1>1, <1>4, <1>9 DEF ReturnFromMain, ethVars, LoopPhases
  <2>2. UNCHANGED <<bufferVars, ethVars, loopOf, genAt>> /\ Cnt = 0 /\ ~started
    BY <1>4, <1>9 DEF ReturnFromMain, BufferInv, GenerationPhases
  <2>3. ethDev \notin {"configure", "start", "link"}
    BY <2>2 DEF PortPhases
  <2> QED BY <1>1, <2>1, <2>2, <2>3, NothingTouched
<1> QED BY <1>5, <1>6, <1>7, <1>8, <1>9

\* The steps that construct a member, or fail to.
LEMMA MainConstructs ==
  ASSUME Types, Inv, ConstructMember \/ ConstructPool \/ ConstructPort
  PROVE  Types' /\ Inv'
<1> USE DEF Types, Inv, LifeInv
<1>1. /\ Len(built) < Len(Members) /\ phase = "construct" /\ looping = {} /\ genAt = "top"
      /\ ~started /\ load = "none" /\ sending = 0 /\ playing = 0 /\ chain = 0 /\ loaded = 0
      /\ building = 0 /\ UNCHANGED <<loopOf, looping, genAt, subscribed, stop>>
  BY DEF ConstructMember, ConstructPool, ConstructPort, LoopPhases, BufferInv, GenerationPhases,
         MbufPlaces
<1>2. /\ Cnt \in 0..5 /\ (Due = "eal" <=> Cnt = 0) /\ (Due = "queues" <=> Cnt = 1)
      /\ (Due = "pool" <=> Cnt = 2) /\ (Due = "port" <=> Cnt = 3)
      /\ (Due = "generation" <=> Cnt = 4) /\ (Due = "mgmt" <=> Cnt = 5)
  BY <1>1, DueIs
<1>3. built' = Append(built, Due) =>
        /\ Prefix' /\ Cnt' = Cnt + 1
        /\ built' \in Seq({"eal", "queues", "pool", "port", "generation", "mgmt"})
  BY <1>1, OneMore
<1>4. built' = built =>
        /\ Prefix' /\ Cnt' = Cnt
        /\ built' \in Seq({"eal", "queues", "pool", "port", "generation", "mgmt"})
  BY SameMembers DEF LifeTypes
<1>5. phase' \in {"construct", "unwind"}
  BY <1>1 DEF ConstructMember, ConstructPool, ConstructPort, Throw
<1>6. LoopPhases'
  BY <1>1, <1>5 DEF LoopPhases
<1>7. CASE ConstructMember
  <2>1. Cnt \in {0, 1, 4, 5} /\ (built' = built \/ built' = Append(built, Due))
    BY <1>2, <1>7 DEF ConstructMember
  <2>2. Cnt' \in {Cnt, Cnt + 1} /\ Prefix'
    BY <1>3, <1>4, <2>1
  <2>3. UNCHANGED <<bufferVars, ethVars, loopOf, genAt>>
    BY <1>7 DEF ConstructMember
  <2>4. LifeTypes'
    BY <1>1, <1>3, <1>4, <1>5, <2>1, <2>3 DEF LifeTypes, EthTypeOK, ethVars
  <2>5. ethDev \notin {"configure", "start", "link"}
    BY <2>1 DEF PortPhases
  <2>6. Cnt' \in 0..6 /\ (Cnt >= 3 <=> Cnt' >= 3) /\ (Cnt >= 4 <=> Cnt' >= 4)
    BY <2>1, <2>2
  <2> QED BY <1>1, <1>6, <2>2, <2>3, <2>4, <2>5, <2>6, NothingTouched
<1>8. CASE ConstructPool
  <2>1. /\ Cnt = 2 /\ UNCHANGED ethVars
        /\ \/ CreatePool /\ built' = Append(built, Due)
           \/ UNCHANGED <<bufferVars, built>>
    BY <1>2, <1>8 DEF ConstructPool
  <2>2. CASE UNCHANGED <<bufferVars, built>>
    <3>1. LifeTypes' /\ Prefix' /\ Cnt' = Cnt
      BY <1>1, <1>4, <1>5, <2>1, <2>2 DEF LifeTypes, EthTypeOK, ethVars
    <3>2. ethDev \notin {"configure", "start", "link"}
      BY <2>1 DEF PortPhases
    <3> QED BY <1>1, <1>6, <2>1, <2>2, <3>1, <3>2, NothingTouched
  <2>3. CASE CreatePool /\ built' = Append(built, Due)
    <3>1. LifeTypes' /\ Prefix' /\ Cnt' = 3
      BY <1>1, <1>3, <1>5, <2>1, <2>3 DEF LifeTypes, EthTypeOK, ethVars
    <3>2. PortPhases' /\ port # "started" /\ port' = port
      BY <2>1, <3>1 DEF PortPhases, ethVars
    <3>3. nicTx = 0 /\ nicRx = 0
      BY <3>2 DEF BufferInv, MbufPlaces
    <3>4. BuffersTypeOK' /\ BufferInv'
      BY <1>1, <2>3, <3>1, <3>2, <3>3, PoolSize, QueueSizes
         DEF CreatePool, BufferInv, loadVars, BuffersTypeOK, WholeSoFar, LoadsWholePackets,
             MbufPlaces, Out, GenerationPhases
    <3> QED BY <1>6, <3>1, <3>2, <3>4
  <2> QED BY <2>1, <2>2, <2>3
<1>9. CASE ConstructPort
  <2>1. Cnt = 3 /\ ethDev # "valid"
    BY <1>2, <1>9 DEF ConstructPort, PortPhases
  <2>2. EthTypeOK' /\ ethDev' # "none"
        /\ port' \in {"closed", "configured", "started"}
        /\ (ethDev' = "valid" => port' = "started")
        /\ (port' = "started" => ethDev' \in {"link", "valid"})
        /\ (port' = "configured" => ethDev' \in {"start", "failed"})
        /\ (ethDev' = "link" => port' = "started")
    BY <1>9 DEF ConstructPort, SetCapabilities, Configure, StartFails, LinkUp, StartPort,
                LinkStaysDown, PortPhases, LifeTypes, EthTypeOK
  <2>3. Prefix' /\ Cnt' = IF ethDev' = "valid" THEN 4 ELSE 3
    BY <1>3, <1>4, <1>9, <2>1 DEF ConstructPort
  <2>4. phase' = IF ethDev' = "failed" THEN "unwind" ELSE "construct"
    BY <1>1, <1>9 DEF ConstructPort
  <2>5. LifeTypes'
    BY <1>1, <1>3, <1>4, <1>5, <1>9, <2>2 DEF LifeTypes, ConstructPort
  <2>6. PortPhases'
    BY <2>2, <2>3, <2>4 DEF PortPhases, EthTypeOK
  <2>7. /\ UNCHANGED <<loadVars, started, sending, playing, chain, loaded, building>>
        /\ \/ UNCHANGED <<pool, nicTx, nicRx>> /\ (port' = port \/ port # "started")
           \/ StartPort /\ FillRxRing
           \/ LinkStaysDown /\ DrainRings
    BY <1>9 DEF ConstructPort, SetCapabilities, Configure, StartFails, LinkUp, FillRxRing,
                DrainRings, bufferVars, mbufVars, PortPhases
  <2>8. /\ pool \in Nat /\ nicTx \in 0..TxRing /\ nicRx \in 0..RxRing
        /\ pool + nicTx + nicRx = CntMbufs /\ (port # "started" => nicTx = 0 /\ nicRx = 0)
    BY <1>1, <2>1, QueueSizes DEF BufferInv, MbufPlaces, BuffersTypeOK, Out
  <2>9. /\ pool' \in Nat /\ nicTx' \in 0..TxRing /\ nicRx' \in 0..RxRing
        /\ pool' + nicTx' + nicRx' = CntMbufs /\ (port' # "started" => nicTx' = 0 /\ nicRx' = 0)
    <3>1. CASE UNCHANGED <<pool, nicTx, nicRx>> /\ (port' = port \/ port # "started")
      BY <2>8, <3>1, QueueSizes
    <3>2. CASE StartPort /\ FillRxRing
      <4>1. port # "started"
        BY <3>2 DEF StartPort, PortPhases
      <4> QED BY <2>8, <3>2, <4>1, QueueSizes DEF StartPort, FillRxRing
    <3>3. CASE LinkStaysDown /\ DrainRings
      BY <2>8, <3>3, QueueSizes DEF LinkStaysDown, DrainRings
    <3> QED BY <2>7, <3>1, <3>2, <3>3
  <2>10. BuffersTypeOK'
    BY <2>7, <2>9 DEF BuffersTypeOK, loadVars
  <2>11. MbufPlaces'
    <3>1. pool' + Out' = CntMbufs
      <4>1. /\ sending' = 0 /\ playing' = 0 /\ chain' = 0 /\ loaded' = 0 /\ building' = 0
        BY <1>1, <2>7
      <4>2. /\ pool' \in Nat /\ nicTx' \in Nat /\ nicRx' \in Nat
            /\ pool' + nicTx' + nicRx' = CntMbufs
        BY <2>9, QueueSizes
      <4> QED BY <4>1, <4>2 DEF Out
    <3>2. Cnt' >= 3 /\ ~(Cnt' < 3)
      BY <2>3
    <3> QED BY <1>1, <2>7, <2>9, <3>1, <3>2 DEF MbufPlaces, loadVars
  <2>12. GenerationPhases' /\ WholeSoFar' /\ LoadsWholePackets'
    BY <1>1, <2>7 DEF loadVars, GenerationPhases, WholeSoFar, LoadsWholePackets
  <2> QED BY <1>6, <2>3, <2>5, <2>6, <2>10, <2>11, <2>12 DEF BufferInv
<1> QED BY <1>7, <1>8, <1>9

\* The steps that destroy a member.
LEMMA MainDestroys ==
  ASSUME Types, Inv, DestroyLast
  PROVE  Types' /\ Inv'
<1> USE DEF Types, Inv, LifeInv
<1>1. /\ built # <<>> /\ phase = "unwind" /\ looping = {} /\ genAt = "top"
      /\ load = "none" /\ sending = 0 /\ chain = 0 /\ loaded = 0 /\ building = 0
      /\ UNCHANGED <<phase, loopOf, looping, genAt, subscribed, stop>>
      /\ built' = SubSeq(built, 1, Len(built) - 1)
  BY DEF DestroyLast, LoopPhases, BufferInv, GenerationPhases, MbufPlaces
<1>2. /\ Cnt \in 1..6 /\ (Last = "eal" <=> Cnt = 1) /\ (Last = "queues" <=> Cnt = 2)
      /\ (Last = "pool" <=> Cnt = 3) /\ (Last = "port" <=> Cnt = 4)
      /\ (Last = "generation" <=> Cnt = 5) /\ (Last = "mgmt" <=> Cnt = 6)
  BY <1>1, LastIs
<1>3. /\ Prefix' /\ Cnt' = Cnt - 1
      /\ built' \in Seq({"eal", "queues", "pool", "port", "generation", "mgmt"})
  BY <1>1, OneLess
<1>4. LoopPhases'
  BY <1>1 DEF LoopPhases
<1>5. started => Cnt >= 5
  BY <1>1 DEF BufferInv, GenerationPhases
<1>6. ethDev \notin {"configure", "start", "link"}
  BY <1>1 DEF PortPhases
<1>7. /\ pool \in Nat /\ playing \in Nat /\ nicTx \in Nat /\ nicRx \in Nat
      /\ (~started => playing = 0)
  BY QueueSizes DEF BuffersTypeOK, BufferInv, MbufPlaces
<1>8. Cnt >= 3 => pool + Out = CntMbufs
  BY DEF BufferInv, MbufPlaces
<1>9. Cnt >= 3 => pool + playing + nicTx + nicRx = CntMbufs
  BY <1>1, <1>7, <1>8 DEF Out
<1>10. CASE Last \in {"eal", "queues", "mgmt"}
  <2>1. Cnt \in {1, 2, 6} /\ UNCHANGED <<bufferVars, ethVars>>
    BY <1>2, <1>10 DEF DestroyLast
  <2>2. LifeTypes'
    BY <1>1, <1>3, <2>1 DEF LifeTypes, EthTypeOK, ethVars
  <2>3. Cnt' \in 0..6 /\ (Cnt >= 3 <=> Cnt' >= 3) /\ (Cnt >= 4 <=> Cnt' >= 4)
        /\ (Cnt >= 5 => Cnt' >= 5)
    BY <1>3, <2>1
  <2> QED BY <1>1, <1>3, <1>4, <1>5, <1>6, <2>1, <2>2, <2>3, NothingTouched
<1>11. CASE Last = "pool"
  <2>1. Cnt = 3 /\ Cnt' = 2 /\ FreePool /\ UNCHANGED ethVars
    BY <1>2, <1>3, <1>11 DEF DestroyLast
  <2>2. port # "started" /\ ~started /\ nicTx = 0 /\ nicRx = 0
    BY <1>5, <1>6, <2>1 DEF PortPhases, BufferInv, MbufPlaces
  <2>3. LifeTypes' /\ PortPhases'
    BY <1>1, <1>3, <2>1 DEF LifeTypes, EthTypeOK, ethVars, PortPhases
  <2>4. BuffersTypeOK' /\ BufferInv'
    BY <1>1, <2>1, <2>2
       DEF FreePool, BufferInv, loadVars, BuffersTypeOK, WholeSoFar, LoadsWholePackets,
           MbufPlaces, GenerationPhases
  <2> QED BY <1>3, <1>4, <2>3, <2>4
<1>12. CASE Last = "port"
  <2>1. Cnt = 4 /\ Cnt' = 3 /\ ClosePort /\ DrainRings
    BY <1>2, <1>3, <1>12 DEF DestroyLast
  <2>2. ~started /\ playing = 0 /\ playing' = 0
    BY <1>5, <1>7, <2>1 DEF DrainRings
  <2>3. LifeTypes' /\ PortPhases'
    BY <1>1, <1>3, <2>1 DEF LifeTypes, EthTypeOK, ClosePort, PortPhases
  <2>4. /\ pool' \in Nat /\ nicTx' = 0 /\ nicRx' = 0 /\ pool' = CntMbufs
        /\ chain' = 0 /\ loaded' = 0 /\ building' = 0 /\ sending' = 0
    BY <1>1, <1>7, <1>9, <2>1, <2>2 DEF DrainRings
  <2>5. BuffersTypeOK'
    BY <2>1, <2>2, <2>4, QueueSizes DEF DrainRings, loadVars, BuffersTypeOK
  <2>6. pool' + Out' = CntMbufs
    BY <2>2, <2>4 DEF Out
  <2>7. BufferInv'
    BY <1>1, <2>1, <2>2, <2>4, <2>6
       DEF DrainRings, BufferInv, loadVars, WholeSoFar, LoadsWholePackets, MbufPlaces,
           GenerationPhases
  <2> QED BY <1>3, <1>4, <2>3, <2>5, <2>7
<1>13. CASE Last = "generation"
  <2>1. Cnt = 5 /\ Cnt' = 4 /\ StopGeneration /\ UNCHANGED ethVars
    BY <1>2, <1>3, <1>13 DEF DestroyLast
  <2>2. LifeTypes' /\ PortPhases'
    BY <1>1, <1>3, <2>1 DEF LifeTypes, EthTypeOK, ethVars, PortPhases
  <2>3. /\ pool' \in Nat /\ playing' = 0 /\ ~started' /\ nicTx' = nicTx /\ nicRx' = nicRx
        /\ pool' + nicTx' + nicRx' = CntMbufs
        /\ chain' = 0 /\ loaded' = 0 /\ building' = 0 /\ sending' = 0
    BY <1>1, <1>7, <1>9, <2>1 DEF StopGeneration
  <2>4. BuffersTypeOK'
    BY <2>1, <2>3 DEF StopGeneration, loadVars, BuffersTypeOK
  <2>5. pool' + Out' = CntMbufs
    BY <1>7, <2>3 DEF Out
  <2>6. port' = "started"
    BY <2>1 DEF PortPhases, ethVars
  <2>7. BufferInv'
    BY <1>1, <2>1, <2>3, <2>5, <2>6
       DEF StopGeneration, BufferInv, loadVars, WholeSoFar, LoadsWholePackets, MbufPlaces,
           GenerationPhases
  <2> QED BY <1>3, <1>4, <2>2, <2>4, <2>7
<1> QED BY <1>10, <1>11, <1>12, <1>13 DEF DestroyLast
-----------------------------------------------------------------------------
(***************************************************************************)
(* The mbufs                                                               *)
(***************************************************************************)

Counts ==
  /\ pool \in Nat /\ chain \in Nat /\ loaded \in Nat /\ building \in Nat
  /\ playing \in Nat /\ sending \in Nat /\ nicTx \in Nat /\ nicRx \in Nat

\* Everything but the pool, from the counts of a state of the program.
LEMMA CountsAre ==
  ASSUME BuffersTypeOK
  PROVE  Counts
BY QueueSizes DEF BuffersTypeOK, Counts

\* A step of a start request moves mbufs and loses none.
LEMMA LoadKeepsMbufs ==
  ASSUME BuffersTypeOK, BufferInv, BeginStart \/ LoadStep
  PROVE  pool' + Out' = pool + Out /\ Counts' /\ UNCHANGED <<nicTx, nicRx, sending>>
<1> USE DEF Counts, Out
<1>0. Counts
  BY CountsAre
<1>1. CASE BeginStart \/ OpenCapture \/ ReadHeader
  BY <1>0, <1>1 DEF BeginStart, OpenCapture, ReadHeader, mbufVars
<1>2. CASE AbandonStart
  BY <1>0, <1>2 DEF AbandonStart
<1>3. CASE ReadSegment \/ ReadPacket \/ ReadCutPacket
  BY <1>0, <1>3 DEF ReadSegment, ReadPacket, ReadCutPacket
<1>4. CASE VerifyPackets
  BY <1>0, <1>4 DEF VerifyPackets
<1>5. CASE FinishStart
  <2>1. playing = 0
    BY <1>5 DEF FinishStart, BufferInv, GenerationPhases, MbufPlaces
  <2> QED BY <1>0, <1>5, <2>1 DEF FinishStart
<1> QED BY <1>1, <1>2, <1>3, <1>4, <1>5 DEF LoadStep, OpenFails, ReadFails, VerifyFails

\* Where a start request stands.
LoadTypes ==
  /\ load \in {"none", "open", "header", "body", "verify"} /\ toLoad \in 0..MaxCaptures
  /\ capture \in Seq(Record) /\ cntPkts \in 0..Len(capture) /\ started \in BOOLEAN

\* What is known of the packets of the capture, and which counts are zero.
Loading ==
  /\ ~started => playing = 0
  /\ load # "body" => chain = 0
  /\ load \in {"none", "open"} => loaded = 0
  /\ load = "none" => building = 0
  /\ load # "none" => ~started
  /\ WholeSoFar /\ LoadsWholePackets

LEMMA LoadingNow ==
  ASSUME BufferInv
  PROVE  Loading
BY DEF BufferInv, MbufPlaces, GenerationPhases, Loading

LEMMA LoadKeepsWhole ==
  ASSUME LoadTypes, Loading, BeginStart \/ LoadStep
  PROVE  LoadTypes' /\ Loading'
<1> USE DEF LoadTypes, Loading, WholeSoFar, LoadsWholePackets
<1>1. CASE BeginStart
  BY <1>1 DEF BeginStart, mbufVars
<1>2. CASE OpenCapture
  <2>1. capture' \in Seq(Record)
    BY <1>2, BuffersAssumption DEF OpenCapture
  <2>2. /\ load' = "header" /\ toLoad' \in 0..MaxCaptures /\ cntPkts' = 0
        /\ UNCHANGED <<mbufVars, started>>
    BY <1>2, BuffersAssumption DEF OpenCapture
  <2>3. Len(capture') \in Nat
    BY <2>1
  <2> QED BY <1>2, <2>1, <2>2, <2>3 DEF OpenCapture, mbufVars
<1>3. CASE AbandonStart
  <2>1. /\ load' = "none" /\ toLoad' = 0 /\ capture' = <<>> /\ cntPkts' = 0
        /\ chain' = 0 /\ loaded' = 0 /\ building' = 0 /\ UNCHANGED <<playing, started>>
    BY <1>3 DEF AbandonStart
  <2>2. 0 \in 0..MaxCaptures
    BY BuffersAssumption
  <2> QED BY <2>1, <2>2
<1>4. CASE ReadHeader
  BY <1>4 DEF ReadHeader, mbufVars
<1>5. CASE ReadSegment
  BY <1>5 DEF ReadSegment, loadVars
<1>6. CASE ReadPacket
  <2>1. /\ load = "body" /\ load' = "header" /\ cntPkts' = cntPkts + 1 /\ chain' = 0
        /\ capture[cntPkts + 1].end = "whole" /\ UNCHANGED <<playing, started, toLoad, capture>>
    BY <1>6 DEF ReadPacket, Rec
  <2>2. cntPkts \in Nat /\ cntPkts < Len(capture) /\ Len(capture) \in Nat
    BY <2>1
  <2>3. cntPkts' \in 0..Len(capture') /\ \A i \in 1..cntPkts' : i \in 1..cntPkts \/ i = cntPkts + 1
    BY <2>1, <2>2
  <2>4. \A i \in 1..cntPkts' : capture'[i].end = "whole"
    BY <2>1, <2>3
  <2> QED BY <2>1, <2>3, <2>4
<1>7. CASE ReadCutPacket
  BY <1>7 DEF ReadCutPacket, Rec
<1>8. CASE VerifyPackets
  BY <1>8 DEF VerifyPackets
<1>9. CASE FinishStart
  BY <1>9 DEF FinishStart
<1> QED BY <1>1, <1>2, <1>3, <1>4, <1>5, <1>6, <1>7, <1>8, <1>9
        DEF LoadStep, OpenFails, ReadFails, VerifyFails

\* What the NIC, the events and the end of a generation do to the counts.
LEMMA PlayKeepsMbufs ==
  ASSUME BuffersTypeOK, SendCopy \/ TransmitTxPkts \/ StopGeneration
  PROVE  /\ pool' + Out' = pool + Out /\ Counts' /\ nicTx' \in 0..TxRing
         /\ UNCHANGED <<nicRx, chain, loaded, building>>
<1> USE DEF Counts, Out
<1>0. Counts /\ nicTx \in 0..TxRing /\ TxRing \in Nat /\ MaxSegs \in Nat
  BY CountsAre, BuffersAssumption DEF BuffersTypeOK
<1>1. CASE SendCopy
  <2>1. PICK segs \in 1..MaxSegs :
           segs <= pool /\ pool' = pool - segs /\ sending' = sending + segs
    BY <1>1 DEF SendCopy
  <2>2. segs \in Nat
    BY <1>0
  <2> QED BY <1>0, <1>1, <2>1, <2>2 DEF SendCopy
<1>2. CASE TransmitTxPkts
  <2>1. PICK taken \in 0..sending, done \in 0..nicTx :
           /\ nicTx - done + taken <= TxRing
           /\ nicTx' = nicTx - done + taken
           /\ pool' = pool + done + (sending - taken)
    BY <1>2 DEF TransmitTxPkts
  <2>2. taken \in Nat /\ done \in Nat /\ taken <= sending /\ done <= nicTx
    BY <1>0
  <2>3. /\ pool' \in Nat /\ nicTx' \in 0..TxRing /\ nicTx' \in Nat /\ sending' = 0
        /\ UNCHANGED <<chain, loaded, building, playing, nicRx>>
    BY <1>0, <1>2, <2>1, <2>2 DEF TransmitTxPkts
  <2>4. Out' = chain + loaded + building + playing + 0 + (nicTx - done + taken) + nicRx
    BY <2>1, <2>3
  <2>5. pool' = pool + done + (sending - taken)
    BY <2>1
  <2>6. pool' + Out' = pool + Out
    BY <1>0, <2>2, <2>4, <2>5
  <2> QED BY <1>0, <2>3, <2>6
<1>3. CASE StopGeneration
  BY <1>0, <1>3 DEF StopGeneration
<1> QED BY <1>1, <1>2, <1>3

\* A step of process_events() of the generation manager.
LEMMA GenerationStep ==
  ASSUME Types, Inv, NEW t \in looping, loopOf[t] = "gen",
         BeginIteration \/ HandleRequests \/ RequestsHandled \/ SendPackets \/ EndIteration
  PROVE  Types' /\ Inv'
<1> USE DEF Types, Inv, LifeInv
<1>1. phase = "run" /\ Cnt = 6 /\ Cnt' = 6 /\ Prefix' /\ port = "started"
  <2>1. phase = "run" /\ Cnt = 6
    BY DEF LoopPhases
  <2>2. built' = built
    BY DEF BeginIteration, HandleRequests, RequestsHandled, SendPackets, EndIteration, lifeVars
  <2> QED BY <2>1, <2>2, SameMembers DEF PortPhases
<1>2. /\ UNCHANGED <<ethVars, port, ethDev, phase, built, loopOf, looping, subscribed, stop>>
      /\ genAt' \in {"top", "requests", "events"}
  BY DEF BeginIteration, HandleRequests, RequestsHandled, SendPackets, EndIteration, lifeVars,
         ethVars, LifeTypes
<1>3. LifeTypes' /\ LoopPhases' /\ PortPhases'
  BY <1>1, <1>2 DEF LifeTypes, EthTypeOK, LoopPhases, PortPhases
<1>4. pool + Out = CntMbufs /\ Counts /\ Loading /\ LoadTypes
  BY <1>1, CountsAre, LoadingNow DEF BufferInv, MbufPlaces, BuffersTypeOK, LoadTypes
\* What remains to be shown of a step.
<1>5. SUFFICES /\ pool' + Out' = pool + Out /\ Counts' /\ Loading' /\ LoadTypes'
               /\ nicTx' \in 0..TxRing /\ nicRx' \in 0..RxRing
               /\ genAt' # "events" => sending' = 0
               /\ load' # "none" => genAt' = "requests"
  <2>1. BuffersTypeOK'
    BY <1>5 DEF Counts, LoadTypes, BuffersTypeOK
  <2>2. MbufPlaces'
    BY <1>1, <1>2, <1>4, <1>5 DEF MbufPlaces, Loading
  <2>3. GenerationPhases' /\ WholeSoFar' /\ LoadsWholePackets'
    BY <1>1, <1>2, <1>5 DEF GenerationPhases, Loading
  <2> QED BY <1>1, <1>3, <2>1, <2>2, <2>3 DEF BufferInv
<1>6. /\ nicTx \in 0..TxRing /\ nicRx \in 0..RxRing
      /\ (genAt # "events" => sending = 0) /\ (load # "none" => genAt = "requests")
  BY DEF BuffersTypeOK, BufferInv, MbufPlaces, GenerationPhases
<1>7. UNCHANGED bufferVars => /\ pool' + Out' = pool + Out /\ Counts' /\ Loading' /\ LoadTypes'
                              /\ UNCHANGED <<nicTx, nicRx, sending, load>>
  BY <1>4 DEF bufferVars, mbufVars, loadVars, Counts, Loading, LoadTypes, Out, WholeSoFar,
              LoadsWholePackets
<1>8. SendCopy \/ TransmitTxPkts \/ (StopGeneration /\ load = "none")
        => /\ pool' + Out' = pool + Out /\ Counts' /\ Loading' /\ LoadTypes'
           /\ nicTx' \in 0..TxRing /\ UNCHANGED <<nicRx, load>>
  <2>1. ASSUME SendCopy \/ TransmitTxPkts \/ (StopGeneration /\ load = "none")
        PROVE  /\ UNCHANGED <<load, toLoad, capture, cntPkts, chain, loaded, building>>
               /\ \/ started' = started /\ playing' = playing
                  \/ started' = FALSE /\ playing' = 0
    BY <2>1 DEF SendCopy, TransmitTxPkts, StopGeneration, loadVars
  <2>2. ASSUME SendCopy \/ TransmitTxPkts \/ (StopGeneration /\ load = "none")
        PROVE  Loading' /\ LoadTypes'
    <3>1. UNCHANGED <<load, toLoad, capture, cntPkts, chain, loaded, building>>
      BY <2>1, <2>2
    <3>2. WholeSoFar' /\ LoadsWholePackets'
      BY <1>4, <3>1 DEF Loading, WholeSoFar, LoadsWholePackets
    <3>3. LoadTypes'
      BY <1>4, <2>1, <2>2, <3>1 DEF LoadTypes
    <3>4. (~started' => playing' = 0) /\ (load' # "none" => ~started')
      <4>1. CASE started' = started /\ playing' = playing
        BY <1>4, <3>1, <4>1 DEF Loading, LoadTypes
      <4>2. CASE started' = FALSE /\ playing' = 0
        BY <4>2
      <4> QED BY <2>1, <2>2, <4>1, <4>2
    <3> QED BY <1>4, <3>1, <3>2, <3>3, <3>4 DEF Loading
  <2> QED BY <2>1, <2>2, PlayKeepsMbufs
<1>9. CASE BeginIteration
  BY <1>6, <1>7, <1>9 DEF BeginIteration
<1>10. CASE HandleRequests
  <2>1. genAt = "requests" /\ genAt' = "requests"
    BY <1>10 DEF HandleRequests, lifeVars
  <2>2. CASE BeginStart \/ LoadStep
    BY <1>4, <1>6, <2>1, <2>2, LoadKeepsMbufs, LoadKeepsWhole
  <2>3. CASE load = "none" /\ StopGeneration
    BY <1>6, <1>8, <2>1, <2>3 DEF StopGeneration
  <2> QED BY <1>10, <2>2, <2>3 DEF HandleRequests
<1>11. CASE RequestsHandled
  BY <1>6, <1>7, <1>11 DEF RequestsHandled
<1>12. CASE SendPackets
  BY <1>6, <1>8, <1>12 DEF SendPackets, lifeVars
<1>13. CASE EndIteration
  <2>1. genAt = "events" /\ genAt' = "top" /\ load = "none"
    BY <1>6, <1>13 DEF EndIteration
  <2>2. CASE sending > 0 /\ TransmitTxPkts
    <3>1. sending' = 0
      BY <2>2 DEF TransmitTxPkts
    <3> QED BY <1>6, <1>8, <2>1, <2>2, <3>1
  <2>3. CASE sending = 0 /\ UNCHANGED bufferVars
    BY <1>6, <1>7, <2>1, <2>3
  <2>4. CASE sending = 0 /\ started /\ StopGeneration
    <3>1. sending' = 0
      BY <2>4 DEF StopGeneration
    <3> QED BY <1>6, <1>8, <2>1, <2>4, <3>1
  <2> QED BY <1>13, <2>2, <2>3, <2>4 DEF EndIteration
<1> QED BY <1>9, <1>10, <1>11, <1>12, <1>13

\* A loop ends; the generation loop does so between two iterations.
LEMMA LeaveLoopStep ==
  ASSUME Types, Inv, NEW t \in Threads, LeaveLoop(t)
  PROVE  Types' /\ Inv'
<1> USE DEF Types, Inv, LifeInv
<1>1. UNCHANGED <<bufferVars, ethVars, phase, built, loopOf, genAt, subscribed, stop>>
  BY DEF LeaveLoop
<1>2. Prefix' /\ Cnt' = Cnt /\ Cnt' \in 0..6 /\ phase = "run" /\ Cnt = 6
  BY <1>1, SameMembers DEF LeaveLoop, LoopPhases, Prefix
<1>3. LifeTypes'
  BY <1>1 DEF LeaveLoop, LifeTypes, EthTypeOK, ethVars
<1>4. genAt # "top" => \E s \in looping' : loopOf[s] = "gen"
  BY DEF LeaveLoop, LoopPhases
<1>5. LoopPhases'
  BY <1>1, <1>2, <1>4 DEF LoopPhases
<1> QED BY <1>1, <1>2, <1>3, <1>5, NothingTouched
-----------------------------------------------------------------------------
(***************************************************************************)
(* The invariant                                                           *)
(***************************************************************************)

LEMMA InitIInv == Init => IInv
<1> SUFFICES ASSUME Init PROVE IInv
  OBVIOUS
<1> USE DEF Init, EthInit, BuffersInit, CrashInit
<1>1. TypeOK
  <2>1. EthTypeOK
    BY DEF EthTypeOK
  <2>2. BuffersTypeOK
    <3>1. 0 \in 0..TxRing /\ 0 \in 0..RxRing /\ 0 \in 0..MaxCaptures
      BY BuffersAssumption
    <3>2. capture \in Seq(Record) /\ cntPkts \in 0..Len(capture)
      OBVIOUS
    <3> QED BY <3>1, <3>2 DEF BuffersTypeOK
  <2>3. CrashTypeOK
    <3>1. dumped \in Seq({"info", "stack", "registers"})
      BY EmptySeq
    <3>2. at \in [Threads -> {"out", "paused", "info", "stack", "registers", "flush", "restore", "raise"}]
      OBVIOUS
    <3> QED BY <3>1, <3>2 DEF CrashTypeOK
  <2>4. built \in Seq({"eal", "queues", "pool", "port", "generation", "mgmt"})
    BY EmptySeq
  <2>5. loopOf \in [Threads -> {"mgmt", "gen", "none"}] /\ looping \in SUBSET Threads
    OBVIOUS
  <2> QED BY <2>1, <2>2, <2>3, <2>4, <2>5 DEF TypeOK
<1>2. Cnt = 0
  BY DEF Cnt
<1>3. LifeInv
  BY <1>2 DEF LifeInv, Prefix, LoopPhases, PortPhases
<1>4. BufferInv
  BY <1>2 DEF BufferInv, MbufPlaces, GenerationPhases, WholeSoFar, LoadsWholePackets
<1>5. OneWriter /\ WorkerLater
  BY LifecycleAssumption DEF OneWriter, Dumping, WorkerLater
<1> QED BY <1>1, <1>3, <1>4, <1>5 DEF IInv

LEMMA IInvParts == IInv <=> Types /\ Inv /\ CrashTypeOK /\ OneWriter /\ WorkerLater
BY DEF IInv, Types, Inv, TypeOK, LifeTypes

\* Steps of the crash handler and of signals, and stuttering, leave the rest alone.
LEMMA RestUnchanged ==
  ASSUME Types, Inv, UNCHANGED <<ethVars, bufferVars, phase, built, loopOf, looping, genAt>>,
         subscribed' \in BOOLEAN, stop' \in BOOLEAN
  PROVE  Types' /\ Inv'
<1>1. Prefix' /\ Cnt' = Cnt /\ Cnt' \in 0..6
  BY SameMembers DEF Inv, LifeInv, Prefix
<1>2. LifeTypes' /\ LoopPhases'
  BY <1>1 DEF Types, LifeTypes, EthTypeOK, ethVars, Inv, LifeInv, LoopPhases
<1>3. started => phase' = "run" \/ (phase' = "unwind" /\ Cnt' >= 5)
  BY <1>1 DEF Inv, BufferInv, GenerationPhases
<1> QED BY <1>1, <1>2, <1>3, NothingTouched

LEMMA CrashUnchanged ==
  ASSUME CrashTypeOK, OneWriter, UNCHANGED crashVars
  PROVE  CrashTypeOK' /\ OneWriter'
BY NobodyMoves DEF crashVars, CrashTypeOK

\* The handler is installed while the main thread is alone.
LEMMA InstallHandlerStep ==
  ASSUME CrashTypeOK, OneWriter, WorkerLater, at[Main] = "out", InstallHandler
  PROVE  CrashTypeOK' /\ OneWriter' /\ UNCHANGED at
<1>1. \A t \in Threads : at[t] = "out"
  BY LifecycleAssumption DEF WorkerLater, InstallHandler
<1>2. PICK ok \in BOOLEAN : InstallActions(ok) \/ SetOutput(ok)
  BY DEF InstallHandler
<1> QED BY <1>1, <1>2, NobodyMoves DEF InstallActions, SetOutput, CrashTypeOK

\* main() never returns to the phases without a worker.
LEMMA WorkerStaysLater ==
  ASSUME WorkerLater, at'[Worker] = at[Worker],
         phase' \in {"install", "output", "config"} => phase \in {"install", "output", "config"}
  PROVE  WorkerLater'
BY DEF WorkerLater

\* A thread's step of main() or of its loop.
LEMMA ThreadStep ==
  ASSUME IInv, NEW t \in Threads, at[t] = "out", LoopStep(t) \/ (t = Main /\ MainStep)
  PROVE  IInv'
<1>1. Types /\ Inv /\ CrashTypeOK /\ OneWriter /\ WorkerLater
  BY IInvParts
<1>2. Types' /\ Inv'
  <2>1. CASE LoopStep(t)
    BY <1>1, <2>1, LeaveLoopStep, GenerationStep DEF LoopStep
  <2>2. CASE MainStep
    BY <1>1, <2>2, MainProceeds, MainConstructs, MainDestroys DEF MainStep
  <2> QED BY <2>1, <2>2
<1>3. CrashTypeOK' /\ OneWriter' /\ UNCHANGED at
  <2>1. CASE UNCHANGED crashVars
    BY <1>1, <2>1, CrashUnchanged DEF crashVars
  <2>2. CASE t = Main /\ InstallHandler
    BY <1>1, <2>2, InstallHandlerStep
  <2> QED BY <2>1, <2>2
          DEF LoopStep, LeaveLoop, BeginIteration, HandleRequests, RequestsHandled, SendPackets,
              EndIteration, MainStep, ReadConfig, ConstructMember, ConstructPool, ConstructPort,
              Launch, JoinLoops, DestroyLast, ReturnFromMain
<1>4. phase' \in {"install", "output", "config"} => phase \in {"install", "output", "config"}
  BY DEF LoopStep, LeaveLoop, BeginIteration, HandleRequests, RequestsHandled, SendPackets,
         EndIteration, lifeVars, MainStep, InstallHandler, ReadConfig, ConstructMember,
         ConstructPool, ConstructPort, Launch, JoinLoops, DestroyLast, ReturnFromMain, Throw
<1>5. WorkerLater'
  BY <1>1, <1>3, <1>4, WorkerStaysLater
<1>6. (Types /\ Inv /\ CrashTypeOK /\ OneWriter /\ WorkerLater)'
  BY <1>2, <1>3, <1>5
<1> QED BY <1>6, IInvParts, PTL

\* The worker gets signals only when there is one.
LEMMA WorkerAlive ==
  ASSUME Inv, Alive(Worker)
  PROVE  phase \notin {"install", "output", "config"}
<1>1. Worker # Main
  BY LifecycleAssumption
<1>2. Exists("eal")
  BY <1>1 DEF Alive
<1>3. Cnt # 0
  BY <1>2 DEF Exists, Cnt
<1> QED BY <1>3 DEF Inv, LifeInv, LoopPhases

LEMMA NextIInv ==
  ASSUME IInv, [Next]_allVars
  PROVE  IInv'
<1>1. Types /\ Inv /\ CrashTypeOK /\ OneWriter /\ WorkerLater
  BY IInvParts
<1>2. subscribed \in BOOLEAN /\ stop \in BOOLEAN /\ Worker \in Threads
  BY <1>1, LifecycleAssumption DEF Types, LifeTypes
<1>3. ASSUME Types', Inv', CrashTypeOK', OneWriter', WorkerLater'
      PROVE  IInv'
  <2>1. (Types /\ Inv /\ CrashTypeOK /\ OneWriter /\ WorkerLater)'
    BY <1>3
  <2> QED BY <2>1, IInvParts, PTL
<1>4. CASE StopSignal
  <2>1. Types' /\ Inv'
    BY <1>1, <1>2, <1>4, RestUnchanged DEF StopSignal
  <2>2. CrashTypeOK' /\ OneWriter'
    BY <1>1, <1>4, NobodyMoves DEF StopSignal, CrashTypeOK
  <2>3. WorkerLater'
    BY <1>1, <1>4, WorkerStaysLater DEF StopSignal
  <2> QED BY <1>3, <2>1, <2>2, <2>3
<1>5. ASSUME NEW t \in Threads, FatalSignal(t)
      PROVE  IInv'
  <2>1. UNCHANGED <<ethVars, bufferVars, lifeVars>> /\ (Kill(t) \/ EnterHandler(t))
    BY <1>5 DEF FatalSignal
  <2>2. Types' /\ Inv'
    BY <1>1, <1>2, <2>1, RestUnchanged DEF lifeVars
  <2>3. CrashTypeOK' /\ OneWriter'
    BY <1>1, <2>1, EnterHandlerStep, NobodyMoves DEF Kill, CrashTypeOK
  <2>4. WorkerLater'
    <3>1. phase' = phase /\ (t = Worker => phase \notin {"install", "output", "config"})
      BY <1>1, <1>5, <2>1, WorkerAlive DEF FatalSignal, lifeVars
    <3>2. t # Worker => at'[Worker] = at[Worker]
      BY <1>1, <1>2, <2>1 DEF Kill, EnterHandler, CrashTypeOK
    <3> QED BY <1>1, <3>1, <3>2 DEF WorkerLater
  <2> QED BY <1>3, <2>2, <2>3, <2>4
<1>6. ASSUME NEW t \in Threads, Step(t)
      PROVE  IInv'
  <2>1. CASE at[t] = "out" /\ (LoopStep(t) \/ (t = Main /\ MainStep))
    BY <2>1, ThreadStep
  <2>2. CASE Handle(t) /\ UNCHANGED <<ethVars, bufferVars, lifeVars>>
    <3>1. Types' /\ Inv'
      BY <1>1, <1>2, <2>2, RestUnchanged DEF lifeVars
    <3>2. CrashTypeOK' /\ OneWriter'
      BY <1>1, <2>2, HandleStep
    <3>3. phase' = phase /\ (at[Worker] = "out" => at'[Worker] = "out")
      BY <1>1, <1>2, <2>2
         DEF lifeVars, Handle, DumpSignalInfo, DumpStacktrace, DumpRegisters, Dump, Flush,
             RestoreDefault, Reraise, Goto, CrashTypeOK
    <3>4. WorkerLater'
      BY <1>1, <3>3 DEF WorkerLater
    <3> QED BY <1>3, <3>1, <3>2, <3>4
  <2> QED BY <1>6, <2>1, <2>2 DEF Step
<1>7. CASE UNCHANGED allVars
  <2>1. UNCHANGED <<ethVars, bufferVars, lifeVars>> /\ UNCHANGED crashVars
    BY <1>7 DEF allVars
  <2>2. Types' /\ Inv'
    BY <1>1, <1>2, <2>1, RestUnchanged DEF lifeVars
  <2>3. CrashTypeOK' /\ OneWriter' /\ WorkerLater'
    BY <1>1, <2>1, CrashUnchanged, WorkerStaysLater DEF crashVars, lifeVars
  <2> QED BY <1>3, <2>2, <2>3
<1> QED BY <1>4, <1>5, <1>6, <1>7 DEF Next

THEOREM Invariance == Spec => []IInv
<1>1. Init => IInv
  BY InitIInv
<1>2. IInv /\ [Next]_allVars => IInv'
  BY NextIInv
<1> QED BY <1>1, <1>2, PTL DEF Spec

\* The variables of the whole process keep their types: main.cpp, application.cpp
\* and what they construct.
THEOREM LifecycleTypeCorrect == Spec => []TypeOK
<1>1. IInv => TypeOK
  BY DEF IInv
<1> QED BY <1>1, Invariance, PTL

\* Wherever construction, a start request or a generation is cut short, every mbuf
\* is in one place and the pool is freed after the last one has come back
\* (gen/manager.cpp's order of members, ~eth_dev() before ~mbuf_pool()).
THEOREM LifecyclePoolOutlivesMbufs == Spec => []PoolOutlivesMbufs
<1>1. IInv => PoolOutlivesMbufs
  <2> SUFFICES ASSUME IInv PROVE PoolOutlivesMbufs
    OBVIOUS
  <2>1. Cnt \in 0..6 /\ (Exists("pool") <=> Cnt >= 3)
    BY ExistsMeans DEF IInv, LifeInv, Prefix
  <2>2. CASE Cnt >= 3
    BY <2>1, <2>2 DEF IInv, BufferInv, MbufPlaces, PoolOutlivesMbufs
  <2>3. CASE Cnt < 3
    <3>1. port # "started" /\ ~started /\ load = "none" /\ genAt = "top"
      BY <2>1, <2>3 DEF IInv, LifeInv, BufferInv, LoopPhases, PortPhases, GenerationPhases
    <3>2. /\ chain = 0 /\ loaded = 0 /\ building = 0 /\ playing = 0 /\ sending = 0
          /\ nicTx = 0 /\ nicRx = 0 /\ pool = 0
      BY <2>3, <3>1 DEF IInv, BufferInv, MbufPlaces
    <3> QED BY <2>1, <2>3, <3>1, <3>2 DEF PoolOutlivesMbufs, Out
  <2> QED BY <2>1, <2>2, <2>3
<1> QED BY <1>1, Invariance, PTL

\* Neither load_pkts() when it throws nor stop_generation() leaves an mbuf behind.
THEOREM LifecycleEndedHoldsNothing == Spec => []EndedHoldsNothing
<1>1. IInv => EndedHoldsNothing
  BY DEF IInv, BufferInv, MbufPlaces, EndedHoldsNothing
<1> QED BY <1>1, Invariance, PTL

\* What load_pkts() verifies and a generator is constructed from are the complete
\* packets of the capture up to its end or to a packet that is cut.
THEOREM LifecycleLoadsWholePackets == Spec => []LoadsWholePackets
<1>1. IInv => LoadsWholePackets
  BY DEF IInv, BufferInv
<1> QED BY <1>1, Invariance, PTL

\* While run_loop runs on a thread everything it uses exists and the port is up.
THEOREM LifecycleLoopsHaveMembers == Spec => []LoopsHaveMembers
<1>1. IInv => LoopsHaveMembers
  <2> SUFFICES ASSUME IInv, looping # {} PROVE LoopsHaveMembers
    BY DEF LoopsHaveMembers
  <2>1. Cnt = 6 /\ port = "started" /\ ethDev = "valid"
    BY DEF IInv, LifeInv, LoopPhases, PortPhases
  <2>2. built \in Seq({"eal", "queues", "pool", "port", "generation", "mgmt"})
    BY DEF IInv, TypeOK
  <2>3. /\ Members \in Seq({"eal", "queues", "pool", "port", "generation", "mgmt"})
        /\ Len(Members) = 6 /\ Len(built) = 6
    BY <2>1 DEF Members, Cnt
  <2>4. \A i \in 1..6 : built[i] = Members[i]
    BY <2>1 DEF IInv, LifeInv, Prefix
  <2>5. built = Members
    BY <2>2, <2>3, <2>4, SeqEqual
  <2> QED BY <2>1, <2>5 DEF LoopsHaveMembers
<1> QED BY <1>1, Invariance, PTL

\* eth_dev leaves the port closed, except where configure() fails half way.
THEOREM LifecyclePortClosed == Spec => []PortClosed
<1>1. IInv => PortClosed
  BY DEF IInv, TypeOK, EthTypeOK, LifeInv, LoopPhases, PortPhases, PortClosed
<1> QED BY <1>1, Invariance, PTL

\* The prefixes of the sections.
LEMMA SectionsUpTo ==
  /\ Len(Sections) = 3 /\ SubSeq(Sections, 1, 0) = <<>>
  /\ SubSeq(Sections, 1, 1) = <<"info">> /\ SubSeq(Sections, 1, 2) = <<"info", "stack">>
  /\ SubSeq(Sections, 1, 3) = Sections
<1> DEFINE S == {"info", "stack", "registers"}
<1>1. /\ Len(Sections) = 3 /\ Sections \in Seq(S)
      /\ Sections[1] = "info" /\ Sections[2] = "stack" /\ Sections[3] = "registers"
  BY DEF Sections
<1>2. ASSUME NEW n \in 0..3
      PROVE  /\ SubSeq(Sections, 1, n) \in Seq(S) /\ Len(SubSeq(Sections, 1, n)) = n
             /\ \A i \in 1..n : SubSeq(Sections, 1, n)[i] = Sections[i]
  <2>1. \A i \in 1..n : Sections[i] \in S
    BY <1>1
  <2>2. /\ SubSeq(Sections, 1, n) \in Seq(S)
        /\ Len(SubSeq(Sections, 1, n)) = IF 1 <= n THEN n - 1 + 1 ELSE 0
        /\ \A i \in 1..(n - 1 + 1) : SubSeq(Sections, 1, n)[i] = Sections[1 + i - 1]
    BY <2>1, SubSeqProperties
  <2>3. n - 1 + 1 = n /\ \A i \in 1..n : 1 + i - 1 = i
    OBVIOUS
  <2> QED BY <2>2, <2>3
<1>3. ASSUME NEW n \in 0..3, NEW q \in Seq(S), Len(q) = n, \A i \in 1..n : q[i] = Sections[i]
      PROVE  SubSeq(Sections, 1, n) = q
  <2>1. /\ SubSeq(Sections, 1, n) \in Seq(S) /\ Len(SubSeq(Sections, 1, n)) = Len(q)
        /\ \A i \in 1..Len(SubSeq(Sections, 1, n)) : SubSeq(Sections, 1, n)[i] = q[i]
    BY <1>2, <1>3
  <2> QED BY <2>1, SeqEqual
<1>4. SubSeq(Sections, 1, 0) = <<>>
  BY <1>3
<1>5. SubSeq(Sections, 1, 1) = <<"info">>
  <2> DEFINE q == <<"info">>
  <2>1. q \in Seq(S) /\ Len(q) = 1 /\ \A i \in 1..1 : q[i] = Sections[i]
    BY <1>1
  <2> HIDE DEF q
  <2>2. SubSeq(Sections, 1, 1) = q
    BY <1>3, <2>1
  <2> QED BY <2>2 DEF q
<1>6. SubSeq(Sections, 1, 2) = <<"info", "stack">>
  <2> DEFINE q == <<"info", "stack">>
  <2>1. q \in Seq(S) /\ Len(q) = 2 /\ \A i \in 1..2 : q[i] = Sections[i]
    BY <1>1
  <2> HIDE DEF q
  <2>2. SubSeq(Sections, 1, 2) = q
    BY <1>3, <2>1
  <2> QED BY <2>2 DEF q
<1>7. SubSeq(Sections, 1, 3) = Sections
  BY <1>1, <1>3
<1> QED BY <1>1, <1>4, <1>5, <1>6, <1>7

\* fatal_signal_handler() writes for one thread only, the sections in order, and all
\* of them before it raises the signal again or none for want of an output, whenever
\* the other thread runs into it, too.
THEOREM LifecycleOneDump == Spec => []OneDump
<1>1. IInv => OneDump
  <2> SUFFICES ASSUME IInv PROVE OneDump
    OBVIOUS
  <2>1. CrashTypeOK /\ OneWriter
    BY DEF IInv, TypeOK
  <2>2. \A s, t \in Threads : Dumping(s) /\ Dumping(t) => s = t
    BY <2>1 DEF OneWriter
  <2>3. /\ Len(Sections) = 3 /\ SubSeq(Sections, 1, 0) = <<>>
        /\ SubSeq(Sections, 1, 1) = <<"info">> /\ SubSeq(Sections, 1, 2) = <<"info", "stack">>
        /\ SubSeq(Sections, 1, 3) = Sections
    BY SectionsUpTo
  <2>4. dumped \in {<<>>, <<"info">>, <<"info", "stack">>, Sections}
    <3>1. CASE ~called
      BY <2>1, <3>1 DEF OneWriter
    <3>2. CASE called
      <4>1. PICK t \in Threads : Dumping(t)
        BY <2>1, <3>2 DEF OneWriter
      <4>2. at[t] \in {"info", "stack", "registers", "flush", "restore", "raise"}
        BY <2>1, <4>1 DEF CrashTypeOK, Dumping
      <4>3. dumped = IF outputSet THEN SoFar[at[t]] ELSE <<>>
        BY <2>1, <4>1 DEF OneWriter
      <4> QED BY <4>2, <4>3 DEF SoFar
    <3> QED BY <3>1, <3>2
  <2>5. \E n \in 0..Len(Sections) : dumped = SubSeq(Sections, 1, n)
    <3>1. 0 \in 0..3 /\ 1 \in 0..3 /\ 2 \in 0..3 /\ 3 \in 0..3
      OBVIOUS
    <3> QED BY <2>3, <2>4, <3>1
  <2>6. ASSUME NEW t \in Threads, at[t] \in {"flush", "restore", "raise"}
        PROVE  dumped = IF outputSet THEN Sections ELSE <<>>
    BY <2>1, <2>6 DEF OneWriter, Dumping, SoFar
  <2> QED BY <2>2, <2>5, <2>6 DEF OneDump
<1> QED BY <1>1, Invariance, PTL

\* The one handler that is not paused can always go on, unless a paused thread has
\* stdout's lock: the flag `called` leaves exactly one thread to raise the signal.
THEOREM LifecycleHandlerGoesOn == Spec => []HandlerGoesOn
<1>1. IInv => HandlerGoesOn
  <2> SUFFICES ASSUME IInv, called PROVE HandlerGoesOn
    BY DEF HandlerGoesOn
  <2>1. CrashTypeOK /\ OneWriter
    BY DEF IInv, TypeOK
  <2>2. PICK t \in Threads : Dumping(t)
    BY <2>1 DEF OneWriter
  <2>3. ASSUME stdoutOf \notin {NoThread, t}
        PROVE  at[stdoutOf] = "paused"
    <3>1. stdoutOf \in Threads /\ at[stdoutOf] # "out"
      BY <2>1, <2>3 DEF OneWriter, CrashTypeOK
    <3>2. ~Dumping(stdoutOf)
      BY <2>1, <2>2, <2>3, <3>1 DEF OneWriter
    <3> QED BY <3>1, <3>2 DEF Dumping
  <2> QED BY <2>2, <2>3 DEF HandlerGoesOn
<1> QED BY <1>1, Invariance, PTL
=============================================================================
