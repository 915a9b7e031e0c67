--------------------------- MODULE PacketBuffers ---------------------------
(***************************************************************************)
(* Where the mbufs of the pool are: gen/priv/mbuf_pool.cpp, the loading of *)
(* captures (tcap_loader.cpp, load_pkts of flows_generator.cpp, the start  *)
(* request in gen/manager.cpp), the copies that are sent, the NIC's rings. *)
(*                                                                         *)
(* The pool is counted, not named: a variable says how many mbufs a place  *)
(* holds.  A packet takes as many mbufs as it has segments.                *)
(***************************************************************************)
EXTENDS Naturals, Sequences

CONSTANTS
  CntMbufs,     \* cnt_mbufs of the pool
  RxRing,       \* the mbufs the NIC takes for its receive queue
  TxRing,       \* the mbufs the transmit queue has room for
  Captures,     \* the files a client may name, as sequences of records
  MaxCaptures,  \* the captures of one start request
  MaxSegs       \* the segments of one packet

\* Of a record: how many segments are read, and how that ends.  "whole"; "cut" by
\* the end of the file; "bad" when it cannot be read, or caplen is not len.
Record == [segs : 1..MaxSegs, end : {"whole", "cut", "bad"}]

ASSUME BuffersAssumption ==
  /\ CntMbufs \in Nat /\ RxRing \in Nat /\ TxRing \in Nat
  /\ MaxCaptures \in Nat /\ MaxSegs \in Nat
  /\ Captures \subseteq Seq(Record)

VARIABLES
  pool,      \* the mbufs in the pool
  chain,     \* of the packet being read
  loaded,    \* of the packets read from the current capture, `ret` of load_pkts
  building,  \* of the generators constructed for the current start request, `gens`
  playing,   \* of generators_
  sending,   \* of tx_pkts_
  nicTx,     \* in the transmit queue
  nicRx,     \* in the receive queue
  load,      \* "none", or the start request in progress: "open", "header", "body", "verify"
  toLoad,    \* the captures it has still to open
  capture,   \* the file being read
  cntPkts,   \* the packets read from it
  started    \* generation_started()

mbufVars == <<pool, chain, loaded, building, playing, sending, nicTx, nicRx>>
loadVars == <<load, toLoad, capture, cntPkts>>
bufferVars == <<mbufVars, loadVars, started>>

BuffersInit ==
  /\ pool = 0 /\ chain = 0 /\ loaded = 0 /\ building = 0 /\ playing = 0
  /\ sending = 0 /\ nicTx = 0 /\ nicRx = 0
  /\ load = "none" /\ toLoad = 0 /\ capture = <<>> /\ cntPkts = 0
  /\ started = FALSE

\* The mbufs outside of the pool.
Out == chain + loaded + building + playing + sending + nicTx + nicRx
-----------------------------------------------------------------------------
(***************************************************************************)
(* The pool and the NIC                                                    *)
(***************************************************************************)

CreatePool ==
  /\ pool' = CntMbufs
  /\ UNCHANGED <<chain, loaded, building, playing, sending, nicTx, nicRx, loadVars, started>>

\* rte_mempool_free()
FreePool ==
  /\ pool' = 0
  /\ UNCHANGED <<chain, loaded, building, playing, sending, nicTx, nicRx, loadVars, started>>

\* External: rte_eth_dev_start() fills the receive queue.
FillRxRing ==
  /\ pool >= RxRing
  /\ pool' = pool - RxRing /\ nicRx' = RxRing
  /\ UNCHANGED <<chain, loaded, building, playing, sending, nicTx, loadVars, started>>

\* External: a port that is stopped and closed gives back what its queues hold.
DrainRings ==
  /\ pool' = pool + nicTx + nicRx /\ nicTx' = 0 /\ nicRx' = 0
  /\ UNCHANGED <<chain, loaded, building, playing, sending, loadVars, started>>
-----------------------------------------------------------------------------
(***************************************************************************)
(* A start request                                                         *)
(***************************************************************************)

BeginStart ==
  /\ load = "none" /\ ~started
  /\ load' = "open" /\ toLoad' \in 0..MaxCaptures
  /\ UNCHANGED <<mbufVars, capture, cntPkts, started>>

\* tcap_loader(path): the file and its header are fine.
OpenCapture ==
  /\ load = "open" /\ toLoad > 0
  /\ capture' \in Captures
  /\ load' = "header" /\ toLoad' = toLoad - 1 /\ cntPkts' = 0
  /\ UNCHANGED <<mbufVars, started>>

\* Mutant: the packet that has been begun is not freed.
AbandonStartKeepsChain ==
  /\ pool' = pool + loaded + building
  /\ chain' = 0 /\ loaded' = 0 /\ building' = 0
  /\ load' = "none" /\ toLoad' = 0 /\ capture' = <<>> /\ cntPkts' = 0
  /\ UNCHANGED <<playing, sending, nicTx, nicRx, started>>

\* Something throws: exit_guard, `ret` and `gens` free what they have.
AbandonStart ==
  /\ pool' = pool + chain + loaded + building
  /\ chain' = 0 /\ loaded' = 0 /\ building' = 0
  /\ load' = "none" /\ toLoad' = 0 /\ capture' = <<>> /\ cntPkts' = 0
  /\ UNCHANGED <<playing, sending, nicTx, nicRx, started>>

\* The file cannot be opened, or has no valid header.
OpenFails == load = "open" /\ toLoad > 0 /\ AbandonStart

\* The record that load_pkt() is about to read or is reading.
Rec == capture[cntPkts + 1]

\* load_pkt() reads the header of a record: that is the end of the file, or the
\* record's first segment is next.
ReadHeader ==
  /\ load = "header"
  /\ load' = IF cntPkts = Len(capture) THEN "verify" ELSE "body"
  /\ UNCHANGED <<mbufVars, toLoad, capture, cntPkts, started>>

\* Mutant: that there is no mbuf for another segment goes unnoticed.
ReadSegmentUnchecked ==
  /\ load = "body" /\ chain + 1 < Rec.segs
  /\ pool' = pool - 1 /\ chain' = chain + 1
  /\ UNCHANGED <<loaded, building, playing, sending, nicTx, nicRx, loadVars, started>>

\* load_pkt() allocates a segment and reads it, and it is not the last one.
ReadSegment ==
  /\ load = "body" /\ pool > 0 /\ chain + 1 < Rec.segs
  /\ pool' = pool - 1 /\ chain' = chain + 1
  /\ UNCHANGED <<loaded, building, playing, sending, nicTx, nicRx, loadVars, started>>

\* load_pkt() has read the last segment, and load_pkts() stores the packet.
ReadPacket ==
  /\ load = "body" /\ pool > 0 /\ chain + 1 = Rec.segs /\ Rec.end = "whole"
  /\ pool' = pool - 1 /\ chain' = 0 /\ loaded' = loaded + chain + 1
  /\ load' = "header" /\ cntPkts' = cntPkts + 1
  /\ UNCHANGED <<building, playing, sending, nicTx, nicRx, toLoad, capture, started>>

\* The file ends within the packet.  exit_guard frees what has been read, and as
\* is_eof() now holds, load_pkts() takes it for the end of the capture.
ReadCutPacket ==
  /\ load = "body" /\ pool > 0 /\ chain + 1 = Rec.segs /\ Rec.end = "cut"
  /\ pool' = pool + chain /\ chain' = 0
  /\ load' = "verify"
  /\ UNCHANGED <<loaded, building, playing, sending, nicTx, nicRx, toLoad, capture, cntPkts, started>>

\* Mutant: a record with caplen smaller than len is read as if it were whole.
ReadFailsOnlyWithoutMbuf ==
  \/ load = "body" /\ pool = 0 /\ AbandonStart
  \/ /\ load = "body" /\ pool > 0 /\ Rec.end = "bad"
     /\ pool' = pool - 1 /\ chain' = 0 /\ loaded' = loaded + chain + 1
     /\ load' = "header" /\ cntPkts' = cntPkts + 1
     /\ UNCHANGED <<building, playing, sending, nicTx, nicRx, toLoad, capture, started>>

\* No mbuf for the segment; or the read fails, or the record is a partial one.
ReadFails ==
  /\ load = "body"
  /\ \/ pool = 0
     \/ chain + 1 = Rec.segs /\ Rec.end = "bad"
  /\ AbandonStart

\* load_pkts() has found the headers it needs in every packet: a generator has
\* been constructed.
VerifyPackets ==
  /\ load = "verify" /\ cntPkts > 0
  /\ building' = building + loaded /\ loaded' = 0
  /\ load' = "open" /\ capture' = <<>> /\ cntPkts' = 0
  /\ UNCHANGED <<pool, chain, playing, sending, nicTx, nicRx, toLoad, started>>

\* The capture has no packets, or one of them cannot be worked with.
VerifyFails == load = "verify" /\ AbandonStart

\* generators_ = std::move(gens), gen_cycles_.emplace()
FinishStart ==
  /\ load = "open" /\ toLoad = 0
  /\ playing' = building /\ building' = 0
  /\ load' = "none" /\ started' = TRUE
  /\ UNCHANGED <<pool, chain, loaded, sending, nicTx, nicRx, toLoad, capture, cntPkts>>

LoadStep ==
  \/ OpenCapture \/ OpenFails \/ ReadHeader \/ ReadSegment \/ ReadPacket \/ ReadCutPacket
  \/ ReadFails \/ VerifyPackets \/ VerifyFails \/ FinishStart
-----------------------------------------------------------------------------
(***************************************************************************)
(* A generation                                                            *)
(***************************************************************************)

\* copy_pkt() and send_pkt() in a flow's event.  Without mbufs nothing is sent.
SendCopy ==
  /\ started /\ playing > 0
  /\ \E segs \in 1..MaxSegs :
       /\ segs <= playing /\ segs <= pool
       /\ pool' = pool - segs /\ sending' = sending + segs
  /\ UNCHANGED <<chain, loaded, building, playing, nicTx, nicRx, loadVars, started>>

\* transmit_tx_pkts(): the NIC frees some of the packets it is done with and takes
\* what it has room for; the rest is freed.
TransmitTxPkts ==
  /\ \E taken \in 0..sending, done \in 0..nicTx :
       /\ nicTx - done + taken <= TxRing
       /\ nicTx' = nicTx - done + taken
       /\ pool' = pool + done + (sending - taken)
  /\ sending' = 0
  /\ UNCHANGED <<chain, loaded, building, playing, nicRx, loadVars, started>>

\* Mutant: the generation ends, its generators stay.
StopGenerationKeepsGenerators ==
  /\ started' = FALSE
  /\ UNCHANGED <<mbufVars, loadVars>>

\* stop_generation(), and the destructor of generators_: the captures are freed.
StopGeneration ==
  /\ pool' = pool + playing /\ playing' = 0
  /\ started' = FALSE
  /\ UNCHANGED <<chain, loaded, building, sending, nicTx, nicRx, loadVars>>

BuffersTypeOK ==
  /\ pool \in Nat /\ chain \in Nat /\ loaded \in Nat /\ building \in Nat
  /\ playing \in Nat /\ sending \in Nat /\ nicTx \in 0..TxRing /\ nicRx \in 0..RxRing
  /\ load \in {"none", "open", "header", "body", "verify"}
  /\ toLoad \in 0..MaxCaptures
  /\ capture \in Seq(Record) /\ cntPkts \in 0..Len(capture)
  /\ started \in BOOLEAN
=============================================================================
