----------------------------- MODULE SpscRing -----------------------------
(***************************************************************************)
(* put/spsc_ring.h: the lock-free single-producer single-consumer ring the *)
(* two worker threads exchange messages through.                           *)
(*                                                                         *)
(* Granularity.  Each thread owns one program counter.  A step is one      *)
(* store that the other thread can see, one access to the slots, or the    *)
(* load of the other thread's index; the loads of a thread's own variables *)
(* go with the step that uses them.  An acquire load of the other thread's *)
(* index may return any value that index has had since the value this      *)
(* thread read last (read-read coherence is all C++ gives).                *)
(*                                                                         *)
(* Indexes count up and wrap at IndexMod (2^64 for size_t); the slot of an *)
(* index is its remainder by Size.                                         *)
(***************************************************************************)
EXTENDS Integers, Sequences

CONSTANTS Msgs,      \* the values stored
          Size,      \* number of slots
          Laps,      \* laps of the ring before the unsigned indexes wrap to 0
          Bulks,     \* the arrays the producer may push with one call
          Raw,       \* a slot in which no object lives
          Husk       \* a slot whose object has been moved from

\* static_assert(Size is a non-zero power of 2) makes Size divide 2^64; no
\* other consequence of it is needed.
ASSUME SizeAssumption == Size \in Nat \ {0}
ASSUME LapsAssumption == Laps \in Nat \ {0, 1}
ASSUME ValueAssumption == /\ Raw \notin Msgs
                          /\ Husk \notin Msgs
                          /\ Raw # Husk
ASSUME BulkAssumption == Bulks \subseteq Seq(Msgs)

VARIABLES
  \* atomic_head_, the producer's copy of the tail, and its call in progress
  head, prodTail, prodPc, todo, filled,
  \* atomic_tail_, the consumer's copy of the head, and its call in progress
  tail, consHead, consPc, op, want, moved, destroyed,
  \* the objects of buff_, what the consumer's call has handed over so far,
  \* and whether the ring object itself is alive
  slot, out, life

prodVars == <<head, prodTail, prodPc, todo, filled>>
consVars == <<tail, consHead, consPc, op, want, moved, destroyed, out>>
vars == <<prodVars, consVars, slot, life>>

IndexMod == Laps * Size
Index == 0..(IndexMod - 1)

\* Unsigned arithmetic on indexes, for operands that are at most IndexMod apart.
Add(i, k) == IF i + k < IndexMod THEN i + k ELSE i + k - IndexMod
Dist(from, to) == IF to >= from THEN to - from ELSE to - from + IndexMod

\* i & size_mask
Pos(i) == i % Size

Lesser(a, b) == IF a < b THEN a ELSE b

\* What an acquire load of `latest` may return to a thread that knows `known`.
Observed(known, latest) == {Add(known, d) : d \in 0..Dist(known, latest)}

(***************************************************************************)
(* The producer                                                            *)
(***************************************************************************)

\* Mutant: the ring is full only when it holds more than Size entries.
RoomOffByOne(knownTail) == Size + 1 - Dist(knownTail, head)

\* cnt_avail as the producer computes it from the tail it knows.
Room(knownTail) == Size - Dist(knownTail, head)

\* The other thread's index is loaded only when the cached one does not do.
RefreshTail(need) ==
  IF Room(prodTail) < need THEN prodTail' \in Observed(prodTail, tail)
                           ELSE UNCHANGED prodTail

\* try_push(Args&&...) up to the placement new.
TryPushOne(m) ==
  /\ life = "alive" /\ prodPc = "idle"
  /\ RefreshTail(1)
  /\ IF Room(prodTail') = 0
       THEN UNCHANGED <<prodPc, todo>>                \* return false
       ELSE prodPc' = "one" /\ todo' = <<m>>
  /\ UNCHANGED <<head, filled, consVars, slot, life>>

\* try_push(U* from, size_type sz, DoMove) up to the loop.
TryPushMany(ms) ==
  /\ life = "alive" /\ prodPc = "idle"
  /\ RefreshTail(Len(ms))
  /\ IF Room(prodTail') = 0
       THEN UNCHANGED <<prodPc, todo>>                \* return 0
       ELSE prodPc' = "many" /\ todo' = SubSeq(ms, 1, Lesser(Len(ms), Room(prodTail')))
  /\ UNCHANGED <<head, filled, consVars, slot, life>>

\* new (&buff_[pos]) value_type(...): one object.
Construct ==
  /\ prodPc # "idle" /\ todo # <<>>
  /\ slot' = [slot EXCEPT ![Pos(Add(head, filled))] = Head(todo)]
  /\ todo' = Tail(todo)
  /\ filled' = filled + 1
  /\ UNCHANGED <<head, prodTail, prodPc, consVars, life>>

\* The constructor throws; only the single push is callable for such a T.
ConstructThrows ==
  /\ prodPc = "one" /\ todo # <<>>
  /\ prodPc' = "idle" /\ todo' = <<>>
  /\ UNCHANGED <<head, prodTail, filled, consVars, slot, life>>

\* Mutant: the head is published before the objects are there.
PublishHeadEarly ==
  /\ prodPc # "idle"
  /\ head' = Add(head, filled + Len(todo))
  /\ prodPc' = "idle" /\ filled' = 0 /\ todo' = <<>>
  /\ UNCHANGED <<prodTail, consVars, slot, life>>

\* atomic_head_.store(..., release), and return.
PublishHead ==
  /\ prodPc # "idle" /\ todo = <<>>
  /\ head' = Add(head, filled)
  /\ prodPc' = "idle" /\ filled' = 0
  /\ UNCHANGED <<prodTail, todo, consVars, slot, life>>

(***************************************************************************)
(* The consumer                                                            *)
(***************************************************************************)

\* cnt_avail, fixed during a call: neither index changes before its end.
Avail == Dist(tail, consHead)

\* Not (end > beg): the entries form two ranges of the buffer.
Wraps == Pos(Add(tail, Avail)) <= Pos(tail)

\* The lengths of the first range, from position beg, and of the second,
\* from position 0.
FirstRange == IF op = "one" THEN 1 ELSE IF Wraps THEN Size - Pos(tail) ELSE Avail
SecondRange == Pos(Add(tail, Avail))

RefreshHead ==
  IF Dist(tail, consHead) = 0
    THEN consHead' \in (IF life = "alive" THEN Observed(consHead, head) ELSE {head})
    ELSE UNCHANGED consHead

\* What a call does before it touches an entry.  `kind` is "one" for
\* try_consume of a value and try_pop(U&), "many" for try_consume of ranges,
\* "pop" for try_pop(U*, sz) with sz = n.
StartCall(kind, n) ==
  /\ consPc = "idle"
  /\ RefreshHead
  /\ out' = <<>>
  /\ IF Dist(tail, consHead') = 0
       THEN UNCHANGED <<consPc, op, want>>            \* return false or 0
       ELSE consPc' = "call1" /\ op' = kind /\ want' = n
  /\ UNCHANGED <<tail, moved, destroyed, slot, prodVars>>

TryConsume == \E kind \in {"one", "many"} :
                life = "alive" /\ StartCall(kind, 0) /\ UNCHANGED life

TryPop(sz) == life = "alive" /\ StartCall("pop", sz) /\ UNCHANGED life

\* How many of a range's entries the function may take: as many as it likes,
\* except that the one of try_pop takes what still fits.
Taken(range) == IF op = "pop" THEN {Lesser(want, range)} ELSE 0..range

\* The function takes k entries starting at buffer position pos.
TakeFrom(pos, k) ==
  /\ out' = out \o [j \in 1..k |-> slot[pos + j - 1]]
  /\ slot' = [i \in DOMAIN slot |-> IF i \in pos..(pos + k - 1) THEN Husk ELSE slot[i]]
  /\ moved' = moved + k

CallFirst ==
  /\ consPc = "call1"
  /\ \E k \in Taken(FirstRange) :
       /\ TakeFrom(Pos(tail), k)
       /\ want' = IF op = "pop" THEN want - k ELSE want
       /\ consPc' = IF op = "one" /\ k = 0 THEN "idle" ELSE "destroy1"
  /\ UNCHANGED <<tail, consHead, op, destroyed, prodVars, life>>

\* destroy_consumed: the entries of positions from..to-1.
DestroyRange(from, to) ==
  slot' = [i \in DOMAIN slot |-> IF i \in from..(to - 1) THEN Raw ELSE slot[i]]

\* Mutant: the second range is entered although the first was not used up.
DestroyFirstThenGoOn ==
  /\ consPc = "destroy1"
  /\ DestroyRange(Pos(tail), Pos(tail) + moved)
  /\ destroyed' = moved
  /\ consPc' = IF op # "one" /\ Wraps THEN "call2" ELSE "publish"
  /\ UNCHANGED <<tail, consHead, op, want, moved, out, prodVars, life>>

\* Mutant: the tail is advanced without ending the lifetime of the entries.
DestroyNothing ==
  /\ consPc = "destroy1"
  /\ destroyed' = moved
  /\ consPc' = IF op # "one" /\ Wraps /\ moved = FirstRange THEN "call2" ELSE "publish"
  /\ UNCHANGED <<tail, consHead, op, want, moved, out, slot, prodVars, life>>

DestroyFirst ==
  /\ consPc = "destroy1"
  /\ DestroyRange(Pos(tail), Pos(tail) + moved)
  /\ destroyed' = moved
  /\ consPc' = IF op # "one" /\ Wraps /\ moved = FirstRange THEN "call2" ELSE "publish"
  /\ UNCHANGED <<tail, consHead, op, want, moved, out, prodVars, life>>

\* Mutant: the entries of the first range are counted twice.
CallSecondCountsTwice ==
  /\ consPc = "call2"
  /\ \E k \in Taken(SecondRange) :
       /\ out' = out \o [j \in 1..k |-> slot[j - 1]]
       /\ moved' = moved + (moved + k)
       /\ want' = IF op = "pop" THEN want - k ELSE want
  /\ consPc' = "destroy2"
  /\ UNCHANGED <<tail, consHead, op, destroyed, slot, prodVars, life>>

CallSecond ==
  /\ consPc = "call2"
  /\ \E k \in Taken(SecondRange) :
       /\ TakeFrom(0, k)
       /\ want' = IF op = "pop" THEN want - k ELSE want
  /\ consPc' = "destroy2"
  /\ UNCHANGED <<tail, consHead, op, destroyed, prodVars, life>>

DestroySecond ==
  /\ consPc = "destroy2"
  /\ DestroyRange(0, moved - destroyed)
  /\ destroyed' = moved
  /\ consPc' = "publish"
  /\ UNCHANGED <<tail, consHead, op, want, moved, out, prodVars, life>>

\* atomic_tail_.store(..., release), and return.
PublishTail ==
  /\ consPc = "publish"
  /\ tail' = Add(tail, moved)
  /\ moved' = 0 /\ destroyed' = 0
  /\ consPc' = "idle"
  /\ UNCHANGED <<consHead, op, want, out, slot, prodVars, life>>

(***************************************************************************)
(* The destructor, called when both threads are done with the ring         *)
(***************************************************************************)
StartDestructor ==
  /\ life = "alive" /\ prodPc = "idle" /\ consPc = "idle"
  /\ life' = "draining"
  /\ UNCHANGED <<prodVars, consVars, slot>>

\* Mutant: the ring is taken to be empty when the cached head says so.
DrainByCache ==
  /\ life = "draining"
  /\ IF Dist(tail, consHead) = 0 /\ consPc = "idle"
       THEN life' = "gone" /\ UNCHANGED <<prodVars, consVars, slot>>
       ELSE StartCall("pop", Lesser(16, Size)) /\ UNCHANGED life

\* while (try_pop(tmp.data(), tmp.size()) > 0) {}
Drain ==
  /\ life = "draining"
  /\ StartCall("pop", Lesser(16, Size))
  /\ life' = IF Dist(tail, consHead') = 0 THEN "gone" ELSE life

-----------------------------------------------------------------------------
Init ==
  /\ head = 0 /\ prodTail = 0 /\ prodPc = "idle" /\ todo = <<>> /\ filled = 0
  /\ tail = 0 /\ consHead = 0 /\ consPc = "idle" /\ op = "one" /\ want = 0
  /\ moved = 0 /\ destroyed = 0 /\ out = <<>>
  /\ slot = [i \in 0..(Size - 1) |-> Raw]
  /\ life = "alive"

Produce == \/ \E m \in Msgs : TryPushOne(m)
           \/ \E ms \in Bulks : TryPushMany(ms)
           \/ Construct \/ ConstructThrows \/ PublishHead

Consume == \/ TryConsume
           \/ \E sz \in 0..Size : TryPop(sz)
           \/ CallFirst \/ DestroyFirst \/ CallSecond \/ DestroySecond
           \/ PublishTail

Next == Produce \/ Consume \/ StartDestructor \/ Drain

Spec == Init /\ [][Next]_vars
-----------------------------------------------------------------------------
(***************************************************************************)
(* Properties                                                              *)
(***************************************************************************)

\* The types of the ring's variables.
TypeOK ==
  /\ head \in Index /\ prodTail \in Index /\ tail \in Index /\ consHead \in Index
  /\ prodPc \in {"idle", "one", "many"}
  /\ todo \in Seq(Msgs)
  /\ consPc \in {"idle", "call1", "destroy1", "call2", "destroy2", "publish"}
  /\ op \in {"one", "many", "pop"}
  /\ filled \in 0..Size /\ want \in 0..Size /\ moved \in 0..Size /\ destroyed \in 0..Size
  /\ slot \in [0..(Size - 1) -> Msgs \cup {Raw, Husk}]
  /\ out \in Seq(Msgs)
  /\ life \in {"alive", "draining", "gone"}

\* Each thread's copy of the other's index is behind that index, and the
\* four indexes stay in order within one ring of each other:
\* prod_tail_ <= tail <= cons_head_ <= head <= prod_tail_ + Size.
\* This is what makes an acquire load with a stale result harmless.
CachesTrail ==
  /\ Dist(prodTail, tail) + Dist(tail, consHead) + Dist(consHead, head) = Dist(prodTail, head)
  /\ Dist(prodTail, head) + filled + Len(todo) <= Size

\* Which objects live in buff_ follows from the indexes: going round from the
\* tail there are the entries already destroyed by the call in progress, those
\* moved from, the messages up to the last one constructed, and free slots.
SlotsMatchIndexes ==
  \A d \in 0..(Size - 1) :
    LET s == slot[Pos(Add(tail, d))] IN
    /\ d < destroyed => s = Raw
    /\ destroyed <= d /\ d < moved => s = Husk
    /\ moved <= d /\ d < Dist(tail, head) + filled => s \in Msgs
    /\ Dist(tail, head) + filled <= d => s = Raw

\* Neither thread touches a slot that is not its own: the producer constructs
\* only where no object lives, and the function of try_consume is handed only
\* complete messages that nobody has moved from.  The accesses to buff_ are
\* unsynchronised, so the two index stores are all that keeps them apart.
NoSlotRace ==
  /\ todo # <<>> => slot[Pos(Add(head, filled))] = Raw
  /\ consPc = "call1" => \A j \in 1..FirstRange : slot[Pos(tail) + j - 1] \in Msgs
  /\ consPc = "call2" => \A j \in 1..SecondRange : slot[j - 1] \in Msgs

\* The destructor ends the lifetime of every message that was never popped.
NothingLeaks == life = "gone" => \A i \in 0..(Size - 1) : slot[i] = Raw

\* The messages pushed and not handed over yet, oldest first.
Content ==
  [i \in 1..(Dist(tail, head) - moved) |-> slot[Pos(Add(tail, moved + i - 1))]]

Fifo == INSTANCE BoundedFifo WITH Capacity <- Size, queue <- Content, batch <- out

\* The two threads see a bounded first-in first-out buffer: nothing is lost,
\* duplicated, reordered or invented, whatever stale index either thread works
\* with and however the callback of try_consume stops half way.
ImplementsFifo == Fifo!Spec
=============================================================================
