-------------------------- MODULE SpscRing_proofs --------------------------
(***************************************************************************)
(* What holds of the ring for every size, every index width and every set  *)
(* of messages.                                                            *)
(***************************************************************************)
EXTENDS SpscRing, SequenceTheorems, TLAPS

(***************************************************************************)
(* Arithmetic of indexes and positions                                     *)
(***************************************************************************)

\* Division with remainder by Size, which is not zero.
LEMMA Division ==
  ASSUME NEW n \in Nat
  PROVE  /\ n % Size \in 0..(Size - 1)
         /\ n \div Size \in Nat
         /\ n = Size * (n \div Size) + (n % Size)
  BY SizeAssumption

\* The remainder is the only one.
LEMMA Remainder ==
  ASSUME NEW n \in Nat, NEW q \in Int, NEW r \in 0..(Size - 1), n = Size * q + r
  PROVE  n % Size = r
<1> DEFINE p == n \div Size
           s == n % Size
<1>1. p \in Nat /\ s \in 0..(Size - 1) /\ n = Size * p + s
  BY Division
<1>2. CASE p = q
  BY <1>1, <1>2, SizeAssumption
<1>3. CASE p >= q + 1
  <2> HIDE DEF p, s
  <2> DEFINE d == p - q - 1
  <2>1. d \in Nat /\ p = q + 1 + d
    BY <1>1, <1>3
  <2>2. Size * p = Size * q + Size + Size * d /\ Size * q \in Int /\ Size * p \in Int
    BY <2>1, <1>1, SizeAssumption
  <2>3. Size * d \in Nat
    BY <2>1, SizeAssumption
  <2> HIDE DEF d
  <2> QED BY <1>1, <2>2, <2>3, SizeAssumption
<1>4. CASE q >= p + 1
  <2> HIDE DEF p, s
  <2> DEFINE d == q - p - 1
  <2>1. d \in Nat /\ q = p + 1 + d
    BY <1>1, <1>4
  <2>2. Size * q = Size * p + Size + Size * d /\ Size * q \in Int /\ Size * p \in Int
    BY <2>1, <1>1, SizeAssumption
  <2>3. Size * d \in Nat
    BY <2>1, SizeAssumption
  <2> HIDE DEF d
  <2> QED BY <1>1, <2>2, <2>3, SizeAssumption
<1> QED BY <1>1, <1>2, <1>3, <1>4

\* There are at least two laps of the ring in the range of the indexes.
LEMMA IndexModBound == IndexMod \in Nat /\ IndexMod >= 2 * Size
<1> DEFINE d == Laps - 2
<1>1. d \in Nat /\ Laps = 2 + d
  BY LapsAssumption
<1> HIDE DEF d
<1>2. Laps * Size = 2 * Size + d * Size /\ d * Size \in Nat
  BY <1>1, SizeAssumption
<1> QED BY <1>2, SizeAssumption DEF IndexMod

\* Going k entries on from an index goes k positions round the buffer.
LEMMA PosAdd ==
  ASSUME NEW i \in Index, NEW k \in 0..Size
  PROVE  /\ Pos(i) \in 0..(Size - 1)
         /\ Add(i, k) \in Index
         /\ Pos(Add(i, k)) = IF Pos(i) + k < Size THEN Pos(i) + k ELSE Pos(i) + k - Size
<1> DEFINE q == i \div Size
           r == i % Size
<1>1. /\ q \in Nat /\ r \in 0..(Size - 1) /\ i = Size * q + r
      /\ i \in Nat /\ i < IndexMod /\ IndexMod \in Nat /\ IndexMod >= 2 * Size
  BY Division, IndexModBound DEF Index
<1>2. Size * (q + 1) = Size * q + Size /\ Size * q \in Nat
      /\ Size * (q + 1 - Laps) = Size * q + Size - IndexMod
  BY <1>1, SizeAssumption, LapsAssumption DEF IndexMod
<1>3. q <= Laps - 1
  <2>1. SUFFICES ASSUME q >= Laps PROVE FALSE
    BY <1>1, LapsAssumption
  <2> HIDE DEF q, r
  <2> DEFINE d == q - Laps
  <2>2. d \in Nat /\ q = Laps + d
    BY <2>1, <1>1, LapsAssumption
  <2>3. Size * q = IndexMod + Size * d /\ Size * d \in Nat
    BY <2>2, SizeAssumption, LapsAssumption DEF IndexMod
  <2> HIDE DEF d
  <2> QED BY <1>1, <2>3, SizeAssumption
<1>4. Size * q <= IndexMod - Size
  <2> HIDE DEF q, r
  <2> DEFINE d == Laps - 1 - q
  <2>1. d \in Nat /\ Laps - 1 = q + d
    BY <1>1, <1>3, LapsAssumption
  <2>2. Size * (Laps - 1) = Size * q + Size * d /\ Size * d \in Nat
        /\ Size * (Laps - 1) = IndexMod - Size
    BY <2>1, <1>1, SizeAssumption, LapsAssumption DEF IndexMod
  <2> HIDE DEF d
  <2> QED BY <1>1, <2>2, SizeAssumption
<1>5. Add(i, k) \in Index
  BY <1>1, SizeAssumption DEF Add, Index
<1>6. Pos(i) = r
  BY DEF Pos
<1> HIDE DEF q, r
<1>7. CASE i + k < IndexMod /\ r + k < Size
  <2>1. Add(i, k) = Size * q + (r + k) /\ Add(i, k) \in Nat
    BY <1>1, <1>7, SizeAssumption DEF Add
  <2>2. r + k \in 0..(Size - 1)
    BY <1>1, <1>7, SizeAssumption
  <2>3. Pos(Add(i, k)) = r + k
    BY <2>1, <2>2, <1>1, Remainder DEF Pos
  <2> QED BY <2>3, <1>5, <1>6, <1>7, <1>1
<1>8. CASE i + k < IndexMod /\ r + k >= Size
  <2>1. Add(i, k) = Size * (q + 1) + (r + k - Size) /\ Add(i, k) \in Nat
    BY <1>1, <1>2, <1>8, SizeAssumption DEF Add
  <2>2. r + k - Size \in 0..(Size - 1)
    BY <1>1, <1>8, SizeAssumption
  <2>3. Pos(Add(i, k)) = r + k - Size
    BY <2>1, <2>2, <1>1, Remainder DEF Pos
  <2>4. ~(Pos(i) + k < Size)
    BY <1>1, <1>6, <1>8, SizeAssumption
  <2> QED BY <2>3, <2>4, <1>5, <1>6, <1>1
<1>9. CASE i + k >= IndexMod
  <2>1. r + k >= Size
    BY <1>1, <1>4, <1>9, SizeAssumption
  <2>2. Add(i, k) = Size * (q + 1 - Laps) + (r + k - Size) /\ Add(i, k) \in Nat
    BY <1>1, <1>2, <1>9, SizeAssumption DEF Add
  <2>3. r + k - Size \in 0..(Size - 1)
    BY <1>1, <2>1, SizeAssumption
  <2>4. Pos(Add(i, k)) = r + k - Size
    BY <2>2, <2>3, <1>1, Remainder, LapsAssumption DEF Pos
  <2> QED BY <2>4, <2>1, <1>5, <1>6, <1>1, SizeAssumption
<1> QED BY <1>1, <1>7, <1>8, <1>9, SizeAssumption

\* Distances round the index range: moving the near end forward shortens them,
\* moving the far end forward lengthens them, and they add up while their sum
\* stays below the range.
LEMMA DistType ==
  ASSUME NEW i \in Index, NEW j \in Index
  PROVE  Dist(i, j) \in 0..(IndexMod - 1) /\ Add(i, Dist(i, j)) = j
  BY IndexModBound DEF Index, Dist, Add

LEMMA DistNear ==
  ASSUME NEW i \in Index, NEW j \in Index, NEW d \in 0..Dist(i, j)
  PROVE  /\ Add(i, d) \in Index
         /\ Dist(Add(i, d), j) = Dist(i, j) - d
         /\ Dist(i, Add(i, d)) = d
  BY IndexModBound DEF Index, Dist, Add

LEMMA DistFar ==
  ASSUME NEW i \in Index, NEW j \in Index, NEW d \in Nat, Dist(i, j) + d < IndexMod
  PROVE  /\ Add(j, d) \in Index
         /\ Dist(i, Add(j, d)) = Dist(i, j) + d
         /\ Add(i, Dist(i, j) + d) = Add(j, d)
  BY IndexModBound DEF Index, Dist, Add

LEMMA DistSum ==
  ASSUME NEW i \in Index, NEW j \in Index, NEW k \in Index,
         Dist(i, j) + Dist(j, k) < IndexMod
  PROVE  Dist(i, k) = Dist(i, j) + Dist(j, k)
  BY IndexModBound DEF Index, Dist

LEMMA DistSelf ==
  ASSUME NEW i \in Index
  PROVE  Dist(i, i) = 0 /\ Add(i, 0) = i
  BY IndexModBound DEF Index, Dist, Add

\* The position of the entry d places after the tail.
LEMMA PosFromTail ==
  ASSUME tail \in Index, NEW d \in 0..Size
  PROVE  /\ Pos(tail) \in 0..(Size - 1)
         /\ Pos(Add(tail, d)) \in 0..(Size - 1)
         /\ Pos(Add(tail, d)) = IF Pos(tail) + d < Size THEN Pos(tail) + d
                                                         ELSE Pos(tail) + d - Size
  BY PosAdd

-----------------------------------------------------------------------------
(***************************************************************************)
(* The inductive invariant                                                 *)
(***************************************************************************)

\* What the calls in progress have established.
Calls ==
  /\ prodPc = "idle" => todo = <<>> /\ filled = 0
  /\ prodPc = "one" => filled + Len(todo) = 1
  /\ consPc = "idle" => moved = 0 /\ destroyed = 0
  /\ consPc # "idle" => Avail \in 1..Size
  /\ destroyed <= moved /\ moved <= Avail
  /\ consPc = "call1" => moved = 0 /\ destroyed = 0
  /\ consPc = "destroy1" => destroyed = 0 /\ moved <= FirstRange
  /\ consPc \in {"call2", "destroy2"} => Wraps /\ op # "one" /\ destroyed = FirstRange
  /\ consPc = "call2" => moved = destroyed
  /\ consPc = "publish" => moved = destroyed
  /\ life # "alive" => prodPc = "idle"
  /\ life = "gone" => consPc = "idle" /\ Dist(tail, head) = 0

IInv == TypeOK /\ CachesTrail /\ Calls /\ SlotsMatchIndexes

\* The ranges handed out stay inside the buffer and together make up what is
\* available.
LEMMA Ranges ==
  ASSUME tail \in Index, Avail \in 1..Size
  PROVE  /\ FirstRange \in 1..Avail
         /\ Pos(tail) + FirstRange <= Size
         /\ op # "one" /\ Wraps => /\ Pos(tail) + FirstRange = Size
                                  /\ SecondRange = Avail - FirstRange
         /\ op # "one" /\ ~Wraps => FirstRange = Avail
<1>1. /\ Pos(tail) \in 0..(Size - 1)
      /\ Pos(Add(tail, Avail)) = IF Pos(tail) + Avail < Size THEN Pos(tail) + Avail
                                                             ELSE Pos(tail) + Avail - Size
  BY PosFromTail, SizeAssumption
<1> QED BY <1>1, SizeAssumption DEF FirstRange, SecondRange, Wraps

\* Consequences of the order of the indexes.
LEMMA Distances ==
  ASSUME TypeOK, CachesTrail
  PROVE  /\ Dist(prodTail, tail) \in 0..Size /\ Avail \in 0..Size
         /\ Dist(consHead, head) \in 0..Size /\ Dist(prodTail, head) \in 0..Size
         /\ Dist(tail, head) = Avail + Dist(consHead, head)
         /\ Dist(tail, head) \in 0..Size
         /\ Dist(tail, head) + filled + Len(todo) <= Size
         /\ Size < IndexMod
<1>1. /\ head \in Index /\ prodTail \in Index /\ tail \in Index /\ consHead \in Index
      /\ filled \in 0..Size /\ Len(todo) \in Nat
  BY DEF TypeOK
<1>2. /\ Dist(prodTail, tail) \in Nat /\ Dist(tail, consHead) \in Nat
      /\ Dist(consHead, head) \in Nat /\ Dist(prodTail, head) \in Nat
      /\ Dist(tail, head) \in Nat
  BY <1>1, DistType, IndexModBound
<1>3. /\ Dist(prodTail, tail) + Dist(tail, consHead) + Dist(consHead, head) = Dist(prodTail, head)
      /\ Dist(prodTail, head) + filled + Len(todo) <= Size
  BY DEF CachesTrail
<1>4. Size < IndexMod
  BY IndexModBound, SizeAssumption
<1>5. Dist(tail, head) = Dist(tail, consHead) + Dist(consHead, head)
  <2>1. Dist(tail, consHead) + Dist(consHead, head) <= Size
    BY <1>1, <1>2, <1>3, SizeAssumption
  <2>2. Dist(tail, consHead) + Dist(consHead, head) < IndexMod
    BY <1>2, <1>4, <2>1, SizeAssumption, IndexModBound
  <2> QED BY <1>1, <2>2, DistSum
<1>6. /\ Dist(prodTail, tail) <= Size /\ Dist(tail, consHead) <= Size
      /\ Dist(consHead, head) <= Size /\ Dist(prodTail, head) <= Size
  BY <1>1, <1>2, <1>3, SizeAssumption
<1>7. Dist(tail, head) <= Size /\ Dist(tail, head) + filled + Len(todo) <= Size
  <2>1. filled \in Nat /\ Len(todo) \in Nat
    BY <1>1
  <2>2. Dist(tail, head) <= Dist(prodTail, head)
    BY <1>2, <1>3, <1>5
  <2>3. Dist(tail, head) <= Size
    BY <1>2, <1>6, <2>2, SizeAssumption
  <2>4. Dist(tail, head) + filled + Len(todo) <= Size
    BY <1>2, <1>3, <2>1, <2>2, SizeAssumption
  <2> QED BY <2>3, <2>4
<1>8. /\ Dist(prodTail, tail) \in 0..Size /\ Dist(tail, consHead) \in 0..Size
      /\ Dist(consHead, head) \in 0..Size /\ Dist(prodTail, head) \in 0..Size
      /\ Dist(tail, head) \in 0..Size
  BY <1>2, <1>6, <1>7, SizeAssumption
<1> QED BY <1>4, <1>5, <1>7, <1>8 DEF Avail

\* The initial state: an empty ring and no call in progress.
LEMMA InitIInv == Init => IInv
<1> SUFFICES ASSUME Init PROVE IInv
  OBVIOUS
<1>1. 0 \in Index
  BY IndexModBound, SizeAssumption DEF Index
<1>2. Dist(0, 0) = 0
  BY <1>1, DistSelf
<1>3. TypeOK
  BY <1>1, SizeAssumption DEF Init, TypeOK
<1>4. CachesTrail
  BY <1>2, SizeAssumption DEF Init, CachesTrail
<1>5. Calls
  BY <1>2 DEF Init, Calls, Avail
<1>6. SlotsMatchIndexes
  <2>1. SUFFICES ASSUME NEW d \in 0..(Size - 1) PROVE slot[Pos(Add(tail, d))] = Raw
    BY <1>2, SizeAssumption DEF Init, SlotsMatchIndexes
  <2>2. tail \in Index /\ d \in 0..Size
    BY <1>1, SizeAssumption DEF Init
  <2>3. Pos(Add(tail, d)) \in 0..(Size - 1)
    BY <2>2, PosFromTail
  <2> QED BY <2>3 DEF Init
<1> QED BY <1>3, <1>4, <1>5, <1>6 DEF IInv

\* Loading the tail again keeps the producer's copy behind it.
LEMMA RefreshTailOrder ==
  ASSUME TypeOK, CachesTrail, NEW need \in Nat, RefreshTail(need)
  PROVE  /\ prodTail' \in Index
         /\ Dist(prodTail', tail) + Dist(tail, consHead) + Dist(consHead, head) = Dist(prodTail', head)
         /\ Dist(prodTail', head) <= Dist(prodTail, head)
<1>0. prodTail \in Index /\ tail \in Index /\ consHead \in Index /\ head \in Index
  BY DEF TypeOK
<1>1. CASE UNCHANGED prodTail
  <2>1. Dist(prodTail, head) \in Nat
    BY <1>0, DistType, IndexModBound
  <2>2. prodTail' = prodTail
    BY <1>1
  <2>3. Dist(prodTail, head) <= Dist(prodTail, head)
    BY <2>1
  <2> QED BY <1>0, <2>2, <2>3 DEF CachesTrail
<1>2. CASE prodTail' \in Observed(prodTail, tail)
  <2>1. PICK d \in 0..Dist(prodTail, tail) : prodTail' = Add(prodTail, d)
    BY <1>2 DEF Observed
  <2>2. d <= Dist(prodTail, head) /\ d \in Nat
    BY <2>1, Distances DEF CachesTrail, Avail
  <2>3. Dist(prodTail', tail) = Dist(prodTail, tail) - d /\ prodTail' \in Index
    BY <1>0, <2>1, DistNear
  <2>4. Dist(prodTail', head) = Dist(prodTail, head) - d
    BY <1>0, <2>1, <2>2, DistNear, DistType, IndexModBound
  <2>5. /\ Dist(prodTail, tail) \in Nat /\ Dist(tail, consHead) \in Nat
        /\ Dist(consHead, head) \in Nat /\ Dist(prodTail, head) \in Nat
        /\ Dist(prodTail, tail) + Dist(tail, consHead) + Dist(consHead, head) = Dist(prodTail, head)
    BY <1>0, DistType, IndexModBound DEF CachesTrail
  <2>6. Dist(prodTail', tail) + Dist(tail, consHead) + Dist(consHead, head) = Dist(prodTail', head)
    BY <2>2, <2>3, <2>4, <2>5
  <2>7. Dist(prodTail', head) <= Dist(prodTail, head)
    BY <2>2, <2>4, <2>5
  <2> QED BY <2>3, <2>6, <2>7
<1> QED BY <1>1, <1>2 DEF RefreshTail

\* What is left in the ring as the producer knows it.
LEMMA RoomType ==
  ASSUME TypeOK, CachesTrail, NEW need \in Nat, RefreshTail(need), UNCHANGED head
  PROVE  Room(prodTail') \in 0..Size
<1>1. prodTail' \in Index /\ head \in Index /\ Dist(prodTail', head) <= Dist(prodTail, head)
  BY RefreshTailOrder DEF TypeOK
<1>2. Dist(prodTail', head) \in Nat /\ Dist(prodTail, head) \in 0..Size
  BY <1>1, DistType, Distances, IndexModBound
<1> QED BY <1>1, <1>2, SizeAssumption DEF Room

\* A push that has made room for what it will construct.
LEMMA PushIInv ==
  ASSUME IInv, NEW need \in Nat, RefreshTail(need), prodPc = "idle", life = "alive",
         UNCHANGED <<head, filled, consVars, slot, life>>,
         prodPc' \in {"idle", "one", "many"}, todo' \in Seq(Msgs),
         prodPc' = "idle" => todo' = <<>>,
         prodPc' # "idle" => Len(todo') <= Room(prodTail'),
         prodPc' = "one" => Len(todo') = 1
  PROVE  IInv'
<1> USE DEF IInv, consVars
<1>1. /\ prodTail' \in Index
      /\ Dist(prodTail', tail) + Dist(tail, consHead) + Dist(consHead, head) = Dist(prodTail', head)
      /\ Dist(prodTail', head) <= Dist(prodTail, head)
      /\ filled = 0 /\ todo = <<>>
  BY RefreshTailOrder DEF Calls
<1>2. TypeOK'
  BY <1>1 DEF TypeOK
<1>3. CachesTrail'
  <2>1. Dist(prodTail', head) \in Nat /\ Dist(prodTail, head) \in 0..Size
    BY <1>1, Distances, DistType, IndexModBound DEF TypeOK
  <2>2. Dist(prodTail', head) + Len(todo') <= Size
    BY <1>1, <2>1, SizeAssumption DEF Room
  <2> QED BY <1>1, <2>1, <2>2 DEF CachesTrail
<1>4. Calls'
  BY <1>1 DEF Calls, Avail, FirstRange, Wraps
<1>5. SlotsMatchIndexes'
  BY <1>1 DEF SlotsMatchIndexes
<1> QED BY <1>2, <1>3, <1>4, <1>5

LEMMA TryPushOneIInv ==
  ASSUME IInv, NEW m \in Msgs, TryPushOne(m)
  PROVE  IInv'
<1> USE DEF TryPushOne
<1>1. CASE Room(prodTail') = 0
  BY <1>1, PushIInv, 1 \in Nat DEF IInv, Calls
<1>2. CASE Room(prodTail') # 0
  <2>1. Room(prodTail') \in 0..Size
    BY RoomType, 1 \in Nat DEF IInv
  <2>2. <<m>> \in Seq(Msgs) /\ Len(<<m>>) = 1 /\ 1 <= Room(prodTail')
    BY <1>2, <2>1, SizeAssumption
  <2> QED BY <1>2, <2>2, PushIInv, 1 \in Nat
<1> QED BY <1>1, <1>2

LEMMA TryPushManyIInv ==
  ASSUME IInv, NEW ms \in Bulks, TryPushMany(ms)
  PROVE  IInv'
<1> USE DEF TryPushMany
<1>1. ms \in Seq(Msgs) /\ Len(ms) \in Nat
  BY BulkAssumption
<1>2. CASE Room(prodTail') = 0
  BY <1>1, <1>2, PushIInv DEF IInv, Calls
<1>3. CASE Room(prodTail') # 0
  <2> DEFINE n == Lesser(Len(ms), Room(prodTail'))
  <2>1. Room(prodTail') \in Nat
    BY <1>1, RoomType, SizeAssumption DEF IInv
  <2>2. n \in 0..Len(ms) /\ n <= Room(prodTail')
    BY <1>1, <2>1 DEF Lesser
  <2>3. SubSeq(ms, 1, n) \in Seq(Msgs) /\ Len(SubSeq(ms, 1, n)) = n
    BY <1>1, <2>2
  <2> QED BY <1>1, <1>3, <2>2, <2>3, PushIInv
<1> QED BY <1>2, <1>3

\* Different entries are at different positions.
LEMMA PosDistinct ==
  ASSUME tail \in Index, NEW d \in 0..(Size - 1), NEW e \in 0..(Size - 1), d # e
  PROVE  Pos(Add(tail, d)) # Pos(Add(tail, e))
  BY PosFromTail, SizeAssumption

\* The slot the producer is about to fill lies after everything in the ring.
LEMMA NextSlot ==
  ASSUME IInv, todo # <<>>
  PROVE  /\ Dist(tail, head) + filled \in 0..(Size - 1)
         /\ Add(head, filled) = Add(tail, Dist(tail, head) + filled)
         /\ Pos(Add(head, filled)) \in 0..(Size - 1)
         /\ slot[Pos(Add(head, filled))] = Raw
<1>1. /\ tail \in Index /\ head \in Index /\ filled \in Nat
      /\ todo \in Seq(Msgs) /\ Len(todo) \in Nat \ {0}
  BY EmptySeq DEF IInv, TypeOK
<1>2. Dist(tail, head) + filled \in 0..(Size - 1)
  BY <1>1, Distances, SizeAssumption DEF IInv
<1>3. Add(head, filled) = Add(tail, Dist(tail, head) + filled)
  BY <1>1, <1>2, DistFar, IndexModBound, SizeAssumption
<1>4. Pos(Add(tail, Dist(tail, head) + filled)) \in 0..(Size - 1)
  BY <1>1, <1>2, PosFromTail, SizeAssumption
<1>5. slot[Pos(Add(tail, Dist(tail, head) + filled))] = Raw
  BY <1>2, SizeAssumption DEF IInv, SlotsMatchIndexes
<1> QED BY <1>2, <1>3, <1>4, <1>5

LEMMA ConstructIInv ==
  ASSUME IInv, Construct
  PROVE  IInv'
<1> USE DEF Construct, consVars
<1>1. /\ Head(todo) \in Msgs /\ Tail(todo) \in Seq(Msgs) /\ Len(Tail(todo)) = Len(todo) - 1
      /\ Len(todo) \in Nat \ {0} /\ filled \in 0..Size
  BY EmptySeq DEF IInv, TypeOK
<1>2. /\ Dist(tail, head) + filled \in 0..(Size - 1) /\ Dist(tail, head) \in 0..Size
      /\ Dist(prodTail, head) \in 0..Size
  BY NextSlot, Distances DEF IInv
<1>3. TypeOK'
  <2>1. slot' \in [0..(Size - 1) -> Msgs \cup {Raw, Husk}]
    BY <1>1 DEF IInv, TypeOK
  <2>2. filled' \in 0..Size
    BY <1>1, <1>2, SizeAssumption
  <2> QED BY <1>1, <2>1, <2>2 DEF IInv, TypeOK
<1>4. CachesTrail'
  BY <1>1, <1>2, SizeAssumption DEF IInv, CachesTrail
<1>5. Calls'
  BY <1>1 DEF IInv, Calls, Avail, FirstRange, Wraps
<1>6. SlotsMatchIndexes'
  <2> DEFINE e == Dist(tail, head) + filled
  <2>1. SUFFICES ASSUME NEW d \in 0..(Size - 1)
                 PROVE  LET s == slot'[Pos(Add(tail, d))] IN
                        /\ d < destroyed => s = Raw
                        /\ destroyed <= d /\ d < moved => s = Husk
                        /\ moved <= d /\ d < e + 1 => s \in Msgs
                        /\ e + 1 <= d => s = Raw
    BY <1>1, <1>2 DEF SlotsMatchIndexes
  <2>2. LET s == slot[Pos(Add(tail, d))] IN
          /\ d < destroyed => s = Raw
          /\ destroyed <= d /\ d < moved => s = Husk
          /\ moved <= d /\ d < e => s \in Msgs
          /\ e <= d => s = Raw
    BY DEF IInv, SlotsMatchIndexes
  <2>3. tail \in Index /\ d \in 0..Size /\ Pos(Add(tail, d)) \in 0..(Size - 1)
    <3>1. tail \in Index /\ d \in 0..Size
      BY SizeAssumption DEF IInv, TypeOK
    <3> QED BY <3>1, PosFromTail
  <2>4. destroyed \in Nat /\ moved \in Nat /\ destroyed <= moved /\ moved <= Dist(tail, head)
    <3>1. destroyed \in Nat /\ moved \in Nat
      BY SizeAssumption DEF IInv, TypeOK
    <3>2. destroyed <= moved /\ moved <= Avail
      BY DEF IInv, Calls
    <3>3. /\ Avail \in 0..Size /\ Dist(consHead, head) \in 0..Size
          /\ Dist(tail, head) = Avail + Dist(consHead, head)
      BY Distances DEF IInv
    <3> QED BY <3>1, <3>2, <3>3, SizeAssumption
  <2>5. CASE d = e
    <3>1. slot'[Pos(Add(tail, d))] = Head(todo)
      BY <2>3, <2>5, NextSlot DEF IInv, TypeOK
    <3> QED BY <3>1, <2>4, <2>5, <1>1, <1>2
  <2>6. CASE d # e
    <3>1. Pos(Add(tail, d)) # Pos(Add(head, filled))
      BY <2>3, <2>6, <1>2, NextSlot, PosDistinct
    <3>2. slot'[Pos(Add(tail, d))] = slot[Pos(Add(tail, d))]
      BY <2>3, <3>1 DEF IInv, TypeOK
    <3> QED BY <3>2, <2>2, <2>4, <2>6, <1>1, <1>2
  <2> QED BY <2>5, <2>6
<1> QED BY <1>3, <1>4, <1>5, <1>6 DEF IInv

LEMMA ConstructThrowsIInv ==
  ASSUME IInv, ConstructThrows
  PROVE  IInv'
<1> USE DEF ConstructThrows, consVars
<1>1. filled \in Nat /\ Len(todo) \in Nat \ {0} /\ filled = 0
  BY EmptySeq DEF IInv, TypeOK, Calls
<1>2. Dist(prodTail, head) \in 0..Size
  BY Distances DEF IInv
<1>3. TypeOK' /\ CachesTrail'
  BY <1>1, <1>2, SizeAssumption DEF IInv, TypeOK, CachesTrail
<1>4. Calls' /\ SlotsMatchIndexes'
  BY <1>1 DEF IInv, Calls, SlotsMatchIndexes, Avail, FirstRange, Wraps
<1> QED BY <1>3, <1>4 DEF IInv

LEMMA PublishHeadIInv ==
  ASSUME IInv, PublishHead
  PROVE  IInv'
<1> USE DEF PublishHead, consVars
<1>1. /\ filled \in Nat /\ todo = <<>> /\ Len(todo) = 0
      /\ head \in Index /\ tail \in Index /\ consHead \in Index /\ prodTail \in Index
  BY DEF IInv, TypeOK
<1>2. /\ Dist(prodTail, tail) \in 0..Size /\ Avail \in 0..Size
      /\ Dist(consHead, head) \in 0..Size /\ Dist(prodTail, head) \in 0..Size
      /\ Dist(tail, head) \in 0..Size /\ Dist(tail, head) + filled <= Size
      /\ Dist(tail, head) = Avail + Dist(consHead, head)
      /\ Dist(prodTail, head) = Dist(prodTail, tail) + Avail + Dist(consHead, head)
      /\ Dist(prodTail, head) + filled <= Size
      /\ Size < IndexMod
  BY <1>1, Distances DEF IInv, CachesTrail, Avail
<1>3. /\ head' \in Index
      /\ Dist(tail, head') = Dist(tail, head) + filled
      /\ Dist(consHead, head') = Dist(consHead, head) + filled
      /\ Dist(prodTail, head') = Dist(prodTail, head) + filled
  BY <1>1, <1>2, DistFar, SizeAssumption, IndexModBound
<1>4. TypeOK'
  BY <1>1, <1>3, SizeAssumption DEF IInv, TypeOK
<1>5. CachesTrail'
  BY <1>1, <1>2, <1>3, SizeAssumption DEF CachesTrail, Avail
<1>6. Calls'
  BY <1>1 DEF IInv, Calls, Avail, FirstRange, Wraps
<1>7. SlotsMatchIndexes'
  BY <1>1, <1>2, <1>3 DEF IInv, SlotsMatchIndexes
<1> QED BY <1>4, <1>5, <1>6, <1>7 DEF IInv

\* Loading the head again keeps the consumer's copy behind it.
LEMMA RefreshHeadOrder ==
  ASSUME TypeOK, CachesTrail, RefreshHead
  PROVE  /\ consHead' \in Index
         /\ Dist(tail, consHead') + Dist(consHead', head) = Dist(tail, head)
         /\ Dist(tail, consHead') \in 0..Size /\ Dist(consHead', head) \in 0..Size
         /\ life # "alive" /\ Dist(tail, consHead') = 0 => Dist(tail, head) = 0
<1>0. tail \in Index /\ consHead \in Index /\ head \in Index
  BY DEF TypeOK
<1>1. CASE Dist(tail, consHead) # 0
  BY <1>0, <1>1, Distances DEF RefreshHead, Avail
<1>2. CASE Dist(tail, consHead) = 0 /\ life # "alive"
  <2>1. consHead' = head
    BY <1>2 DEF RefreshHead
  <2> QED BY <1>0, <2>1, Distances, DistSelf, SizeAssumption
<1>3. CASE Dist(tail, consHead) = 0 /\ life = "alive"
  <2>1. PICK d \in 0..Dist(consHead, head) : consHead' = Add(consHead, d)
    BY <1>3 DEF RefreshHead, Observed
  <2>2. consHead' \in Index /\ Dist(consHead', head) = Dist(consHead, head) - d
    BY <1>0, <2>1, DistNear
  <2>3. tail = consHead
    BY <1>0, <1>3, DistType, DistSelf
  <2>4. Dist(tail, consHead') = d
    BY <1>0, <2>1, <2>3, DistNear
  <2> QED BY <1>3, <2>1, <2>2, <2>3, <2>4, Distances, SizeAssumption DEF Avail
<1> QED BY <1>1, <1>2, <1>3

\* A call of the consumer up to its first access to an entry.
LEMMA StartCallIInv ==
  ASSUME IInv, NEW kind \in {"one", "many", "pop"}, NEW n \in 0..Size, StartCall(kind, n),
         \/ UNCHANGED life
         \/ life = "draining" /\ life' = "gone" /\ Dist(tail, consHead') = 0
  PROVE  IInv'
<1> USE DEF StartCall, prodVars
<1>1. /\ consHead' \in Index
      /\ Dist(tail, consHead') + Dist(consHead', head) = Dist(tail, head)
      /\ Dist(tail, consHead') \in 0..Size /\ Dist(consHead', head) \in 0..Size
      /\ life # "alive" /\ Dist(tail, consHead') = 0 => Dist(tail, head) = 0
  BY RefreshHeadOrder DEF IInv
<1>2. /\ tail \in Index /\ consHead \in Index /\ moved = 0 /\ destroyed = 0
      /\ Dist(tail, head) = Avail + Dist(consHead, head) /\ Avail \in 0..Size
      /\ Dist(consHead, head) \in 0..Size /\ Dist(prodTail, tail) \in 0..Size
      /\ Dist(prodTail, head) \in 0..Size
  BY Distances DEF IInv, TypeOK, Calls
<1>3. TypeOK'
  BY <1>1 DEF IInv, TypeOK
<1>4. CachesTrail'
  BY <1>1, <1>2, SizeAssumption DEF IInv, CachesTrail, Avail
<1>5. Calls'
  <2>1. Avail' = Dist(tail, consHead')
    BY DEF Avail
  <2>2. CASE Dist(tail, consHead') = 0
    <3>1. consPc' = "idle" /\ consPc = "idle"
      BY <2>2
    <3>2. life' = "gone" => Dist(tail, head) = 0
      BY <1>1, <2>2 DEF IInv, Calls
    <3> QED BY <1>2, <2>1, <2>2, <3>1, <3>2 DEF IInv, Calls
  <2>3. CASE Dist(tail, consHead') # 0
    <3>1. consPc' = "call1" /\ Avail' \in 1..Size
      BY <1>1, <2>1, <2>3, SizeAssumption
    <3>2. life' # "gone"
      BY <1>1, <2>3, Distances, SizeAssumption DEF IInv, Calls
    <3> QED BY <1>2, <3>1, <3>2, SizeAssumption DEF IInv, Calls
  <2> QED BY <2>2, <2>3
<1>6. SlotsMatchIndexes'
  BY DEF IInv, SlotsMatchIndexes
<1> QED BY <1>3, <1>4, <1>5, <1>6 DEF IInv

\* What the function of try_consume is given, and what it may take of it.
LEMMA TakenRange ==
  ASSUME TypeOK, NEW range \in 0..Size, NEW k \in Taken(range)
  PROVE  k \in 0..range /\ (op = "pop" => want - k \in 0..Size)
  BY SizeAssumption DEF TypeOK, Taken, Lesser

\* Taking k entries from position p on.
LEMMA TakeFromSlots ==
  ASSUME TypeOK, NEW p \in 0..Size, NEW k \in 0..Size, p + k <= Size, TakeFrom(p, k),
         \A j \in 1..k : slot[p + j - 1] \in Msgs
  PROVE  /\ out' \in Seq(Msgs)
         /\ slot' \in [0..(Size - 1) -> Msgs \cup {Raw, Husk}]
         /\ \A i \in 0..(Size - 1) : slot'[i] = IF p <= i /\ i < p + k THEN Husk ELSE slot[i]
<1>1. [j \in 1..k |-> slot[p + j - 1]] \in Seq(Msgs)
  BY SeqDef, SizeAssumption
<1>2. out' \in Seq(Msgs)
  BY <1>1, ConcatProperties DEF TypeOK, TakeFrom
<1>3. DOMAIN slot = 0..(Size - 1)
  BY DEF TypeOK
<1>4. \A i \in 0..(Size - 1) : slot'[i] = IF p <= i /\ i < p + k THEN Husk ELSE slot[i]
  BY <1>3, SizeAssumption DEF TakeFrom
<1>5. slot' \in [0..(Size - 1) -> Msgs \cup {Raw, Husk}]
  BY <1>3 DEF TypeOK, TakeFrom
<1> QED BY <1>2, <1>4, <1>5

\* The entries of the ring by their place after the tail.
LEMMA Entry ==
  ASSUME SlotsMatchIndexes, NEW d \in 0..(Size - 1)
  PROVE  LET s == slot[Pos(Add(tail, d))] IN
           /\ d < destroyed => s = Raw
           /\ destroyed <= d /\ d < moved => s = Husk
           /\ moved <= d /\ d < Dist(tail, head) + filled => s \in Msgs
           /\ Dist(tail, head) + filled <= d => s = Raw
  BY DEF SlotsMatchIndexes

\* The first range holds messages when the function is called on it.
LEMMA FirstRangeLive ==
  ASSUME IInv, consPc = "call1"
  PROVE  \A j \in 1..FirstRange : slot[Pos(tail) + j - 1] \in Msgs
<1>1. /\ tail \in Index /\ Avail \in 1..Size /\ moved = 0 /\ filled \in Nat
      /\ Dist(tail, head) \in Nat /\ Avail <= Dist(tail, head)
  BY Distances, SizeAssumption DEF IInv, TypeOK, Calls
<1>2. /\ FirstRange \in 1..Avail /\ Pos(tail) + FirstRange <= Size
  BY <1>1, Ranges
<1> TAKE j \in 1..FirstRange
<1>3. j - 1 \in 0..(Size - 1) /\ j - 1 < Avail
  BY <1>1, <1>2, SizeAssumption
<1>4. Pos(Add(tail, j - 1)) = Pos(tail) + j - 1
  BY <1>1, <1>2, <1>3, PosFromTail, SizeAssumption
<1>5. slot[Pos(Add(tail, j - 1))] \in Msgs
  BY <1>1, <1>3, Entry DEF IInv
<1> QED BY <1>4, <1>5

\* So does the second.
LEMMA SecondRangeLive ==
  ASSUME IInv, consPc = "call2"
  PROVE  \A j \in 1..SecondRange : slot[j - 1] \in Msgs
<1>1. /\ tail \in Index /\ Avail \in 1..Size /\ filled \in Nat
      /\ Dist(tail, head) \in Nat /\ Avail <= Dist(tail, head)
      /\ moved = FirstRange /\ Wraps /\ op # "one"
  BY Distances, SizeAssumption DEF IInv, TypeOK, Calls
<1>2. /\ FirstRange \in 1..Avail /\ Pos(tail) + FirstRange = Size
      /\ SecondRange = Avail - FirstRange
  BY <1>1, Ranges
<1> TAKE j \in 1..SecondRange
<1> DEFINE d == FirstRange + (j - 1)
<1>3. d \in 0..(Size - 1) /\ d < Avail /\ moved <= d
  BY <1>1, <1>2, SizeAssumption
<1>4. Pos(Add(tail, d)) = j - 1
  BY <1>1, <1>2, <1>3, PosFromTail, SizeAssumption
<1>5. slot[Pos(Add(tail, d))] \in Msgs
  BY <1>1, <1>3, Entry DEF IInv
<1> QED BY <1>4, <1>5

LEMMA CallFirstIInv ==
  ASSUME IInv, CallFirst
  PROVE  IInv'
<1> USE DEF CallFirst, prodVars
<1>1. PICK k \in Taken(FirstRange) :
        /\ TakeFrom(Pos(tail), k)
        /\ want' = IF op = "pop" THEN want - k ELSE want
        /\ consPc' = IF op = "one" /\ k = 0 THEN "idle" ELSE "destroy1"
  OBVIOUS
<1>2. /\ tail \in Index /\ Avail \in 1..Size /\ moved = 0 /\ destroyed = 0 /\ filled \in Nat
      /\ Dist(tail, head) \in 0..Size /\ Avail <= Dist(tail, head)
  BY Distances, SizeAssumption DEF IInv, TypeOK, Calls
<1>3. /\ FirstRange \in 1..Avail /\ Pos(tail) + FirstRange <= Size /\ Pos(tail) \in 0..(Size - 1)
  BY <1>2, Ranges, PosFromTail, SizeAssumption
<1>4. k \in 0..FirstRange /\ (op = "pop" => want - k \in 0..Size)
  BY <1>2, <1>3, TakenRange, SizeAssumption DEF IInv
<1>5. /\ out' \in Seq(Msgs)
      /\ slot' \in [0..(Size - 1) -> Msgs \cup {Raw, Husk}]
      /\ \A i \in 0..(Size - 1) :
           slot'[i] = IF Pos(tail) <= i /\ i < Pos(tail) + k THEN Husk ELSE slot[i]
  <2>1. \A j \in 1..k : slot[Pos(tail) + j - 1] \in Msgs
    BY <1>2, <1>3, <1>4, FirstRangeLive, SizeAssumption
  <2>2. Pos(tail) \in 0..Size /\ k \in 0..Size /\ Pos(tail) + k <= Size
    BY <1>2, <1>3, <1>4, SizeAssumption
  <2> QED BY <1>1, <2>1, <2>2, TakeFromSlots DEF IInv
<1>6. moved' = k
  BY <1>1, <1>2, <1>4 DEF TakeFrom
<1>7. TypeOK'
  <2>1. moved' \in 0..Size /\ want' \in 0..Size
    BY <1>1, <1>2, <1>3, <1>4, <1>6, SizeAssumption DEF IInv, TypeOK
  <2> QED BY <1>1, <1>5, <2>1 DEF IInv, TypeOK
<1>8. CachesTrail'
  BY DEF IInv, CachesTrail
<1>9. Calls'
  BY <1>1, <1>2, <1>3, <1>4, <1>6, SizeAssumption DEF IInv, Calls, Avail, FirstRange, Wraps
<1>10. SlotsMatchIndexes'
  <2>1. SUFFICES ASSUME NEW d \in 0..(Size - 1)
                 PROVE  LET s == slot'[Pos(Add(tail, d))] IN
                        /\ d < k => s = Husk
                        /\ k <= d /\ d < Dist(tail, head) + filled => s \in Msgs
                        /\ Dist(tail, head) + filled <= d => s = Raw
    BY <1>2, <1>6, SizeAssumption DEF SlotsMatchIndexes
  <2>2. /\ Pos(Add(tail, d)) \in 0..(Size - 1)
        /\ Pos(tail) <= Pos(Add(tail, d)) /\ Pos(Add(tail, d)) < Pos(tail) + k <=> d < k
    BY <1>2, <1>3, <1>4, PosFromTail, SizeAssumption
  <2>3. slot'[Pos(Add(tail, d))] = IF d < k THEN Husk ELSE slot[Pos(Add(tail, d))]
    BY <1>5, <2>2
  <2>4. k <= Dist(tail, head) + filled
    BY <1>2, <1>3, <1>4, SizeAssumption
  <2> QED BY <1>2, <1>4, <2>3, <2>4, Entry, SizeAssumption DEF IInv
<1> QED BY <1>7, <1>8, <1>9, <1>10 DEF IInv

LEMMA CallSecondIInv ==
  ASSUME IInv, CallSecond
  PROVE  IInv'
<1> USE DEF CallSecond, prodVars
<1>1. PICK k \in Taken(SecondRange) :
        /\ TakeFrom(0, k)
        /\ want' = IF op = "pop" THEN want - k ELSE want
  OBVIOUS
<1>2. /\ tail \in Index /\ Avail \in 1..Size /\ filled \in Nat
      /\ moved = FirstRange /\ destroyed = FirstRange /\ Wraps /\ op # "one"
      /\ Dist(tail, head) \in 0..Size /\ Avail <= Dist(tail, head)
  BY Distances, SizeAssumption DEF IInv, TypeOK, Calls
<1>3. /\ FirstRange \in 1..Avail /\ Pos(tail) + FirstRange = Size /\ Pos(tail) \in 0..(Size - 1)
      /\ SecondRange = Avail - FirstRange
  BY <1>2, Ranges, PosFromTail, SizeAssumption
<1>4. k \in 0..SecondRange /\ (op = "pop" => want - k \in 0..Size)
  BY <1>2, <1>3, TakenRange, SizeAssumption DEF IInv
<1>5. /\ out' \in Seq(Msgs)
      /\ slot' \in [0..(Size - 1) -> Msgs \cup {Raw, Husk}]
      /\ \A i \in 0..(Size - 1) : slot'[i] = IF i < k THEN Husk ELSE slot[i]
  <2>1. \A j \in 1..k : slot[0 + j - 1] \in Msgs
    BY <1>2, <1>3, <1>4, SecondRangeLive, SizeAssumption
  <2>2. 0 \in 0..Size /\ k \in 0..Size /\ 0 + k <= Size
    BY <1>2, <1>3, <1>4, SizeAssumption
  <2> QED BY <1>1, <2>1, <2>2, TakeFromSlots, SizeAssumption DEF IInv
<1>6. moved' = FirstRange + k
  BY <1>1, <1>2, <1>4 DEF TakeFrom
<1>7. TypeOK'
  <2>1. moved' \in 0..Size /\ want' \in 0..Size
    BY <1>1, <1>2, <1>3, <1>4, <1>6, SizeAssumption DEF IInv, TypeOK
  <2> QED BY <1>5, <2>1 DEF IInv, TypeOK
<1>8. CachesTrail'
  BY DEF IInv, CachesTrail
<1>9. Calls'
  <2>1. Avail' = Avail /\ FirstRange' = FirstRange /\ Wraps'
    BY <1>2 DEF Avail, FirstRange, Wraps
  <2>2. destroyed' = FirstRange /\ destroyed' <= moved' /\ moved' <= Avail /\ consPc' = "destroy2"
    BY <1>2, <1>3, <1>4, <1>6, SizeAssumption
  <2> QED BY <1>2, <2>1, <2>2 DEF IInv, Calls
<1>10. SlotsMatchIndexes'
  <2>1. SUFFICES ASSUME NEW d \in 0..(Size - 1)
                 PROVE  LET s == slot'[Pos(Add(tail, d))] IN
                        /\ d < FirstRange => s = Raw
                        /\ FirstRange <= d /\ d < FirstRange + k => s = Husk
                        /\ FirstRange + k <= d /\ d < Dist(tail, head) + filled => s \in Msgs
                        /\ Dist(tail, head) + filled <= d => s = Raw
    BY <1>2, <1>6, SizeAssumption DEF SlotsMatchIndexes
  <2>2. /\ Pos(Add(tail, d)) \in 0..(Size - 1)
        /\ Pos(Add(tail, d)) < k <=> FirstRange <= d /\ d < FirstRange + k
    BY <1>2, <1>3, <1>4, PosFromTail, SizeAssumption
  <2>3. slot'[Pos(Add(tail, d))] = IF FirstRange <= d /\ d < FirstRange + k
                                     THEN Husk ELSE slot[Pos(Add(tail, d))]
    BY <1>5, <2>2
  <2>4. FirstRange + k <= Dist(tail, head) + filled
    BY <1>2, <1>3, <1>4, SizeAssumption
  <2> QED BY <1>2, <1>3, <1>4, <2>3, <2>4, Entry, SizeAssumption DEF IInv
<1> QED BY <1>7, <1>8, <1>9, <1>10 DEF IInv

\* Ending the lifetime of the entries at positions from..to-1.
LEMMA DestroySlots ==
  ASSUME TypeOK, NEW from \in 0..Size, NEW to \in 0..Size, DestroyRange(from, to)
  PROVE  /\ slot' \in [0..(Size - 1) -> Msgs \cup {Raw, Husk}]
         /\ \A i \in 0..(Size - 1) : slot'[i] = IF from <= i /\ i < to THEN Raw ELSE slot[i]
  BY SizeAssumption DEF TypeOK, DestroyRange

LEMMA DestroyFirstIInv ==
  ASSUME IInv, DestroyFirst
  PROVE  IInv'
<1> USE DEF DestroyFirst, prodVars
<1>2. /\ tail \in Index /\ Avail \in 1..Size /\ filled \in Nat /\ moved \in 0..Size
      /\ destroyed = 0 /\ moved <= FirstRange /\ moved <= Avail
      /\ Dist(tail, head) \in 0..Size /\ Avail <= Dist(tail, head)
  BY Distances, SizeAssumption DEF IInv, TypeOK, Calls
<1>3. /\ FirstRange \in 1..Avail /\ Pos(tail) + FirstRange <= Size /\ Pos(tail) \in 0..(Size - 1)
  BY <1>2, Ranges, PosFromTail, SizeAssumption
<1>5. /\ slot' \in [0..(Size - 1) -> Msgs \cup {Raw, Husk}]
      /\ \A i \in 0..(Size - 1) :
           slot'[i] = IF Pos(tail) <= i /\ i < Pos(tail) + moved THEN Raw ELSE slot[i]
  <2>1. Pos(tail) \in 0..Size /\ Pos(tail) + moved \in 0..Size
    BY <1>2, <1>3, SizeAssumption
  <2> QED BY <2>1, DestroySlots DEF IInv
<1>7. TypeOK'
  BY <1>2, <1>5 DEF IInv, TypeOK
<1>8. CachesTrail'
  BY DEF IInv, CachesTrail
<1>9. Calls'
  <2>1. Avail' = Avail /\ FirstRange' = FirstRange /\ (Wraps' <=> Wraps)
    BY <1>2 DEF Avail, FirstRange, Wraps
  <2>2. destroyed' = moved' /\ moved' = moved
    BY <1>2
  <2>3. CASE op # "one" /\ Wraps /\ moved = FirstRange
    BY <1>2, <2>1, <2>2, <2>3 DEF IInv, Calls
  <2>4. CASE ~(op # "one" /\ Wraps /\ moved = FirstRange)
    BY <1>2, <2>1, <2>2, <2>4 DEF IInv, Calls
  <2> QED BY <2>3, <2>4
<1>10. SlotsMatchIndexes'
  <2>1. SUFFICES ASSUME NEW d \in 0..(Size - 1)
                 PROVE  LET s == slot'[Pos(Add(tail, d))] IN
                        /\ d < moved => s = Raw
                        /\ moved <= d /\ d < Dist(tail, head) + filled => s \in Msgs
                        /\ Dist(tail, head) + filled <= d => s = Raw
    BY <1>2, SizeAssumption DEF SlotsMatchIndexes
  <2>2. /\ Pos(Add(tail, d)) \in 0..(Size - 1)
        /\ Pos(tail) <= Pos(Add(tail, d)) /\ Pos(Add(tail, d)) < Pos(tail) + moved <=> d < moved
    BY <1>2, <1>3, PosFromTail, SizeAssumption
  <2>3. slot'[Pos(Add(tail, d))] = IF d < moved THEN Raw ELSE slot[Pos(Add(tail, d))]
    BY <1>5, <2>2
  <2> QED BY <1>2, <2>3, Entry, SizeAssumption DEF IInv
<1> QED BY <1>7, <1>8, <1>9, <1>10 DEF IInv

LEMMA DestroySecondIInv ==
  ASSUME IInv, DestroySecond
  PROVE  IInv'
<1> USE DEF DestroySecond, prodVars
<1> DEFINE k == moved - destroyed
<1>2. /\ tail \in Index /\ Avail \in 1..Size /\ filled \in Nat /\ moved \in 0..Size
      /\ destroyed = FirstRange /\ Wraps /\ op # "one" /\ destroyed <= moved /\ moved <= Avail
      /\ Dist(tail, head) \in 0..Size /\ Avail <= Dist(tail, head)
  BY Distances, SizeAssumption DEF IInv, TypeOK, Calls
<1>3. /\ FirstRange \in 1..Avail /\ Pos(tail) + FirstRange = Size /\ Pos(tail) \in 0..(Size - 1)
      /\ k \in 0..Size /\ moved = FirstRange + k
  <2>1. FirstRange \in 1..Avail /\ Pos(tail) + FirstRange = Size
    BY <1>2, Ranges
  <2>2. Pos(tail) \in 0..(Size - 1)
    BY <1>2, PosFromTail, SizeAssumption
  <2> QED BY <1>2, <2>1, <2>2, SizeAssumption
<1>5. /\ slot' \in [0..(Size - 1) -> Msgs \cup {Raw, Husk}]
      /\ \A i \in 0..(Size - 1) : slot'[i] = IF 0 <= i /\ i < k THEN Raw ELSE slot[i]
  BY <1>3, 0 \in 0..Size, DestroySlots, SizeAssumption DEF IInv
<1>7. TypeOK'
  BY <1>2, <1>5 DEF IInv, TypeOK
<1>8. CachesTrail'
  BY DEF IInv, CachesTrail
<1>9. Calls'
  <2>1. Avail' = Avail
    BY DEF Avail
  <2>2. destroyed' = moved' /\ moved' = moved
    BY <1>2
  <2> QED BY <1>2, <2>1, <2>2 DEF IInv, Calls
<1>10. SlotsMatchIndexes'
  <2>1. SUFFICES ASSUME NEW d \in 0..(Size - 1)
                 PROVE  LET s == slot'[Pos(Add(tail, d))] IN
                        /\ d < moved => s = Raw
                        /\ moved <= d /\ d < Dist(tail, head) + filled => s \in Msgs
                        /\ Dist(tail, head) + filled <= d => s = Raw
    BY <1>2, SizeAssumption DEF SlotsMatchIndexes
  <2>2. /\ Pos(Add(tail, d)) \in 0..(Size - 1)
        /\ Pos(Add(tail, d)) < k <=> FirstRange <= d /\ d < FirstRange + k
    <3> HIDE DEF k
    <3>1. d \in 0..Size /\ k <= Pos(tail) /\ FirstRange \in 0..Size
      BY <1>2, <1>3, SizeAssumption
    <3>2. /\ Pos(Add(tail, d)) \in 0..(Size - 1)
          /\ Pos(Add(tail, d)) = IF Pos(tail) + d < Size THEN Pos(tail) + d
                                                         ELSE Pos(tail) + d - Size
      BY <1>2, <3>1, PosFromTail
    <3> QED BY <1>3, <3>1, <3>2, SizeAssumption
  <2>3. slot'[Pos(Add(tail, d))] = IF FirstRange <= d /\ d < FirstRange + k
                                     THEN Raw ELSE slot[Pos(Add(tail, d))]
    BY <1>5, <2>2
  <2> HIDE DEF k
  <2> QED BY <1>2, <1>3, <2>3, Entry, SizeAssumption DEF IInv
<1> QED BY <1>7, <1>8, <1>9, <1>10 DEF IInv

LEMMA PublishTailIInv ==
  ASSUME IInv, PublishTail
  PROVE  IInv'
<1> USE DEF PublishTail, prodVars
<1>1. /\ head \in Index /\ tail \in Index /\ consHead \in Index /\ prodTail \in Index
      /\ filled \in Nat /\ moved \in 0..Size /\ destroyed = moved /\ moved <= Avail
  BY DEF IInv, TypeOK, Calls
<1>2. /\ Dist(prodTail, tail) \in 0..Size /\ Avail \in 0..Size
      /\ Dist(consHead, head) \in 0..Size /\ Dist(prodTail, head) \in 0..Size
      /\ Dist(tail, head) \in 0..Size /\ Dist(tail, head) + filled <= Size
      /\ Dist(tail, head) = Avail + Dist(consHead, head)
      /\ Dist(prodTail, head) = Dist(prodTail, tail) + Avail + Dist(consHead, head)
      /\ Size < IndexMod
  <2>1. Len(todo) \in Nat
    BY DEF IInv, TypeOK
  <2> QED BY <1>1, <2>1, Distances, SizeAssumption DEF IInv, CachesTrail, Avail
<1>3. /\ tail' \in Index
      /\ Dist(tail', head) = Dist(tail, head) - moved
      /\ Avail' = Avail - moved
      /\ Dist(prodTail, tail') = Dist(prodTail, tail) + moved
  <2>1. moved \in 0..Dist(tail, head) /\ moved \in 0..Dist(tail, consHead)
    BY <1>1, <1>2, SizeAssumption DEF Avail
  <2>2. Dist(prodTail, tail) + moved < IndexMod
    BY <1>1, <1>2, SizeAssumption, IndexModBound
  <2> QED BY <1>1, <1>2, <2>1, <2>2, DistNear, DistFar DEF Avail
<1>4. TypeOK'
  BY <1>3, SizeAssumption DEF IInv, TypeOK
<1>5. CachesTrail'
  BY <1>1, <1>2, <1>3, SizeAssumption DEF IInv, CachesTrail, Avail
<1>6. Calls'
  <2>1. Avail' \in 0..Size
    BY <1>1, <1>2, <1>3, SizeAssumption
  <2> QED BY <1>1, <2>1, SizeAssumption DEF IInv, Calls
<1>7. SlotsMatchIndexes'
  <2>1. SUFFICES ASSUME NEW d \in 0..(Size - 1)
                 PROVE  LET s == slot[Pos(Add(tail', d))] IN
                        /\ d < Dist(tail, head) - moved + filled => s \in Msgs
                        /\ Dist(tail, head) - moved + filled <= d => s = Raw
    BY <1>3, SizeAssumption DEF SlotsMatchIndexes
  <2> DEFINE e == IF d + moved < Size THEN d + moved ELSE d + moved - Size
  <2>2. e \in 0..(Size - 1)
    BY <1>1, SizeAssumption
  <2>3. Pos(Add(tail', d)) = Pos(Add(tail, e))
    <3>1. d \in 0..Size /\ e \in 0..Size
      BY <2>2, SizeAssumption
    <3>2. /\ Pos(tail) \in 0..(Size - 1)
          /\ Pos(tail') = IF Pos(tail) + moved < Size THEN Pos(tail) + moved
                                                      ELSE Pos(tail) + moved - Size
      BY <1>1, PosAdd
    <3>3. Pos(Add(tail', d)) = IF Pos(tail') + d < Size THEN Pos(tail') + d
                                                         ELSE Pos(tail') + d - Size
      BY <1>3, <3>1, PosAdd
    <3>4. Pos(Add(tail, e)) = IF Pos(tail) + e < Size THEN Pos(tail) + e
                                                       ELSE Pos(tail) + e - Size
      BY <1>1, <3>1, PosAdd
    <3> QED BY <1>1, <3>2, <3>3, <3>4, SizeAssumption
  <2>4. /\ e < moved => slot[Pos(Add(tail, e))] = Raw
        /\ moved <= e /\ e < Dist(tail, head) + filled => slot[Pos(Add(tail, e))] \in Msgs
        /\ Dist(tail, head) + filled <= e => slot[Pos(Add(tail, e))] = Raw
    BY <1>1, <2>2, Entry DEF IInv
  <2>5. CASE d + moved < Size
    BY <1>1, <1>2, <2>3, <2>4, <2>5, SizeAssumption
  <2>6. CASE d + moved >= Size
    BY <1>1, <1>2, <2>3, <2>4, <2>6, SizeAssumption
  <2> QED BY <1>1, <2>5, <2>6, SizeAssumption
<1> QED BY <1>4, <1>5, <1>6, <1>7 DEF IInv

LEMMA StartDestructorIInv ==
  ASSUME IInv, StartDestructor
  PROVE  IInv'
BY DEF StartDestructor, prodVars, consVars, IInv, TypeOK, CachesTrail, Calls,
       SlotsMatchIndexes, Avail, FirstRange, Wraps

LEMMA DrainIInv ==
  ASSUME IInv, Drain
  PROVE  IInv'
<1>1. Lesser(16, Size) \in 0..Size
  BY SizeAssumption DEF Lesser
<1> QED BY <1>1, StartCallIInv DEF Drain

LEMMA StutterIInv ==
  ASSUME IInv, UNCHANGED vars
  PROVE  IInv'
BY DEF vars, prodVars, consVars, IInv, TypeOK, CachesTrail, Calls,
       SlotsMatchIndexes, Avail, FirstRange, Wraps

\* Every step of the ring keeps the inductive invariant.
LEMMA NextIInv ==
  ASSUME IInv, [Next]_vars
  PROVE  IInv'
<1>1. CASE \E m \in Msgs : TryPushOne(m)
  BY <1>1, TryPushOneIInv
<1>2. CASE \E ms \in Bulks : TryPushMany(ms)
  BY <1>2, TryPushManyIInv
<1>3. CASE Construct
  BY <1>3, ConstructIInv
<1>4. CASE ConstructThrows
  BY <1>4, ConstructThrowsIInv
<1>5. CASE PublishHead
  BY <1>5, PublishHeadIInv
<1>6. CASE TryConsume
  BY <1>6, StartCallIInv, SizeAssumption, 0 \in 0..Size DEF TryConsume
<1>7. CASE \E sz \in 0..Size : TryPop(sz)
  BY <1>7, StartCallIInv DEF TryPop
<1>8. CASE CallFirst
  BY <1>8, CallFirstIInv
<1>9. CASE DestroyFirst
  BY <1>9, DestroyFirstIInv
<1>10. CASE CallSecond
  BY <1>10, CallSecondIInv
<1>11. CASE DestroySecond
  BY <1>11, DestroySecondIInv
<1>12. CASE PublishTail
  BY <1>12, PublishTailIInv
<1>13. CASE StartDestructor
  BY <1>13, StartDestructorIInv
<1>14. CASE Drain
  BY <1>14, DrainIInv
<1>15. CASE UNCHANGED vars
  BY <1>15, StutterIInv
<1> QED BY <1>1, <1>2, <1>3, <1>4, <1>5, <1>6, <1>7, <1>8, <1>9, <1>10, <1>11, <1>12,
           <1>13, <1>14, <1>15 DEF Next, Produce, Consume

-----------------------------------------------------------------------------
(***************************************************************************)
(* Theorems                                                                *)
(***************************************************************************)

\* The inductive invariant holds in every state of the ring.
THEOREM Invariance == Spec => []IInv
<1>1. Init => IInv
  BY InitIInv
<1>2. IInv /\ [Next]_vars => IInv'
  BY NextIInv
<1> QED BY <1>1, <1>2, PTL DEF Spec

\* Type correctness of put::spsc_ring's variables, for rings of any size.
THEOREM RingTypeCorrect == Spec => []TypeOK
<1>1. IInv => TypeOK
  BY DEF IInv
<1> QED BY <1>1, Invariance, PTL

\* Whatever stale index an acquire load returns, prod_tail_, the tail, cons_head_
\* and the head stay in this order and within one ring of each other.
THEOREM RingCachesTrail == Spec => []CachesTrail
<1>1. IInv => CachesTrail
  BY DEF IInv
<1> QED BY <1>1, Invariance, PTL

\* Which objects live in buff_ is what the indexes say: no message is destroyed
\* twice, forgotten or overwritten.
THEOREM RingSlotsMatchIndexes == Spec => []SlotsMatchIndexes
<1>1. IInv => SlotsMatchIndexes
  BY DEF IInv
<1> QED BY <1>1, Invariance, PTL

\* The two threads never access the same slot: try_push constructs only where
\* no object lives and try_consume hands out only complete messages.
THEOREM RingNoSlotRace == Spec => []NoSlotRace
<1>1. IInv => NoSlotRace
  BY NextSlot, FirstRangeLive, SecondRangeLive DEF NoSlotRace
<1> QED BY <1>1, Invariance, PTL

\* The loop of pops in ~spsc_ring leaves no object behind.
THEOREM RingNothingLeaks == Spec => []NothingLeaks
<1>1. IInv => NothingLeaks
  <2>1. SUFFICES ASSUME IInv, life = "gone", NEW i \in 0..(Size - 1) PROVE slot[i] = Raw
    BY DEF NothingLeaks
  <2>2. /\ tail \in Index /\ filled = 0 /\ moved = 0 /\ destroyed = 0 /\ Dist(tail, head) = 0
    BY <2>1 DEF IInv, TypeOK, Calls
  <2> DEFINE d == IF i >= Pos(tail) THEN i - Pos(tail) ELSE i - Pos(tail) + Size
  <2>3. Pos(tail) \in 0..(Size - 1)
    BY <2>2, PosFromTail, SizeAssumption
  <2>4. d \in 0..(Size - 1)
    BY <2>3, SizeAssumption
  <2>5. Pos(Add(tail, d)) = i
    <3>1. d \in 0..Size
      BY <2>4, SizeAssumption
    <3>2. Pos(Add(tail, d)) = IF Pos(tail) + d < Size THEN Pos(tail) + d ELSE Pos(tail) + d - Size
      BY <2>2, <3>1, PosFromTail
    <3> QED BY <2>3, <3>2, SizeAssumption
  <2>6. slot[Pos(Add(tail, d))] = Raw
    BY <2>1, <2>2, <2>4, Entry DEF IInv
  <2> QED BY <2>5, <2>6
<1> QED BY <1>1, Invariance, PTL

-----------------------------------------------------------------------------
(***************************************************************************)
(* The ring implements a bounded FIFO                                      *)
(***************************************************************************)

ContentLen == Dist(tail, head) - moved

\* The content is a sequence of messages.
ContentFacts ==
  /\ Content \in Seq(Msgs) /\ Len(Content) = ContentLen /\ ContentLen \in 0..Size
  /\ \A i \in 1..ContentLen : Content[i] = slot[Pos(Add(tail, moved + i - 1))]

LEMMA ContentIsSeq == IInv => ContentFacts
<1> SUFFICES ASSUME IInv PROVE ContentFacts
  OBVIOUS
<1>1. /\ moved \in Nat /\ moved <= Avail /\ Dist(tail, head) \in 0..Size /\ filled \in Nat
      /\ Avail <= Dist(tail, head) /\ Avail \in Nat
      /\ destroyed \in Nat /\ destroyed <= moved
  BY Distances, SizeAssumption DEF IInv, TypeOK, Calls
<1>2. ContentLen \in 0..Size
  BY <1>1, SizeAssumption DEF ContentLen
<1>3. ASSUME NEW i \in 1..ContentLen
      PROVE  slot[Pos(Add(tail, moved + i - 1))] \in Msgs
  <2>1. moved + i - 1 \in 0..(Size - 1) /\ moved <= moved + i - 1
        /\ moved + i - 1 < Dist(tail, head) + filled
    BY <1>1, <1>2, SizeAssumption DEF ContentLen
  <2> QED BY <2>1, Entry DEF IInv
<1>4. Content = [i \in 1..ContentLen |-> slot[Pos(Add(tail, moved + i - 1))]]
  BY DEF Content, ContentLen
<1>5. Content \in [1..ContentLen -> Msgs]
  BY <1>3, <1>4
<1>6. Content \in Seq(Msgs) /\ Len(Content) = ContentLen
  BY <1>2, <1>5, SeqDef, LenProperties
<1> QED BY <1>2, <1>4, <1>6 DEF ContentFacts

\* The same entries make up the same content.
LEMMA ContentUnchanged ==
  ASSUME ContentFacts, ContentFacts', ContentLen' = ContentLen,
         \A i \in 1..ContentLen : slot'[Pos(Add(tail', moved' + i - 1))]
                                 = slot[Pos(Add(tail, moved + i - 1))]
  PROVE  Content' = Content
BY SeqEqual DEF ContentFacts

\* An access to an entry outside the content leaves the content alone.
LEMMA ContentKept ==
  ASSUME moved \in Nat, ContentFacts, ContentFacts', UNCHANGED <<tail, head, moved>>,
         \A d \in moved..(moved + ContentLen - 1) : slot'[Pos(Add(tail, d))] = slot[Pos(Add(tail, d))]
  PROVE  Content' = Content
<1>1. ContentLen' = ContentLen /\ ContentLen \in Nat
  BY SizeAssumption DEF ContentLen, ContentFacts
<1>2. \A i \in 1..ContentLen : moved + i - 1 \in moved..(moved + ContentLen - 1)
  BY <1>1
<1> QED BY <1>1, <1>2, ContentUnchanged

\* Taking the next k messages is a Take of the queue, or nothing at all.
LEMMA TakeRefines ==
  ASSUME IInv, ContentFacts, ContentFacts', NEW k \in 0..ContentLen,
         UNCHANGED <<tail, head>>, moved' = moved + k,
         out' = out \o [j \in 1..k |-> slot[Pos(Add(tail, moved + j - 1))]],
         \A d \in (moved + k)..(moved + ContentLen - 1) :
            slot'[Pos(Add(tail, d))] = slot[Pos(Add(tail, d))]
  PROVE  [Fifo!Next]_(Fifo!vars)
<1>1. moved \in Nat /\ k \in Nat /\ ContentLen \in Nat /\ ContentLen' = ContentLen - k
      /\ out \in Seq(Msgs) /\ Dist(tail, head) \in Nat
  <2>1. Dist(tail, head) \in Nat
    BY Distances, SizeAssumption DEF IInv
  <2>2. moved \in Nat /\ out \in Seq(Msgs)
    BY SizeAssumption DEF IInv, TypeOK
  <2>3. ContentLen \in Nat /\ k \in Nat
    BY SizeAssumption DEF ContentFacts
  <2>4. ContentLen' = ContentLen - k
    <3>1. ContentLen' = Dist(tail, head) - (moved + k) /\ ContentLen = Dist(tail, head) - moved
      BY DEF ContentLen
    <3> QED BY <2>1, <2>2, <2>3, <3>1
  <2> QED BY <2>1, <2>2, <2>3, <2>4
<1>2. CASE k = 0
  <2>1. Content' = Content
    BY <1>1, <1>2, ContentKept DEF ContentFacts
  <2>2. [j \in 1..k |-> slot[Pos(Add(tail, moved + j - 1))]] = <<>>
    BY <1>2
  <2>3. out' = out
    BY <1>1, <2>2, ConcatEmptySeq
  <2> QED BY <2>1, <2>3 DEF Fifo!vars
<1>3. CASE k # 0
  <2> DEFINE taken == [j \in 1..k |-> slot[Pos(Add(tail, moved + j - 1))]]
  <2>1. k \in 1..Len(Content)
    BY <1>1, <1>3 DEF ContentFacts
  <2>2. taken = SubSeq(Content, 1, k)
    <3>1. \A j \in 1..k : taken[j] \in Msgs /\ taken[j] = Content[j]
      <4> TAKE j \in 1..k
      <4>1. j \in 1..ContentLen /\ j \in 1..Len(Content) /\ Content \in Seq(Msgs)
        BY <1>1, <2>1 DEF ContentFacts
      <4>2. Content[j] \in Msgs
        BY <4>1, ElementOfSeq
      <4> QED BY <4>1, <4>2 DEF ContentFacts
    <3>2. taken \in Seq(Msgs) /\ Len(taken) = k
      <4>1. taken \in [1..k -> Msgs]
        BY <3>1
      <4> HIDE DEF taken
      <4>2. taken \in Seq(Msgs)
        BY <1>1, <4>1, SeqDef
      <4>3. DOMAIN taken = 1..k /\ DOMAIN taken = 1..Len(taken) /\ Len(taken) \in Nat
        BY <4>1, <4>2, LenProperties
      <4>4. Len(taken) = k
        BY <1>1, <4>3
      <4> QED BY <4>2, <4>4
    <3>3. SubSeq(Content, 1, k) \in Seq(Msgs) /\ Len(SubSeq(Content, 1, k)) = k
          /\ \A j \in 1..k : SubSeq(Content, 1, k)[j] = Content[j]
      BY <1>1, <2>1 DEF ContentFacts
    <3> HIDE DEF taken
    <3> QED BY <3>1, <3>2, <3>3, SeqEqual
  <2>3. Content' = SubSeq(Content, k + 1, Len(Content))
    <3>1. SubSeq(Content, k + 1, Len(Content)) \in Seq(Msgs)
          /\ Len(SubSeq(Content, k + 1, Len(Content))) = ContentLen - k
          /\ \A i \in 1..(ContentLen - k) :
                SubSeq(Content, k + 1, Len(Content))[i] = Content[k + i]
      BY <1>1, <2>1 DEF ContentFacts
    <3>2. \A i \in 1..(ContentLen - k) : Content'[i] = Content[k + i]
      <4> TAKE i \in 1..(ContentLen - k)
      <4>0. moved \in Nat /\ ContentLen \in Nat /\ k \in 0..ContentLen
        BY <1>1
      <4>1. k + i \in 1..ContentLen /\ moved + (k + i) - 1 = (moved + k) + i - 1
            /\ (moved + k) + i - 1 \in (moved + k)..(moved + ContentLen - 1)
        BY <4>0
      <4>2. Content'[i] = slot'[Pos(Add(tail, (moved + k) + i - 1))]
        BY <1>1 DEF ContentFacts
      <4>3. Content[k + i] = slot[Pos(Add(tail, (moved + k) + i - 1))]
        BY <4>1 DEF ContentFacts
      <4> QED BY <4>1, <4>2, <4>3
    <3>3. Content' \in Seq(Msgs) /\ Len(Content') = ContentLen - k
      BY <1>1 DEF ContentFacts
    <3> QED BY <3>1, <3>2, <3>3, SeqEqual
  <2>4. Fifo!Take
    BY <2>1, <2>2, <2>3 DEF Fifo!Take
  <2> QED BY <2>4 DEF Fifo!Next
<1> QED BY <1>2, <1>3

\* A step that moves no message is a step of the FIFO's consumer at most.
LEMMA QuietRefines ==
  ASSUME Content' = Content, out' = out \/ out' = <<>>
  PROVE  [Fifo!Next]_(Fifo!vars)
BY DEF Fifo!Next, Fifo!StartTake, Fifo!vars

\* The producer's step that matters: the new head.
LEMMA PublishHeadRefines ==
  ASSUME IInv, IInv', ContentFacts, ContentFacts', PublishHead
  PROVE  [Fifo!Next]_(Fifo!vars)
<1> USE DEF PublishHead, consVars
<1>1. /\ filled \in Nat /\ Len(todo) = 0 /\ moved \in Nat
      /\ head \in Index /\ tail \in Index /\ out' = out
  BY DEF IInv, TypeOK
<1>2. Dist(tail, head) \in 0..Size /\ Dist(tail, head) + filled <= Size /\ Size < IndexMod
  BY <1>1, Distances, SizeAssumption DEF IInv
<1>3. Dist(tail, head') = Dist(tail, head) + filled
  BY <1>1, <1>2, DistFar, SizeAssumption, IndexModBound
<1>4. ContentLen' = ContentLen + filled /\ ContentLen \in Nat
  BY <1>1, <1>2, <1>3, SizeAssumption DEF ContentLen, ContentFacts
<1>5. \A i \in 1..ContentLen : Content'[i] = Content[i]
  <2> TAKE i \in 1..ContentLen
  <2>1. i \in 1..ContentLen'
    BY <1>1, <1>4
  <2>2. tail' = tail /\ moved' = moved /\ slot' = slot
    OBVIOUS
  <2>3. Content'[i] = slot'[Pos(Add(tail', moved' + i - 1))]
    BY <2>1 DEF ContentFacts
  <2>4. Content[i] = slot[Pos(Add(tail, moved + i - 1))]
    BY DEF ContentFacts
  <2> QED BY <2>2, <2>3, <2>4
<1>6. CASE filled = 0
  BY <1>1, <1>4, <1>6, ContentUnchanged, QuietRefines
<1>7. CASE filled # 0
  <2> DEFINE ms == [j \in 1..filled |-> Content'[ContentLen + j]]
  <2>1. Content' \in Seq(Msgs) /\ Len(Content') = ContentLen + filled
        /\ Content \in Seq(Msgs) /\ Len(Content) = ContentLen
    BY <1>4 DEF ContentFacts
  <2>2. ms \in [1..filled -> Msgs]
    <3> SUFFICES ASSUME NEW j \in 1..filled PROVE Content'[ContentLen + j] \in Msgs
      OBVIOUS
    <3>1. ContentLen + j \in 1..Len(Content')
      BY <1>1, <1>4, <2>1
    <3> QED BY <2>1, <3>1, ElementOfSeq
  <2>3. ms \in Seq(Msgs) /\ Len(ms) = filled /\ \A j \in 1..filled : ms[j] = Content'[ContentLen + j]
    <3>1. \A j \in 1..filled : ms[j] = Content'[ContentLen + j]
      OBVIOUS
    <3> HIDE DEF ms
    <3>2. ms \in Seq(Msgs)
      BY <1>1, <2>2, SeqDef
    <3>3. DOMAIN ms = 1..filled /\ DOMAIN ms = 1..Len(ms) /\ Len(ms) \in Nat
      BY <2>2, <3>2, LenProperties
    <3>4. Len(ms) = filled
      BY <1>1, <3>3
    <3> QED BY <3>1, <3>2, <3>4
  <2> HIDE DEF ms
  <2>4. Content' = Content \o ms
    <3>1. /\ Content \o ms \in Seq(Msgs) /\ Len(Content \o ms) = ContentLen + filled
          /\ \A i \in 1..(ContentLen + filled) :
               (Content \o ms)[i] = IF i <= ContentLen THEN Content[i] ELSE ms[i - ContentLen]
      BY <2>1, <2>3, ConcatProperties
    <3>2. \A i \in 1..(ContentLen + filled) : Content'[i] = (Content \o ms)[i]
      <4> TAKE i \in 1..(ContentLen + filled)
      <4>1. CASE i <= ContentLen
        BY <1>4, <1>5, <3>1, <4>1
      <4>2. CASE i > ContentLen
        <5>1. i - ContentLen \in 1..filled /\ ContentLen + (i - ContentLen) = i
          BY <1>1, <1>4, <4>2
        <5>2. ms[i - ContentLen] = Content'[i]
          BY <2>3, <5>1
        <5>3. (Content \o ms)[i] = ms[i - ContentLen]
          BY <1>1, <1>4, <3>1, <4>2
        <5> QED BY <5>2, <5>3
      <4>3. i <= ContentLen \/ i > ContentLen
        BY <1>1, <1>4
      <4> QED BY <4>1, <4>2, <4>3
    <3> QED BY <2>1, <3>1, <3>2, SeqEqual
  <2>5. filled \in 1..(Size - Len(Content))
    BY <1>1, <1>2, <1>4, <1>7, <2>1, SizeAssumption DEF ContentLen
  <2>6. Fifo!Put
    BY <1>1, <2>2, <2>4, <2>5 DEF Fifo!Put
  <2> QED BY <2>6 DEF Fifo!Next
<1> QED BY <1>6, <1>7

\* A new object lies behind the content.
LEMMA ConstructRefines ==
  ASSUME IInv, ContentFacts, ContentFacts', Construct
  PROVE  [Fifo!Next]_(Fifo!vars)
<1> USE DEF Construct, consVars
<1>1. /\ tail \in Index /\ moved \in Nat /\ filled \in Nat /\ ContentLen \in Nat
      /\ Dist(tail, head) + filled \in 0..(Size - 1) /\ Dist(tail, head) \in Nat
      /\ out' = out
  <2>1. tail \in Index /\ moved \in Nat /\ filled \in Nat
    BY SizeAssumption DEF IInv, TypeOK
  <2>2. ContentLen \in Nat
    BY SizeAssumption DEF ContentFacts
  <2>3. Dist(tail, head) + filled \in 0..(Size - 1)
    BY NextSlot
  <2>4. Dist(tail, head) \in Nat
    <3>1. Dist(tail, head) \in 0..Size
      BY Distances DEF IInv
    <3> QED BY <3>1, SizeAssumption
  <2>5. out' = out
    OBVIOUS
  <2> QED BY <2>1, <2>2, <2>3, <2>4, <2>5
<1>2. ASSUME NEW d \in moved..(moved + ContentLen - 1)
      PROVE  slot'[Pos(Add(tail, d))] = slot[Pos(Add(tail, d))]
  <2>1. d \in 0..(Size - 1) /\ d # Dist(tail, head) + filled
    BY <1>1, SizeAssumption DEF ContentLen
  <2>2. Pos(Add(tail, d)) # Pos(Add(head, filled))
    BY <1>1, <2>1, NextSlot, PosDistinct
  <2> QED BY <2>2 DEF IInv, TypeOK
<1>3. Content' = Content
  BY <1>1, <1>2, ContentKept
<1> QED BY <1>1, <1>3, QuietRefines

\* The function of try_consume takes the oldest messages of the queue.
LEMMA CallFirstRefines ==
  ASSUME IInv, ContentFacts, ContentFacts', CallFirst
  PROVE  [Fifo!Next]_(Fifo!vars)
<1> USE DEF CallFirst, prodVars
<1>1. PICK k \in Taken(FirstRange) : TakeFrom(Pos(tail), k)
  OBVIOUS
<1>2. /\ tail \in Index /\ Avail \in 1..Size /\ moved = 0
      /\ Dist(tail, head) \in 0..Size /\ Avail <= Dist(tail, head)
      /\ ContentLen = Dist(tail, head)
  BY Distances, SizeAssumption DEF IInv, TypeOK, Calls, ContentLen
<1>3. /\ FirstRange \in 1..Avail /\ Pos(tail) + FirstRange <= Size /\ Pos(tail) \in 0..(Size - 1)
  BY <1>2, Ranges, PosFromTail, SizeAssumption
<1>4. k \in 0..FirstRange /\ k \in 0..ContentLen
  BY <1>2, <1>3, TakenRange, SizeAssumption DEF IInv
<1>5. moved' = moved + k
  BY <1>1 DEF TakeFrom
<1>6. \A j \in 1..k : Pos(Add(tail, moved + j - 1)) = Pos(tail) + j - 1
  <2> TAKE j \in 1..k
  <2>1. moved + j - 1 \in 0..Size /\ moved + j - 1 = j - 1 /\ Pos(tail) + (j - 1) < Size
    BY <1>2, <1>3, <1>4, SizeAssumption
  <2> QED BY <1>2, <1>3, <2>1, PosFromTail
<1>7. out' = out \o [j \in 1..k |-> slot[Pos(Add(tail, moved + j - 1))]]
  <2>1. [j \in 1..k |-> slot[Pos(Add(tail, moved + j - 1))]] = [j \in 1..k |-> slot[Pos(tail) + j - 1]]
    BY <1>6
  <2> QED BY <1>1, <2>1 DEF TakeFrom
<1>8. ASSUME NEW d \in (moved + k)..(moved + ContentLen - 1)
      PROVE  slot'[Pos(Add(tail, d))] = slot[Pos(Add(tail, d))]
  <2>1. d \in 0..Size /\ k <= d /\ d < Size
    BY <1>2, <1>3, <1>4, SizeAssumption
  <2>2. /\ Pos(Add(tail, d)) \in 0..(Size - 1)
        /\ Pos(Add(tail, d)) = IF Pos(tail) + d < Size THEN Pos(tail) + d ELSE Pos(tail) + d - Size
    BY <1>2, <2>1, PosFromTail
  <2>3. Pos(Add(tail, d)) \notin Pos(tail)..(Pos(tail) + k - 1)
    BY <1>3, <1>4, <2>1, <2>2, SizeAssumption
  <2> QED BY <1>1, <2>2, <2>3 DEF TakeFrom, IInv, TypeOK
<1> QED BY <1>4, <1>5, <1>7, <1>8, TakeRefines

LEMMA CallSecondRefines ==
  ASSUME IInv, ContentFacts, ContentFacts', CallSecond
  PROVE  [Fifo!Next]_(Fifo!vars)
<1> USE DEF CallSecond, prodVars
<1>1. PICK k \in Taken(SecondRange) : TakeFrom(0, k)
  OBVIOUS
<1>2. /\ tail \in Index /\ Avail \in 1..Size /\ moved = FirstRange /\ Wraps /\ op # "one"
      /\ Dist(tail, head) \in 0..Size /\ Avail <= Dist(tail, head)
      /\ ContentLen = Dist(tail, head) - moved
  BY Distances, SizeAssumption DEF IInv, TypeOK, Calls, ContentLen
<1>3. /\ FirstRange \in 1..Avail /\ Pos(tail) + FirstRange = Size /\ Pos(tail) \in 0..(Size - 1)
      /\ SecondRange = Avail - FirstRange
  BY <1>2, Ranges, PosFromTail, SizeAssumption
<1>4. k \in 0..SecondRange /\ k \in 0..ContentLen
  BY <1>2, <1>3, TakenRange, SizeAssumption DEF IInv
<1>5. moved' = moved + k
  BY <1>1 DEF TakeFrom
<1>6. \A j \in 1..k : Pos(Add(tail, moved + j - 1)) = 0 + j - 1
  <2> TAKE j \in 1..k
  <2>1. /\ moved + j - 1 \in 0..Size /\ Pos(tail) + (moved + j - 1) >= Size
        /\ Pos(tail) + (moved + j - 1) - Size = 0 + j - 1
    BY <1>2, <1>3, <1>4, SizeAssumption
  <2>2. ~(Pos(tail) + (moved + j - 1) < Size)
    BY <1>3, <2>1, SizeAssumption
  <2> QED BY <1>2, <2>1, <2>2, PosFromTail
<1>7. out' = out \o [j \in 1..k |-> slot[Pos(Add(tail, moved + j - 1))]]
  <2>1. [j \in 1..k |-> slot[Pos(Add(tail, moved + j - 1))]] = [j \in 1..k |-> slot[0 + j - 1]]
    BY <1>6
  <2> QED BY <1>1, <2>1 DEF TakeFrom
<1>8. ASSUME NEW d \in (moved + k)..(moved + ContentLen - 1)
      PROVE  slot'[Pos(Add(tail, d))] = slot[Pos(Add(tail, d))]
  <2>1. d \in 0..Size /\ d < Size /\ Pos(tail) + d - Size >= k /\ Pos(tail) + d >= Size
    BY <1>2, <1>3, <1>4, SizeAssumption
  <2>2. /\ Pos(Add(tail, d)) \in 0..(Size - 1)
        /\ Pos(Add(tail, d)) = IF Pos(tail) + d < Size THEN Pos(tail) + d ELSE Pos(tail) + d - Size
    BY <1>2, <2>1, PosFromTail
  <2>3. Pos(Add(tail, d)) \notin 0..(0 + k - 1)
    BY <1>3, <1>4, <2>1, <2>2, SizeAssumption
  <2> QED BY <1>1, <2>2, <2>3 DEF TakeFrom, IInv, TypeOK
<1> QED BY <1>4, <1>5, <1>7, <1>8, TakeRefines

\* The lifetime of an entry ends after it has left the queue.
LEMMA DestroyFirstRefines ==
  ASSUME IInv, ContentFacts, ContentFacts', DestroyFirst
  PROVE  [Fifo!Next]_(Fifo!vars)
<1> USE DEF DestroyFirst, prodVars
<1>1. /\ tail \in Index /\ Avail \in 1..Size /\ moved \in 0..Size /\ moved <= FirstRange
      /\ Dist(tail, head) \in 0..Size /\ ContentLen = Dist(tail, head) - moved
  BY Distances, SizeAssumption DEF IInv, TypeOK, Calls, ContentLen
<1>2. /\ Pos(tail) + FirstRange <= Size /\ Pos(tail) \in 0..(Size - 1) /\ FirstRange \in 1..Avail
  BY <1>1, Ranges, PosFromTail, SizeAssumption
<1>3. \A i \in 0..(Size - 1) :
        slot'[i] = IF Pos(tail) <= i /\ i < Pos(tail) + moved THEN Raw ELSE slot[i]
  <2>1. Pos(tail) \in 0..Size /\ Pos(tail) + moved \in 0..Size
    BY <1>1, <1>2, SizeAssumption
  <2> QED BY <2>1, DestroySlots DEF IInv
<1>4. ASSUME NEW d \in moved..(moved + ContentLen - 1)
      PROVE  slot'[Pos(Add(tail, d))] = slot[Pos(Add(tail, d))]
  <2>1. d \in 0..Size /\ d < Size /\ moved <= d
    BY <1>1, SizeAssumption
  <2>2. /\ Pos(Add(tail, d)) \in 0..(Size - 1)
        /\ Pos(Add(tail, d)) = IF Pos(tail) + d < Size THEN Pos(tail) + d ELSE Pos(tail) + d - Size
    BY <1>1, <2>1, PosFromTail
  <2>3. ~(Pos(tail) <= Pos(Add(tail, d)) /\ Pos(Add(tail, d)) < Pos(tail) + moved)
    BY <1>1, <1>2, <2>1, <2>2, SizeAssumption
  <2> QED BY <1>3, <2>2, <2>3
<1>5. Content' = Content /\ out' = out
  BY <1>1, <1>4, ContentKept, SizeAssumption
<1> QED BY <1>5, QuietRefines

LEMMA DestroySecondRefines ==
  ASSUME IInv, ContentFacts, ContentFacts', DestroySecond
  PROVE  [Fifo!Next]_(Fifo!vars)
<1> USE DEF DestroySecond, prodVars
<1>1. /\ tail \in Index /\ Avail \in 1..Size /\ moved \in 0..Size
      /\ destroyed = FirstRange /\ Wraps /\ op # "one" /\ destroyed <= moved /\ moved <= Avail
      /\ Dist(tail, head) \in 0..Size /\ ContentLen = Dist(tail, head) - moved
  BY Distances, SizeAssumption DEF IInv, TypeOK, Calls, ContentLen
<1>2. /\ Pos(tail) + FirstRange = Size /\ Pos(tail) \in 0..(Size - 1) /\ FirstRange \in 1..Avail
  BY <1>1, Ranges, PosFromTail, SizeAssumption
<1>3. \A i \in 0..(Size - 1) :
        slot'[i] = IF 0 <= i /\ i < moved - destroyed THEN Raw ELSE slot[i]
  <2>1. 0 \in 0..Size /\ (moved - destroyed) \in 0..Size
    BY <1>1, <1>2, SizeAssumption
  <2> QED BY <2>1, DestroySlots DEF IInv
<1>4. ASSUME NEW d \in moved..(moved + ContentLen - 1)
      PROVE  slot'[Pos(Add(tail, d))] = slot[Pos(Add(tail, d))]
  <2>1. d \in 0..Size /\ d < Size /\ moved <= d
    BY <1>1, SizeAssumption
  <2>2. /\ Pos(Add(tail, d)) \in 0..(Size - 1)
        /\ Pos(Add(tail, d)) = IF Pos(tail) + d < Size THEN Pos(tail) + d ELSE Pos(tail) + d - Size
    BY <1>1, <2>1, PosFromTail
  <2>3. ~(0 <= Pos(Add(tail, d)) /\ Pos(Add(tail, d)) < moved - destroyed)
    BY <1>1, <1>2, <2>1, <2>2, SizeAssumption
  <2> QED BY <1>3, <2>2, <2>3
<1>5. Content' = Content /\ out' = out
  BY <1>1, <1>4, ContentKept, SizeAssumption
<1> QED BY <1>5, QuietRefines

\* The new tail passes only entries that have left the queue.
LEMMA PublishTailRefines ==
  ASSUME IInv, ContentFacts, ContentFacts', PublishTail
  PROVE  [Fifo!Next]_(Fifo!vars)
<1> USE DEF PublishTail, prodVars
<1>1. /\ tail \in Index /\ head \in Index /\ moved \in 0..Size /\ moved <= Avail
      /\ Avail <= Dist(tail, head) /\ Avail \in 0..Size
      /\ Dist(tail, head) \in 0..Size /\ ContentLen = Dist(tail, head) - moved
  BY Distances, SizeAssumption DEF IInv, TypeOK, Calls, ContentLen
<1>2. tail' \in Index /\ Dist(tail', head) = Dist(tail, head) - moved
  <2>1. moved \in 0..Dist(tail, head)
    BY <1>1, SizeAssumption
  <2> QED BY <1>1, <2>1, DistNear
<1>3. ContentLen' = ContentLen /\ ContentLen \in 0..Size
  BY <1>1, <1>2, SizeAssumption DEF ContentLen
<1>4. ASSUME NEW i \in 1..ContentLen
      PROVE  Pos(Add(tail', moved' + i - 1)) = Pos(Add(tail, moved + i - 1))
  <2>1. moved' + i - 1 \in 0..Size /\ moved + i - 1 \in 0..Size /\ moved' + i - 1 = i - 1
    BY <1>1, <1>3, SizeAssumption
  <2>2. /\ Pos(tail) \in 0..(Size - 1)
        /\ Pos(tail') = IF Pos(tail) + moved < Size THEN Pos(tail) + moved
                                                    ELSE Pos(tail) + moved - Size
    BY <1>1, PosAdd
  <2>3. Pos(Add(tail', i - 1)) = IF Pos(tail') + (i - 1) < Size THEN Pos(tail') + (i - 1)
                                                                 ELSE Pos(tail') + (i - 1) - Size
    BY <1>2, <2>1, PosAdd
  <2>4. Pos(Add(tail, moved + i - 1)) = IF Pos(tail) + (moved + i - 1) < Size
                                          THEN Pos(tail) + (moved + i - 1)
                                          ELSE Pos(tail) + (moved + i - 1) - Size
    BY <1>1, <2>1, PosAdd
  <2>5. Pos(Add(tail', i - 1)) = Pos(Add(tail, moved + i - 1))
    BY <1>1, <1>3, <2>1, <2>2, <2>3, <2>4, SizeAssumption
  <2> QED BY <2>1, <2>5
<1>5. Content' = Content /\ out' = out
  BY <1>3, <1>4, ContentUnchanged
<1> QED BY <1>5, QuietRefines

\* Nothing that the content depends on changes.
LEMMA IdleRefines ==
  ASSUME UNCHANGED <<tail, head, moved, slot>>, out' = out \/ out' = <<>>
  PROVE  [Fifo!Next]_(Fifo!vars)
<1>1. Content' = Content
  BY DEF Content
<1> QED BY <1>1, QuietRefines

LEMMA NextRefines ==
  ASSUME IInv, IInv', ContentFacts, ContentFacts', [Next]_vars
  PROVE  [Fifo!Next]_(Fifo!vars)
<1>1. CASE \E m \in Msgs : TryPushOne(m)
  BY <1>1, IdleRefines DEF TryPushOne, consVars
<1>2. CASE \E ms \in Bulks : TryPushMany(ms)
  BY <1>2, IdleRefines DEF TryPushMany, consVars
<1>3. CASE Construct
  BY <1>3, ConstructRefines
<1>4. CASE ConstructThrows
  BY <1>4, IdleRefines DEF ConstructThrows, consVars
<1>5. CASE PublishHead
  BY <1>5, PublishHeadRefines
<1>6. CASE TryConsume
  BY <1>6, IdleRefines DEF TryConsume, StartCall, prodVars
<1>7. CASE \E sz \in 0..Size : TryPop(sz)
  BY <1>7, IdleRefines DEF TryPop, StartCall, prodVars
<1>8. CASE CallFirst
  BY <1>8, CallFirstRefines
<1>9. CASE DestroyFirst
  BY <1>9, DestroyFirstRefines
<1>10. CASE CallSecond
  BY <1>10, CallSecondRefines
<1>11. CASE DestroySecond
  BY <1>11, DestroySecondRefines
<1>12. CASE PublishTail
  BY <1>12, PublishTailRefines
<1>13. CASE StartDestructor
  BY <1>13, IdleRefines DEF StartDestructor, prodVars, consVars
<1>14. CASE Drain
  BY <1>14, IdleRefines DEF Drain, StartCall, prodVars
<1>15. CASE UNCHANGED vars
  BY <1>15, IdleRefines DEF vars, prodVars, consVars
<1> QED BY <1>1, <1>2, <1>3, <1>4, <1>5, <1>6, <1>7, <1>8, <1>9, <1>10, <1>11, <1>12,
           <1>13, <1>14, <1>15 DEF Next, Produce, Consume

\* put::spsc_ring is a bounded first-in first-out buffer, for every size.
THEOREM RingImplementsFifo == Spec => ImplementsFifo
<1>1. Init => Fifo!Init
  <2> SUFFICES ASSUME Init PROVE Fifo!Init
    OBVIOUS
  <2>1. ContentFacts
    BY InitIInv, ContentIsSeq
  <2>2. ContentLen = 0
    BY DistSelf, IndexModBound, SizeAssumption DEF Init, ContentLen, Index
  <2>3. Content = <<>>
    BY <2>1, <2>2, EmptySeq DEF ContentFacts
  <2> QED BY <2>3 DEF Fifo!Init, Init
<1>2. IInv /\ IInv' /\ ContentFacts /\ ContentFacts' /\ [Next]_vars => [Fifo!Next]_(Fifo!vars)
  BY NextRefines
<1> QED BY <1>1, <1>2, Invariance, ContentIsSeq, PTL DEF Spec, ImplementsFifo, Fifo!Spec
=============================================================================
