------------------------ MODULE EventHandle_proofs ------------------------
(***************************************************************************)
(* Who owns the timers, for every number of handles and timers and every   *)
(* depth of the stack.                                                     *)
(***************************************************************************)
EXTENDS EventHandle, FiniteSetTheorems, SequenceTheorems, TLAPS

IInv == HandleTypeOK /\ OneOwner /\ BoundIffHolding

LEMMA AllocatedFinite ==
  ASSUME HandleTypeOK PROVE IsFiniteSet(allocated) /\ Cardinality(allocated) \in Nat
BY HandlesAssumption, FS_Subset, FS_CardinalityType DEF HandleTypeOK

\* The locals are no handles.
LEMMA LocalsApart == \A n \in Nat : (1..n) \cap Handles = {}
BY HandlesAssumption

LEMMA InitIInv == HandleInit => IInv
<1> SUFFICES ASSUME HandleInit PROVE IInv
  OBVIOUS
<1>1. Cardinality({}) = 0 /\ Len(stack) = 0
  BY FS_EmptySet DEF HandleInit
<1>2. HandleTypeOK
  BY HandlesAssumption DEF HandleInit, HandleTypeOK
<1>3. OneOwner
  BY <1>1 DEF HandleInit, OneOwner, Holders, Holds
<1> QED BY <1>2, <1>3 DEF HandleInit, IInv, BoundIffHolding

\* As long as no assignment is in progress, only handles hold timers.
LEMMA OwnersAreHandles ==
  ASSUME stack = <<>>
  PROVE  OneOwner <=> /\ \A x, y \in Handles : tmr[x] = tmr[y] /\ tmr[x] # None => x = y
                      /\ \A x \in Handles : tmr[x] \in allocated \cup {None}
                      /\ \A t \in allocated : \E x \in Handles : tmr[x] = t
                      /\ cntOwned = Cardinality(allocated)
<1>1. Holders = Handles
  BY DEF Holders
<1> QED BY <1>1 DEF OneOwner, Holds

LEMMA StepIInv == IInv /\ [HandleNext]_handleVars => IInv'
<1> SUFFICES ASSUME IInv, [HandleNext]_handleVars PROVE IInv'
  OBVIOUS
<1> USE DEF IInv
<1>0. \A h \in Handles : h \notin alive => tmr[h] = None
  BY DEF HandleTypeOK, BoundIffHolding
<1>1. ASSUME stack = <<>>, stack' = <<>>, HandleTypeOK', BoundIffHolding',
             \A x, y \in Handles : tmr'[x] = tmr'[y] /\ tmr'[x] # None => x = y,
             \A x \in Handles : tmr'[x] \in allocated' \cup {None},
             \A t \in allocated' : \E x \in Handles : tmr'[x] = t,
             cntOwned' = Cardinality(allocated')
      PROVE  IInv'
  <2>1. Holders' = Handles
    BY <1>1 DEF Holders
  <2> QED BY <1>1, <2>1 DEF OneOwner, Holds
<1>2. ASSUME stack = <<>>
      PROVE  /\ \A x, y \in Handles : tmr[x] = tmr[y] /\ tmr[x] # None => x = y
             /\ \A x \in Handles : tmr[x] \in allocated \cup {None}
             /\ \A t \in allocated : \E x \in Handles : tmr[x] = t
             /\ cntOwned = Cardinality(allocated)
  BY <1>2, OwnersAreHandles
<1>3. ASSUME NEW h \in Handles, Default(h) PROVE IInv'
  <2>1. /\ stack = <<>> /\ stack' = <<>> /\ alive' = alive \cup {h}
        /\ UNCHANGED <<tmr, bound, allocated, cntOwned>>
    BY <1>3 DEF Default, Free
  <2>2. HandleTypeOK' /\ BoundIffHolding'
    BY <1>3, <2>1 DEF Default, HandleTypeOK, BoundIffHolding
  <2> QED BY <1>1, <1>2, <2>1, <2>2
<1>4. ASSUME NEW h \in Handles, Create(h) PROVE IInv'
  <2>1. PICK t \in Timers \ allocated : /\ tmr' = [tmr EXCEPT ![h] = t]
                                       /\ allocated' = allocated \cup {t}
    BY <1>4 DEF Create
  <2>2. /\ stack = <<>> /\ stack' = <<>> /\ tmr[h] = None
        /\ alive' = alive \cup {h} /\ bound' = bound \cup {h}
        /\ cntOwned' = cntOwned + 1
    BY <1>0, <1>4 DEF Create, Free
  <2>3. HandleTypeOK' /\ BoundIffHolding'
    BY <1>4, <2>1, <2>2, HandlesAssumption DEF Create, HandleTypeOK, BoundIffHolding
  <2>4. Cardinality(allocated') = Cardinality(allocated) + 1
    BY <2>1, AllocatedFinite, FS_AddElement
  <2>5. /\ \A x, y \in Handles : tmr'[x] = tmr'[y] /\ tmr'[x] # None => x = y
        /\ \A x \in Handles : tmr'[x] \in allocated' \cup {None}
        /\ \A u \in allocated' : \E x \in Handles : tmr'[x] = u
    <3>1. tmr'[h] = t /\ \A x \in Handles \ {h} : tmr'[x] = tmr[x]
      BY <2>1 DEF HandleTypeOK
    <3>2. /\ \A u \in allocated : u # None
          /\ t # None /\ t \notin allocated /\ allocated' = allocated \cup {t}
      BY <2>1, HandlesAssumption DEF HandleTypeOK
    <3>3. tmr[h] = None
      BY <2>2
    <3>4. \A x \in Handles : tmr[x] # t
      BY <1>2, <2>2, <3>2
    <3>5. \A x, y \in Handles : tmr'[x] = tmr'[y] /\ tmr'[x] # None => x = y
      BY <1>2, <2>2, <3>1, <3>4
    <3>6. \A x \in Handles : tmr'[x] \in allocated' \cup {None}
      BY <1>2, <2>2, <3>1, <3>2
    <3>7. \A u \in allocated' : \E x \in Handles : tmr'[x] = u
      BY <1>2, <2>2, <3>1, <3>2, <3>3
    <3> QED BY <3>5, <3>6, <3>7
  <2> QED BY <1>1, <1>2, <2>2, <2>3, <2>4, <2>5
<1>5. ASSUME NEW h \in Handles, NEW g \in Handles, MoveCreate(h, g) PROVE IInv'
  <2>1. /\ stack = <<>> /\ stack' = <<>> /\ tmr[h] = None /\ h # g
        /\ tmr' = [tmr EXCEPT ![h] = tmr[g], ![g] = None]
        /\ alive' = alive \cup {h}
        /\ bound' = (bound \ {g}) \cup {h : x \in bound \cap {g}}
        /\ UNCHANGED <<allocated, cntOwned>>
    BY <1>0, <1>5 DEF MoveCreate, Free
  <2>2. BoundIffHolding'
    BY <2>1 DEF HandleTypeOK, BoundIffHolding
  <2>3. HandleTypeOK'
    BY <1>5, <2>1 DEF MoveCreate, HandleTypeOK
  <2>4. /\ \A x, y \in Handles : tmr'[x] = tmr'[y] /\ tmr'[x] # None => x = y
        /\ \A x \in Handles : tmr'[x] \in allocated' \cup {None}
        /\ \A u \in allocated' : \E x \in Handles : tmr'[x] = u
    <3>1. /\ tmr'[h] = tmr[g] /\ tmr'[g] = None
          /\ \A x \in Handles \ {g, h} : tmr'[x] = tmr[x]
      BY <2>1 DEF HandleTypeOK
    <3>2. \A u \in allocated : u # None
      BY HandlesAssumption DEF HandleTypeOK
    <3>3. stack = <<>> /\ tmr[h] = None /\ h # g /\ allocated' = allocated
      BY <2>1
    <3>4. \A x, y \in Handles : tmr'[x] = tmr'[y] /\ tmr'[x] # None => x = y
      BY <1>2, <3>1, <3>3
    <3>5. \A x \in Handles : tmr'[x] \in allocated' \cup {None}
      BY <1>2, <3>1, <3>3
    <3>6. ASSUME NEW u \in allocated PROVE \E x \in Handles : tmr'[x] = u
      <4>1. PICK x \in Handles : tmr[x] = u
        BY <1>2, <3>3
      <4>2. x # h
        BY <4>1, <3>2, <3>3
      <4>3. CASE x = g
        BY <4>1, <4>3, <3>1
      <4>4. CASE x # g
        BY <4>1, <4>2, <4>4, <3>1
      <4> QED BY <4>3, <4>4
    <3> QED BY <3>3, <3>4, <3>5, <3>6
  <2> QED BY <1>1, <1>2, <2>1, <2>2, <2>3, <2>4
<1>6. ASSUME NEW h \in Handles, Destroy(h) PROVE IInv'
  <2>1. /\ stack = <<>> /\ stack' = <<>>
        /\ tmr' = [tmr EXCEPT ![h] = None]
        /\ alive' = alive \ {h} /\ bound' = bound \ {h}
        /\ allocated' = allocated \ {tmr[h]}
        /\ cntOwned' = IF tmr[h] = None THEN cntOwned ELSE cntOwned - 1
    BY <1>6 DEF Destroy, Free
  <2>2. BoundIffHolding'
    BY <2>1 DEF HandleTypeOK, BoundIffHolding
  <2>3. /\ tmr'[h] = None /\ \A x \in Handles \ {h} : tmr'[x] = tmr[x]
        /\ \A u \in allocated : u # None
    BY <2>1, HandlesAssumption DEF HandleTypeOK
  <2>4. /\ \A x, y \in Handles : tmr'[x] = tmr'[y] /\ tmr'[x] # None => x = y
        /\ \A x \in Handles : tmr'[x] \in allocated' \cup {None}
        /\ \A u \in allocated' : \E x \in Handles : tmr'[x] = u
    BY <1>2, <2>1, <2>3
  <2>5. cntOwned' = Cardinality(allocated')
    <3>1. CASE tmr[h] = None
      BY <3>1, <1>2, <2>1, <2>3
    <3>2. CASE tmr[h] # None
      <4>1. tmr[h] \in allocated
        BY <3>2, <1>2, <2>1
      <4>2. Cardinality(allocated') = Cardinality(allocated) - 1
        BY <4>1, <2>1, AllocatedFinite, FS_RemoveElement
      <4> QED BY <3>2, <4>2, <1>2, <2>1
    <3> QED BY <3>1, <3>2
  <2>6. HandleTypeOK'
    <3>1. cntOwned' \in Nat
      <4>1. allocated' \in SUBSET Timers
        BY <2>1 DEF HandleTypeOK
      <4> QED BY <4>1, <2>5, HandlesAssumption, FS_Subset, FS_CardinalityType
    <3> QED BY <1>6, <2>1, <3>1 DEF Destroy, HandleTypeOK
  <2> QED BY <1>1, <2>1, <2>2, <2>4, <2>5, <2>6
<1>7. ASSUME NEW h \in Handles, NEW g \in Handles, Assign(h, g) PROVE IInv'
  <2>1. /\ stack = <<>> /\ stack' = <<tmr[g]>> /\ target' = h
        /\ tmr' = [tmr EXCEPT ![g] = None] /\ bound' = bound \ {g}
        /\ UNCHANGED <<alive, overflown, allocated, cntOwned>>
    BY <1>7 DEF Assign, Free
  <2>2. BoundIffHolding'
    BY <2>1 DEF HandleTypeOK, BoundIffHolding
  <2>3. HandleTypeOK'
    BY <2>1, HandlesAssumption DEF HandleTypeOK
  <2>4. /\ Holders' = Handles \cup {1} /\ 1 \notin Handles
        /\ \A x \in Handles \ {g} : Holds(x)' = tmr[x]
        /\ tmr'[g] = None /\ stack'[1] = tmr[g]
    BY <2>1, LocalsApart DEF Holders, Holds, HandleTypeOK
  <2>5. OneOwner'
    <3>1. \A x \in Holders' : Holds(x)' = IF x = 1 THEN tmr[g] ELSE IF x = g THEN None ELSE tmr[x]
      BY <2>4 DEF Holds
    <3>2. \A u \in allocated : u # None
      BY HandlesAssumption DEF HandleTypeOK
    <3> QED BY <1>2, <2>1, <2>4, <3>1, <3>2 DEF OneOwner
  <2> QED BY <2>2, <2>3, <2>5
<1>8. CASE AssignDeeper
  <2> DEFINE n == Len(stack)
  <2>1. /\ n \in Nat \ {0} /\ n < MaxDepth /\ stack \in Seq(Timers \cup {None})
        /\ target \in Handles
        /\ UNCHANGED <<alive, target, overflown, allocated, cntOwned>>
    BY <1>8, EmptySeq DEF AssignDeeper, HandleTypeOK
  <2>2. PICK v \in Timers \cup {None}, from \in Handles \cup {0} :
          /\ stack' = Append(stack, v)
          /\ from = 0 => v = None /\ UNCHANGED <<tmr, bound>>
          /\ from \in Handles => /\ v = tmr[from] /\ tmr' = [tmr EXCEPT ![from] = None]
                                 /\ bound' = bound \ {from}
    <3>1. CASE n = 1
      <4>1. /\ stack' = Append(stack, tmr[target])
            /\ tmr' = [tmr EXCEPT ![target] = None] /\ bound' = bound \ {target}
        BY <1>8, <3>1 DEF AssignDeeper
      <4>2. tmr[target] \in Timers \cup {None} /\ target # 0
        BY <2>1, HandlesAssumption DEF HandleTypeOK
      <4> QED BY <2>1, <4>1, <4>2
    <3>2. CASE n # 1
      <4>1. stack' = Append(stack, None) /\ UNCHANGED <<tmr, bound>>
        BY <1>8, <3>2 DEF AssignDeeper
      <4> QED BY <4>1, HandlesAssumption
    <3> QED BY <3>1, <3>2
  <2>3. /\ Len(stack') = n + 1 /\ stack'[n + 1] = v
        /\ \A i \in 1..n : stack'[i] = stack[i]
        /\ stack' \in Seq(Timers \cup {None})
    BY <2>1, <2>2
  <2>4. \A i \in 1..(n + 1) : i \notin Handles
    BY <2>1, LocalsApart
  <2>5. BoundIffHolding'
    BY <2>2 DEF HandleTypeOK, BoundIffHolding
  <2>6. HandleTypeOK'
    <3>1. tmr' \in [Handles -> Timers \cup {None}] /\ bound' \in SUBSET alive'
      BY <2>1, <2>2 DEF HandleTypeOK
    <3>2. Len(stack') <= MaxDepth
      BY <2>1, <2>3, HandlesAssumption
    <3> QED BY <2>1, <2>3, <3>1, <3>2 DEF HandleTypeOK
  <2> HIDE DEF n
  <2>7. /\ Holders = Handles \cup (1..n) /\ Holders' = Handles \cup (1..(n + 1))
        /\ Holders' = Holders \cup {n + 1} /\ n + 1 \notin Holders
    BY <2>1, <2>3, <2>4 DEF Holders, n
  <2>8. \A x \in Holders' :
          Holds(x)' = IF x = n + 1 THEN v ELSE IF x = from THEN None ELSE Holds(x)
    <3> SUFFICES ASSUME NEW x \in Holders'
                 PROVE  Holds(x)' = IF x = n + 1 THEN v ELSE IF x = from THEN None ELSE Holds(x)
      OBVIOUS
    <3>1. CASE x \in Handles
      <4>1. x # n + 1 /\ x # 0 /\ Holds(x)' = tmr'[x] /\ Holds(x) = tmr[x]
        BY <3>1, <2>1, <2>4, HandlesAssumption DEF Holds
      <4>2. tmr'[x] = IF x = from THEN None ELSE tmr[x]
        BY <3>1, <2>2, <4>1 DEF HandleTypeOK
      <4> QED BY <4>1, <4>2
    <3>2. CASE x \notin Handles
      <4>1. x \in 1..(n + 1) /\ Holds(x)' = stack'[x] /\ Holds(x) = stack[x]
        BY <3>2, <2>7 DEF Holds
      <4>2. x # from
        BY <3>2, <4>1, <2>1
      <4>3. stack'[x] = IF x = n + 1 THEN v ELSE stack[x]
        BY <4>1, <2>1, <2>3
      <4> QED BY <4>1, <4>2, <4>3
    <3> QED BY <3>1, <3>2
  <2>9. /\ from \in Handles => from \in Holders /\ Holds(from) = v
        /\ from \notin Handles => v = None
        /\ \A u \in allocated : u # None
    BY <2>2, HandlesAssumption DEF Holders, Holds, HandleTypeOK
  <2>10. OneOwner'
    <3>1. \A x, y \in Holders' : Holds(x)' = Holds(y)' /\ Holds(x)' # None => x = y
      BY <2>7, <2>8, <2>9 DEF OneOwner
    <3>2. \A x \in Holders' : Holds(x)' \in allocated \cup {None}
      BY <2>7, <2>8, <2>9 DEF OneOwner
    <3>3. \A u \in allocated : \E x \in Holders' : Holds(x)' = u
      <4> SUFFICES ASSUME NEW u \in allocated PROVE \E x \in Holders' : Holds(x)' = u
        OBVIOUS
      <4>1. PICK x \in Holders : Holds(x) = u
        BY DEF OneOwner
      <4>2. CASE x = from
        <5>1. from \in Handles
          BY <4>2, <2>1, <2>2, <2>7
        <5> QED BY <5>1, <4>1, <4>2, <2>7, <2>8, <2>9
      <4>3. CASE x # from
        BY <4>1, <4>3, <2>7, <2>8
      <4> QED BY <4>2, <4>3
    <3>4. cntOwned' = Cardinality(allocated')
      BY <2>1 DEF OneOwner
    <3> QED BY <2>1, <3>1, <3>2, <3>3, <3>4 DEF OneOwner
  <2> QED BY <2>5, <2>6, <2>10
<1>9. CASE Overflow
  BY <1>9 DEF Overflow, HandleTypeOK, OneOwner, BoundIffHolding, Holders, Holds
<1>10. CASE UNCHANGED handleVars
  BY <1>10 DEF handleVars, HandleTypeOK, OneOwner, BoundIffHolding, Holders, Holds
<1> QED BY <1>3, <1>4, <1>5, <1>6, <1>7, <1>8, <1>9, <1>10 DEF HandleNext

LEMMA Invariance == HandleSpec => []IInv
BY InitIInv, StepIInv, PTL DEF HandleSpec

\* The variables of the handles keep their types.
THEOREM HandlesTypeCorrect == HandleSpec => []HandleTypeOK
<1>1. IInv => HandleTypeOK
  BY DEF IInv
<1> QED BY <1>1, Invariance, PTL

\* Every timer has one owner and is counted once, whatever is done to handles
\* and however deep a move assignment is.
THEOREM HandlesOneOwner == HandleSpec => []OneOwner
<1>1. IInv => OneOwner
  BY DEF IInv
<1> QED BY <1>1, Invariance, PTL

\* A handle that holds a timer knows the scheduler to give it back to.
THEOREM HandlesBoundIffHolding == HandleSpec => []BoundIffHolding
<1>1. IInv => BoundIffHolding
  BY DEF IInv
<1> QED BY <1>1, Invariance, PTL
=============================================================================
