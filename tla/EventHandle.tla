---------------------------- MODULE EventHandle ----------------------------
(***************************************************************************)
(* gen/priv/event_handle.cpp: who owns which timer while handles are       *)
(* created, moved, assigned and destroyed.                                 *)
(*                                                                         *)
(* Move assignment moves its argument into a local `tmp` and calls         *)
(* swap(tmp, *this).  The class has no swap of its own, so std::swap       *)
(* is meant, which moves tmp into a local and then assigns *this to tmp:   *)
(* by this same move assignment, one level deeper.  A frame here stands    *)
(* for one level of both functions, and is what the local of std::swap     *)
(* holds; the local `tmp` is empty again by then.  The stack has room for  *)
(* MaxDepth frames.                                                        *)
(***************************************************************************)
EXTENDS Naturals, Sequences, FiniteSets

CONSTANTS
  Handles,   \* the places where a handle can live
  Timers,    \* the timers that can be allocated
  None,      \* tmr_ holds no timer
  MaxDepth   \* the frames that fit on the stack

ASSUME HandlesAssumption ==
  /\ IsFiniteSet(Timers) /\ None \notin Timers
  /\ Handles # {} /\ Handles \cap Nat = {}
  /\ MaxDepth \in Nat \ {0}

VARIABLES
  alive,      \* the handles that exist
  tmr,        \* tmr_ of each handle
  bound,      \* the handles whose scheduler_ is not null
  stack,      \* the move assignment in progress
  target,     \* *this of its first level
  overflown,  \* the stack has been exhausted
  allocated,  \* the timers that exist
  cntOwned   \* cnt_timers_ of the scheduler

handleVars == <<alive, tmr, bound, stack, target, overflown, allocated, cntOwned>>

HandleInit ==
  /\ alive = {} /\ tmr = [h \in Handles |-> None] /\ bound = {}
  /\ stack = <<>> /\ target \in Handles /\ overflown = FALSE
  /\ allocated = {} /\ cntOwned = 0

\* No assignment is in progress, so the thread is free to do something else.
Free == stack = <<>> /\ ~overflown
-----------------------------------------------------------------------------
\* event_handle()
Default(h) ==
  /\ Free /\ h \notin alive
  /\ alive' = alive \cup {h}
  /\ UNCHANGED <<tmr, bound, stack, target, overflown, allocated, cntOwned>>

\* event_handle(event_scheduler*), with get_timer().
Create(h) ==
  /\ Free /\ h \notin alive
  /\ \E t \in Timers \ allocated : /\ tmr' = [tmr EXCEPT ![h] = t]
                                   /\ allocated' = allocated \cup {t}
  /\ alive' = alive \cup {h} /\ bound' = bound \cup {h}
  /\ cntOwned' = cntOwned + 1
  /\ UNCHANGED <<stack, target, overflown>>

\* Mutant: the handle moved from keeps its timer.
MoveCreateCopies(h, g) ==
  /\ Free /\ h \notin alive /\ g \in alive
  /\ alive' = alive \cup {h}
  /\ tmr' = [tmr EXCEPT ![h] = tmr[g]]
  /\ bound' = (bound \ {g}) \cup {h : x \in bound \cap {g}}
  /\ UNCHANGED <<stack, target, overflown, allocated, cntOwned>>

\* event_handle(event_handle&&)
MoveCreate(h, g) ==
  /\ Free /\ h \notin alive /\ g \in alive
  /\ alive' = alive \cup {h}
  /\ tmr' = [tmr EXCEPT ![h] = tmr[g], ![g] = None]
  /\ bound' = (bound \ {g}) \cup {h : x \in bound \cap {g}}
  /\ UNCHANGED <<stack, target, overflown, allocated, cntOwned>>

\* Mutant: a handle that holds a timer is destroyed without returning it.
DestroyForgets(h) ==
  /\ Free /\ h \in alive
  /\ alive' = alive \ {h} /\ bound' = bound \ {h}
  /\ tmr' = [tmr EXCEPT ![h] = None]
  /\ UNCHANGED <<stack, target, overflown, allocated, cntOwned>>

\* ~event_handle(), with ret_timer().
Destroy(h) ==
  /\ Free /\ h \in alive
  /\ alive' = alive \ {h} /\ bound' = bound \ {h}
  /\ tmr' = [tmr EXCEPT ![h] = None]
  /\ allocated' = allocated \ {tmr[h]}
  /\ cntOwned' = IF tmr[h] = None THEN cntOwned ELSE cntOwned - 1
  /\ UNCHANGED <<stack, target, overflown>>

\* operator=(event_handle&&) of h with the argument g: g's timer goes through
\* tmp into the local of std::swap.
Assign(h, g) ==
  /\ Free /\ h \in alive /\ g \in alive
  /\ target' = h
  /\ stack' = <<tmr[g]>>
  /\ tmr' = [tmr EXCEPT ![g] = None] /\ bound' = bound \ {g}
  /\ UNCHANGED <<alive, overflown, allocated, cntOwned>>

\* std::swap's first assignment is this operator again, with the *this of the
\* level above as its argument: the handle assigned to, and below it the empty
\* tmp of each level.
AssignDeeper ==
  /\ stack # <<>> /\ Len(stack) < MaxDepth
  /\ IF Len(stack) = 1
       THEN /\ stack' = Append(stack, tmr[target])
            /\ tmr' = [tmr EXCEPT ![target] = None] /\ bound' = bound \ {target}
       ELSE stack' = Append(stack, None) /\ UNCHANGED <<tmr, bound>>
  /\ UNCHANGED <<alive, target, overflown, allocated, cntOwned>>

\* One level too many: the process is killed.
Overflow ==
  /\ Len(stack) = MaxDepth /\ stack # <<>> /\ ~overflown
  /\ overflown' = TRUE
  /\ UNCHANGED <<alive, tmr, bound, stack, target, allocated, cntOwned>>

HandleNext ==
  \/ AssignDeeper \/ Overflow
  \/ \E h \in Handles : Default(h) \/ Create(h) \/ Destroy(h)
  \/ \E h, g \in Handles : MoveCreate(h, g) \/ Assign(h, g)

HandleSpec == HandleInit /\ [][HandleNext]_handleVars
-----------------------------------------------------------------------------
(***************************************************************************)
(* Properties                                                              *)
(***************************************************************************)

\* The types of the handles' variables.
HandleTypeOK ==
  /\ alive \in SUBSET Handles /\ bound \in SUBSET alive
  /\ tmr \in [Handles -> Timers \cup {None}]
  /\ stack \in Seq(Timers \cup {None}) /\ Len(stack) <= MaxDepth
  /\ target \in Handles /\ overflown \in BOOLEAN
  /\ allocated \in SUBSET Timers /\ cntOwned \in Nat

\* Everything that can hold a timer: handles, and the locals of std::swap.
Holders == Handles \cup (1..Len(stack))
Holds(x) == IF x \in Handles THEN tmr[x] ELSE stack[x]

\* Each timer that exists has exactly one owner, at every step of every
\* operation, and the scheduler's count is right: "All timers should have been
\* returned to the scheduler" (event_scheduler.h:41) once all handles are gone.
OneOwner ==
  /\ \A x, y \in Holders : Holds(x) = Holds(y) /\ Holds(x) # None => x = y
  /\ \A x \in Holders : Holds(x) \in allocated \cup {None}
  /\ \A t \in allocated : \E x \in Holders : Holds(x) = t
  /\ cntOwned = Cardinality(allocated)

\* A handle knows its scheduler whenever it holds a timer, and only then: a
\* timer can be returned and scheduled.
BoundIffHolding == \A h \in Handles : h \in bound <=> tmr[h] # None

\* A handle can be assigned to (event_handle.h:14-16: a class that cannot be
\* moved "would have been too limiting for its users").
AssignmentFitsStack == ~overflown
=============================================================================
