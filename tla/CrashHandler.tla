---------------------------- MODULE CrashHandler ----------------------------
(***************************************************************************)
(* put/stacktrace.cpp: the handler of the fatal signals, which writes what *)
(* it knows about the crash and lets the signal kill the process after all.*)
(*                                                                         *)
(* Several threads may run into it.  A thread inside of it has all signals *)
(* blocked; what other threads do goes on until the process is killed.     *)
(* fflush(stdout) waits for the lock that a thread holds while it prints:  *)
(* a thread that is interrupted in a print keeps the lock; any other gives *)
(* it back soon, so this module knows only of the former.                  *)
(***************************************************************************)
EXTENDS Naturals, Sequences

CONSTANTS
  Threads,   \* the threads of the process
  NoThread   \* "no thread"

ASSUME ThreadsAssumption == NoThread \notin Threads

VARIABLES
  installed,  \* the fatal signals that have the handler: "none", "some" or "all"
  outputSet,  \* output_fd_ is a descriptor and not invalid_fd
  called,     \* the flag `called`
  at,         \* where each thread is in the handler, or "out" of it
  stdoutOf,   \* the thread that was interrupted while it held stdout's lock
  dumped,     \* the sections written so far
  killed      \* a signal has killed the process

crashVars == <<installed, outputSet, called, at, stdoutOf, dumped, killed>>

Sections == <<"info", "stack", "registers">>

CrashInit ==
  /\ installed = "none" /\ outputSet = FALSE /\ called = FALSE
  /\ at = [t \in Threads |-> "out"] /\ stdoutOf = NoThread
  /\ dumped = <<>> /\ killed = FALSE

\* Inside the handler, past its flag.
Dumping(t) == at[t] \notin {"out", "paused"}
-----------------------------------------------------------------------------
\* dump_stacktrace_on_fatal_signal(): sigaction() of one signal after the
\* other; if one fails, those before it stay.
InstallActions(ok) ==
  /\ installed = "none"
  /\ installed' = IF ok THEN "all" ELSE "some"
  /\ UNCHANGED <<outputSet, called, at, stdoutOf, dumped, killed>>

\* Then the backtrace that loads libgcc, and at last the output is set.
SetOutput(ok) ==
  /\ installed = "all" /\ ~outputSet
  /\ outputSet' = ok
  /\ UNCHANGED <<installed, called, at, stdoutOf, dumped, killed>>
-----------------------------------------------------------------------------
\* External: the process is killed.  A fatal signal has its default action if
\* there is no handler for it, or no longer; and so has a fault of the handler
\* itself, as the signal is blocked there.
Kill(t) ==
  /\ \/ at[t] = "out" /\ (installed # "all" \/ \E s \in Threads : at[s] = "raise")
     \/ Dumping(t)
  /\ killed' = TRUE
  /\ UNCHANGED <<installed, outputSet, called, at, stdoutOf, dumped>>

\* Mutant: the flag is tested but not set.
EnterHandlerUnmarked(t) ==
  /\ installed # "none" /\ at[t] = "out"
  /\ at' = [at EXCEPT ![t] = IF called THEN "paused" ELSE "info"]
  /\ \/ UNCHANGED stdoutOf
     \/ stdoutOf = NoThread /\ stdoutOf' = t
  /\ UNCHANGED <<installed, outputSet, called, dumped, killed>>

\* A fatal signal of thread t enters fatal_signal_handler().  The first one
\* goes on; any other pauses.  The thread may have been printing.
EnterHandler(t) ==
  /\ installed # "none" /\ at[t] = "out"
  /\ called' = TRUE
  /\ at' = [at EXCEPT ![t] = IF called THEN "paused" ELSE "info"]
  /\ \/ UNCHANGED stdoutOf
     \/ stdoutOf = NoThread /\ stdoutOf' = t
  /\ UNCHANGED <<installed, outputSet, dumped, killed>>

Goto(t, from, to) == at[t] = from /\ at' = [at EXCEPT ![t] = to]

\* One section, as far as the output takes it: what comes of its writes is
\* ignored, here or by the functions that stop at one that fails.
Dump(t, section, next) ==
  /\ Goto(t, section, next)
  /\ dumped' = IF outputSet THEN Append(dumped, section) ELSE dumped
  /\ UNCHANGED <<installed, outputSet, called, stdoutOf, killed>>

DumpSignalInfo(t) == Dump(t, "info", "stack")

DumpStacktrace(t) == Dump(t, "stack", "registers")

DumpRegisters(t) == Dump(t, "registers", "flush")

\* fflush(stdout), fflush(stderr)
Flush(t) ==
  /\ Goto(t, "flush", "restore")
  /\ stdoutOf \in {NoThread, t}
  /\ UNCHANGED <<installed, outputSet, called, stdoutOf, dumped, killed>>

\* signal(sig, SIG_DFL)
RestoreDefault(t) ==
  /\ Goto(t, "restore", "raise")
  /\ UNCHANGED <<installed, outputSet, called, stdoutOf, dumped, killed>>

\* Mutant: the handler is still installed and is entered again.
ReraiseHandled(t) ==
  /\ Goto(t, "raise", "paused")
  /\ UNCHANGED <<installed, outputSet, called, stdoutOf, dumped, killed>>

\* raise(sig) waits for the handler to return, which unblocks the signal.
Reraise(t) ==
  /\ at[t] = "raise"
  /\ killed' = TRUE
  /\ UNCHANGED <<installed, outputSet, called, at, stdoutOf, dumped>>

Handle(t) ==
  \/ DumpSignalInfo(t) \/ DumpStacktrace(t) \/ DumpRegisters(t)
  \/ Flush(t) \/ RestoreDefault(t) \/ Reraise(t)

CrashTypeOK ==
  /\ installed \in {"none", "some", "all"}
  /\ outputSet \in BOOLEAN /\ called \in BOOLEAN /\ killed \in BOOLEAN
  /\ at \in [Threads -> {"out", "paused", "info", "stack", "registers", "flush", "restore", "raise"}]
  /\ stdoutOf \in Threads \cup {NoThread}
  /\ dumped \in Seq({"info", "stack", "registers"})
=============================================================================
