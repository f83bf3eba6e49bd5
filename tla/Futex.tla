------------------------------- MODULE Futex -------------------------------
(***************************************************************************)
(* The futex system call as the Linux half of android_futex.c uses it.     *)
(* `sleepers` is the kernel's wait queue of ONE futex word: a thread in it *)
(* is blocked inside FUTEX_WAIT.  A component with several words takes one *)
(* INSTANCE per word.                                                      *)
(***************************************************************************)
EXTENDS FiniteSets

CONSTANTS
  Threads,    (* the threads that use the word                             *)
  Shared,     (* TRUE iff the object was created process-shared            *)
  ProcessOf   (* the process each thread belongs to                        *)

VARIABLE sleepers

(* android_futex_{wake,wait}_ex pass FUTEX_PRIVATE_FLAG exactly when       *)
(* pshared is non-zero.  A private futex is keyed by address space, a      *)
(* plain one by the physical page, which every user of the word shares.    *)
SameKey(t, u) == Shared => ProcessOf[t] = ProcessOf[u]

Wakeable(t) == { s \in sleepers : SameKey(t, s) }

(* FUTEX_WAIT: the kernel compares and enqueues in one atomic step.        *)
FutexWait(t, current, expected) ==
  sleepers' = IF current = expected THEN sleepers \cup {t} ELSE sleepers

(* FUTEX_WAKE with count 1: the queue order is the kernel's business.      *)
FutexWakeOne(t) ==
  IF Wakeable(t) = {}
  THEN UNCHANGED sleepers
  ELSE \E s \in Wakeable(t) : sleepers' = sleepers \ {s}

(* FUTEX_WAKE with count INT_MAX.                                          *)
FutexWakeAll(t) == sleepers' = sleepers \ Wakeable(t)

(* A signal handler or an expired timeout ends the wait without a wake.    *)
FutexInterrupt(t) ==
  /\ t \in sleepers
  /\ sleepers' = sleepers \ {t}
=============================================================================
