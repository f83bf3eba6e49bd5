---------------------------- MODULE FutexWindows ---------------------------
(***************************************************************************)
(* The Windows half of android_futex.c: every address that somebody waits  *)
(* on has an entry with a counted semaphore in a list under one mutex; the *)
(* count of a semaphore starts at its maximum.  A wake uses its entry      *)
(* after it gave the mutex back, when a clean-up may have freed the entry  *)
(* and malloc may have handed its memory out for another address.          *)
(***************************************************************************)
EXTENDS Integers, Sequences, SequencesExt, FiniteSets

CONSTANTS
  Threads,    (* the threads that wait and wake                            *)
  NoOwner,    (* holder of the free android_futex_mtx                      *)
  Addrs,      (* the futex words                                           *)
  Entries,    (* the memory blocks malloc can hand out for list entries    *)
  SemMax,     (* INT_MAX - 1, the count of a new semaphore and its maximum *)
  MaxWaits    (* bound on the waits of all threads, below SemMax           *)

(* Finitely many threads, and fewer waits than a semaphore has units.      *)
FutexAssumption ==
  /\ NoOwner \notin Threads /\ IsFiniteSet(Threads) /\ Addrs # {}
  /\ SemMax \in Nat /\ MaxWaits \in Nat /\ MaxWaits < SemMax

VARIABLES
  ftx,        (* the value of each word                                    *)
  locks,      (* futex_locks_first .. futex_locks_last                     *)
  entry,      (* addr and ref_count of each block, whether it is "free" or *)
              (* "live", its semaphore (CreateSemaphore may return NULL)   *)
              (* and the count of that                                     *)
  mtx,        (* who holds android_futex_mtx                               *)
  pc, op,     (* where each thread is, and which call with which arguments *)
  lock,       (* its local `lock`                                          *)
  waits       (* history: how many waits have begun                        *)

vars == << ftx, locks, entry, mtx, pc, op, lock, waits >>

Values == {0, 1}
NoEntry == << "NULL" >>
NoOp == [call |-> "none"]
Waits == { [call |-> "wait", addr |-> a, val |-> v, timed |-> d] :
             a \in Addrs, v \in Values, d \in BOOLEAN }
Wakes == { [call |-> "wake", addr |-> a, count |-> n] :
             a \in Addrs, n \in {"one", "all"} }

Init ==
  /\ ftx \in [Addrs -> {0}]
  /\ locks = << >> /\ mtx = NoOwner /\ waits = 0
  /\ entry = [e \in Entries |->
                [addr |-> CHOOSE a \in Addrs : TRUE, refs |-> 0,
                 sem |-> "NULL", count |-> SemMax, state |-> "free"]]
  /\ pc = [t \in Threads |-> "idle"] /\ op = [t \in Threads |-> NoOp]
  /\ lock = [t \in Threads |-> NoEntry]

Goto(t, l) == pc' = [pc EXCEPT ![t] = l]
Return(t) ==
  /\ Goto(t, "idle")
  /\ op' = [op EXCEPT ![t] = NoOp] /\ lock' = [lock EXCEPT ![t] = NoEntry]

(* The program changes a word before it wakes: the new value is stored by  *)
(* the caller of the wake.                                                 *)
CallWake(t, o) ==
  /\ pc[t] = "idle"
  /\ ftx' = [ftx EXCEPT ![o.addr] = 1 - @]
  /\ op' = [op EXCEPT ![t] = o] /\ Goto(t, "get")
  /\ UNCHANGED << locks, entry, mtx, lock, waits >>

(* android_futex_wait_ex compares the value without the mutex: a different *)
(* one is EAGAIN.                                                          *)
CallWait(t, o) ==
  /\ pc[t] = "idle" /\ waits < MaxWaits /\ ftx[o.addr] = o.val
  /\ op' = [op EXCEPT ![t] = o] /\ waits' = waits + 1 /\ Goto(t, "get")
  /\ UNCHANGED << ftx, locks, entry, mtx, lock >>

-----------------------------------------------------------------------------
LockMtx(t) ==
  /\ pc[t] \in {"get", "cleanup"} /\ mtx = NoOwner
  /\ mtx' = t
  /\ Goto(t, IF pc[t] = "get" THEN "in get" ELSE "in cleanup")
  /\ UNCHANGED << ftx, locks, entry, op, lock, waits >>

Found(a) == { e \in ToSet(locks) : entry[e].addr = a }

(* android_futex_get_lock for a wait: the entry of the address, or a new   *)
(* one at the end of the list, in any block that is not in use.  A NULL    *)
(* from CreateSemaphore is not INVALID_HANDLE_VALUE, so the entry is       *)
(* appended without a semaphore.                                           *)
GetForWait(t) ==
  /\ pc[t] = "in get" /\ op[t].call = "wait" /\ mtx' = NoOwner
  /\ LET a == op[t].addr IN
     IF Found(a) # {}
     THEN \E e \in Found(a) :
            /\ entry' = [entry EXCEPT ![e].refs = @ + 1]
            /\ lock' = [lock EXCEPT ![t] = e] /\ Goto(t, "wait")
            /\ UNCHANGED << locks, op >>
     ELSE \E e \in Entries, sem \in {"made", "NULL"} :
            /\ entry[e].state = "free"
            /\ entry' = [entry EXCEPT ![e] =
                 [addr |-> a, refs |-> 1, sem |-> sem, count |-> SemMax, state |-> "live"]]
            /\ locks' = Append(locks, e)
            /\ lock' = [lock EXCEPT ![t] = e] /\ Goto(t, "wait")
            /\ UNCHANGED op
  /\ UNCHANGED << ftx, waits >>

(* malloc fails: -1, and no entry.                                         *)
GetFails(t) ==
  /\ pc[t] = "in get" /\ op[t].call = "wait" /\ Found(op[t].addr) = {}
  /\ mtx' = NoOwner /\ Return(t)
  /\ UNCHANGED << ftx, locks, entry, waits >>

(* For a wake the entry is looked up, no reference is taken, and the mutex *)
(* is released.                                                            *)
GetForWake(t) ==
  /\ pc[t] = "in get" /\ op[t].call = "wake" /\ mtx' = NoOwner
  /\ IF Found(op[t].addr) = {}
     THEN Return(t)
     ELSE \E e \in Found(op[t].addr) :
            lock' = [lock EXCEPT ![t] = e] /\ Goto(t, "wake") /\ UNCHANGED op
  /\ UNCHANGED << ftx, locks, entry, waits >>

(* One ReleaseSemaphore of the loop, without the mutex.  The handle is     *)
(* read from the block each time: if the block has been freed it is what   *)
(* the memory happens to hold, nothing that can be released or a number    *)
(* that some live entry's semaphore has by now (a crash ends the program); *)
(* if the block is in use again it is the semaphore of another wait.  A    *)
(* release that finds no semaphore or no room ends the loop; the first one *)
(* that succeeds does, unless all are to be woken.                         *)
Live(e) == entry[e].state = "live"
Handles(e) == IF Live(e) THEN {e} ELSE { f \in Entries : Live(f) } \cup {NoEntry}
Room(e) == e \in Entries /\ entry[e].sem = "made" /\ entry[e].count < SemMax
Wake(t) ==
  /\ pc[t] = "wake"
  /\ \E e \in Handles(lock[t]) :
       /\ entry' = IF Room(e) THEN [entry EXCEPT ![e].count = @ + 1] ELSE entry
       /\ IF Room(e) /\ op[t].count = "all" THEN UNCHANGED << pc, op, lock >>
          ELSE Return(t)
  /\ UNCHANGED << ftx, locks, mtx, waits >>

(* WaitForSingleObject on the semaphore, which fails at once where there   *)
(* is none; then the clean-up.                                             *)
WaitSemaphore(t) ==
  /\ pc[t] = "wait"
  /\ LET e == lock[t] IN
     IF entry[e].sem = "made"
     THEN entry[e].count > 0 /\ entry' = [entry EXCEPT ![e].count = @ - 1]
     ELSE UNCHANGED entry
  /\ Goto(t, "cleanup")
  /\ UNCHANGED << ftx, locks, mtx, op, lock, waits >>

WaitTimesOut(t) ==
  /\ pc[t] = "wait" /\ op[t].timed /\ Goto(t, "cleanup")
  /\ UNCHANGED << ftx, locks, entry, mtx, op, lock, waits >>

(* Mutant: the entry goes although others still refer to it.               *)
CleanupAlways(t) ==
  /\ pc[t] = "in cleanup" /\ mtx' = NoOwner
  /\ entry' = [entry EXCEPT ![lock[t]].refs = @ - 1, ![lock[t]].state = "free"]
  /\ locks' = RemoveFirst(locks, lock[t])
  /\ Return(t)
  /\ UNCHANGED << ftx, waits >>

(* android_futex_cleanup_lock: the last reference closes the semaphore and *)
(* unlinks and frees the entry.                                            *)
Cleanup(t) ==
  /\ pc[t] = "in cleanup" /\ mtx' = NoOwner
  /\ LET e == lock[t]
         last == entry[e].refs = 1
     IN /\ entry' = [entry EXCEPT ![e].refs = @ - 1,
                                  ![e].state = IF last THEN "free" ELSE @]
        /\ locks' = IF last THEN RemoveFirst(locks, e) ELSE locks
  /\ Return(t)
  /\ UNCHANGED << ftx, waits >>

-----------------------------------------------------------------------------
Inside(t) ==
  \/ LockMtx(t) \/ GetForWait(t) \/ GetFails(t) \/ GetForWake(t)
  \/ Wake(t) \/ WaitSemaphore(t) \/ WaitTimesOut(t) \/ Cleanup(t)

Next ==
  \E t \in Threads :
    \/ \E o \in Wakes : CallWake(t, o)
    \/ \E o \in Waits : CallWait(t, o)
    \/ Inside(t)

Spec == Init /\ [][Next]_vars

-----------------------------------------------------------------------------
TypeOK ==
  /\ ftx \in [Addrs -> Values] /\ ToSet(locks) \subseteq Entries
  /\ mtx \in Threads \cup {NoOwner}
  /\ op \in [Threads -> Waits \cup Wakes \cup {NoOp}]
  /\ lock \in [Threads -> Entries \cup {NoEntry}]

(* An address has one entry, there as long as somebody between the look-up *)
(* and the clean-up of a wait refers to it, with the number of them as its *)
(* reference count; and no waiter stands at a semaphore with no units: a   *)
(* wake that came between the test of the value and the wait is not lost,  *)
(* because the semaphore lets the waiter through.  Wakes that go on with   *)
(* an entry after it was freed, and the units they give to semaphores of   *)
(* other waits, do not change that.                                        *)
Referring(e) ==
  { t \in Threads : lock[t] = e /\ pc[t] \in {"wait", "cleanup", "in cleanup"} }
EntriesExact ==
  /\ IsInjective(locks)
  /\ \A e, f \in ToSet(locks) : entry[e].addr = entry[f].addr => e = f
  /\ \A e \in Entries :
       /\ e \in ToSet(locks) <=> Live(e)
       /\ entry[e].refs = Cardinality(Referring(e))
       /\ e \in ToSet(locks) <=>
            entry[e].refs > 0
  /\ \A t \in Threads :
       pc[t] = "wait" /\ entry[lock[t]].sem = "made"
         => entry[lock[t]].count > 0
=============================================================================
