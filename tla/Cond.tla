------------------------------- MODULE Cond --------------------------------
(***************************************************************************)
(* android_pthread_cond.c on Linux, at the grain of its accesses to        *)
(* cond->value, of the mutex calls and of the futex calls, with the client *)
(* every condition variable is written for: a mailbox whose count `items`  *)
(* the mutex protects.  `take` waits while the mailbox is empty; `put`     *)
(* adds an item and signals or broadcasts, before or after it unlocks.     *)
(* The mutex is the lock of AbstractLock, which PthreadMutex implements.   *)
(***************************************************************************)
EXTENDS Integers, FiniteSets

CONSTANTS
  Threads,    (* the threads that use the mailbox                          *)
  NoOwner,    (* holder of a free mutex                                    *)
  Width,      (* cond->value has 2^Width values (32 bits in the code)      *)
  DeadCond,   (* 0xdeadc04d, what destroy stores                           *)
  MaxPulses   (* bound: no put begins once this many have pulsed           *)

VARIABLES
  value,      (* cond->value: the counter above the shared bit             *)
  attr,       (* the condattr that init is given                           *)
  sleepers,   (* the kernel's wait queue of the word                       *)
  holder,     (* who holds the mutex                                       *)
  items,      (* what the mutex protects                                   *)
  pc, op,     (* where each thread is and which call it is in              *)
  old, flags, (* the locals oldvalue / oldval and flags                    *)
  pulses      (* history: pulses since init                                *)

(* The pulses that lead from 0 or 1 to a value, as long as the counter has *)
(* not wrapped: each one subtracts 2.                                      *)
Half == 2^Width \div 2
PulsesTo(v) == IF v \div 2 = 0 THEN 0 ELSE Half - v \div 2

(* A mutex and finitely many threads; and, within the bound on the pulses, *)
(* a counter that neither wraps nor meets the mark of a destroyed one.     *)
CondAssumption ==
  /\ NoOwner \notin Threads /\ IsFiniteSet(Threads)
  /\ 2^Width \in Nat /\ 2^Width = 2 * Half
  /\ MaxPulses \in Nat /\ MaxPulses < Half
  /\ \A v \in 0 .. 2^Width - 1 : PulsesTo(v) <= MaxPulses => v # DeadCond

calls == << pc, op, old, flags >>
vars == << value, attr, sleepers, holder, items, calls, pulses >>

F == INSTANCE Futex WITH Shared <- FALSE, ProcessOf <- [t \in Threads |-> 1]

Attrs == {"private", "shared", "dead"}
Puts  == {"signal", "broadcast"} \X {"before unlock", "after unlock"}
Takes == {<<"wait", "">>, <<"timedwait", "">>}
None  == << "", "" >>

Init ==
  /\ value = 0 /\ attr = "private" /\ sleepers = {}
  /\ holder = NoOwner /\ items = 0 /\ pulses = 0
  /\ pc = [t \in Threads |-> "idle"] /\ op = [t \in Threads |-> None]
  /\ old = [t \in Threads |-> 0] /\ flags = [t \in Threads |-> 0]

Quiet == \A t \in Threads : pc[t] = "idle"
Goto(t, l) == pc' = [pc EXCEPT ![t] = l] /\ UNCHANGED << op, old, flags >>
Back(t) ==
  /\ pc' = [pc EXCEPT ![t] = "idle"] /\ op' = [op EXCEPT ![t] = None]
  /\ old' = [old EXCEPT ![t] = 0] /\ flags' = [flags EXCEPT ![t] = 0]

-----------------------------------------------------------------------------
(* condattr_init, _setpshared (a value that is neither kind is EINVAL and  *)
(* changes nothing) and _destroy, before the next cond_init reads it.      *)
SetAttr(a) ==
  /\ Quiet /\ value = DeadCond /\ attr' = a
  /\ UNCHANGED << value, sleepers, holder, items, calls, pulses >>

(* cond_destroy, and cond_init with the attribute: only "shared" sets the  *)
(* bit.                                                                    *)
DestroyCond ==
  /\ Quiet /\ value # DeadCond /\ value' = DeadCond
  /\ UNCHANGED << attr, sleepers, holder, items, calls, pulses >>

InitCond ==
  /\ Quiet /\ value = DeadCond
  /\ value' = IF attr = "shared" THEN 1 ELSE 0
  /\ pulses' = 0 /\ items' = 0
  /\ UNCHANGED << attr, sleepers, holder, calls >>

(* The client locks the mutex to put or to take.                           *)
CallLock(t, o) ==
  /\ pc[t] = "idle" /\ holder = NoOwner /\ value # DeadCond
  /\ o \in Puts => pulses < MaxPulses
  /\ holder' = t
  /\ pc' = [pc EXCEPT ![t] = "held"] /\ op' = [op EXCEPT ![t] = o]
  /\ UNCHANGED << value, attr, sleepers, items, old, flags, pulses >>

Unlock(t) ==
  /\ pc[t] = "unlock" /\ holder = t /\ holder' = NoOwner
  /\ IF op[t] \in Puts /\ op[t][2] = "after unlock" THEN Goto(t, "p_flags")
     ELSE Back(t)
  /\ UNCHANGED << value, attr, sleepers, items, pulses >>

Put(t) ==
  /\ pc[t] = "held" /\ op[t] \in Puts
  /\ items' = items + 1 /\ pulses' = pulses + 1
  /\ Goto(t, IF op[t][2] = "after unlock" THEN "unlock" ELSE "p_flags")
  /\ UNCHANGED << value, attr, sleepers, holder >>

Take(t) ==
  /\ pc[t] = "held" /\ op[t] \in Takes /\ items > 0
  /\ items' = items - 1
  /\ Goto(t, "unlock")
  /\ UNCHANGED << value, attr, sleepers, holder, pulses >>

-----------------------------------------------------------------------------
(* pthread_cond_wait and _timedwait: the value is read while the mutex is  *)
(* held.                                                                   *)
WaitBegin(t) ==
  /\ pc[t] = "held" /\ op[t] \in Takes /\ items = 0
  /\ old' = [old EXCEPT ![t] = value] /\ pc' = [pc EXCEPT ![t] = "w_unlock"]
  /\ UNCHANGED << value, attr, sleepers, holder, items, op, flags, pulses >>

(* A time that is already over: ETIMEDOUT with the mutex still held.       *)
WaitExpired(t) ==
  /\ pc[t] = "held" /\ op[t] = << "timedwait", "" >> /\ items = 0
  /\ Goto(t, "unlock")
  /\ UNCHANGED << value, attr, sleepers, holder, items, pulses >>

WaitUnlock(t) ==
  /\ pc[t] = "w_unlock" /\ holder' = NoOwner
  /\ Goto(t, "w_sleep")
  /\ UNCHANGED << value, attr, sleepers, items, pulses >>

(* Mutant: the value is read again, after the mutex was given up.          *)
WaitSleepReread(t) ==
  /\ pc[t] = "w_sleep" /\ F!FutexWait(t, value, value)
  /\ Goto(t, "w_lock")
  /\ UNCHANGED << value, attr, holder, items, pulses >>

WaitSleep(t) ==
  /\ pc[t] = "w_sleep" /\ F!FutexWait(t, value, old[t])
  /\ Goto(t, "w_lock")
  /\ UNCHANGED << value, attr, holder, items, pulses >>

(* Whatever the futex returned, the mutex is locked again and the call     *)
(* returns 0: the wrapper gives -1 and errno, never -ETIMEDOUT.            *)
WaitLock(t) ==
  /\ pc[t] = "w_lock" /\ t \notin sleepers /\ holder = NoOwner
  /\ holder' = t
  /\ pc' = [pc EXCEPT ![t] = "held"] /\ old' = [old EXCEPT ![t] = 0]
  /\ UNCHANGED << value, attr, sleepers, items, op, flags, pulses >>

(* A signal handler, or the timeout, ends the futex wait.                  *)
Interrupt(t) ==
  /\ F!FutexInterrupt(t)
  /\ UNCHANGED << value, attr, holder, items, calls, pulses >>

-----------------------------------------------------------------------------
(* android_pthread_cond_pulse                                              *)
PulseFlags(t) ==
  /\ pc[t] = "p_flags"
  /\ flags' = [flags EXCEPT ![t] = value % 2] /\ pc' = [pc EXCEPT ![t] = "p_load"]
  /\ UNCHANGED << value, attr, sleepers, holder, items, op, old, pulses >>

PulseLoad(t) ==
  /\ pc[t] = "p_load"
  /\ old' = [old EXCEPT ![t] = value] /\ pc' = [pc EXCEPT ![t] = "p_cas"]
  /\ UNCHANGED << value, attr, sleepers, holder, items, op, flags, pulses >>

(* (oldval - INCREMENT) & COUNTER_MASK | flags, in Width bits              *)
Pulsed(v, f) == ((((v - 2) \div 2) * 2) % (2^Width)) + f

PulseCas(t) ==
  /\ pc[t] = "p_cas"
  /\ IF value = old[t]
     THEN value' = Pulsed(old[t], flags[t]) /\ Goto(t, "p_wake")
     ELSE UNCHANGED value /\ Goto(t, "p_load")
  /\ UNCHANGED << attr, sleepers, holder, items, pulses >>

(* Mutant: nobody is woken.                                                *)
PulseWakeNobody(t) ==
  /\ pc[t] = "p_wake" /\ UNCHANGED sleepers
  /\ IF op[t][2] = "after unlock" THEN Back(t) ELSE Goto(t, "unlock")
  /\ UNCHANGED << value, attr, holder, items, pulses >>

PulseWake(t) ==
  /\ pc[t] = "p_wake"
  /\ IF op[t][1] = "broadcast" THEN F!FutexWakeAll(t) ELSE F!FutexWakeOne(t)
  /\ IF op[t][2] = "after unlock" THEN Back(t) ELSE Goto(t, "unlock")
  /\ UNCHANGED << value, attr, holder, items, pulses >>

-----------------------------------------------------------------------------
Manage == (\E a \in Attrs : SetAttr(a)) \/ DestroyCond \/ InitCond

Inside(t) ==
  \/ Unlock(t) \/ Put(t) \/ Take(t)
  \/ WaitBegin(t) \/ WaitUnlock(t) \/ WaitSleep(t) \/ WaitLock(t)
  \/ PulseFlags(t) \/ PulseLoad(t) \/ PulseCas(t) \/ PulseWake(t)

Next ==
  \/ Manage
  \/ \E t \in Threads : \/ \E o \in Puts \cup Takes : CallLock(t, o)
                        \/ WaitExpired(t) \/ Interrupt(t) \/ Inside(t)

Spec == Init /\ [][Next]_vars

(* Every step inside the library is taken in the end, and a client that    *)
(* holds the mutex goes on.                                                *)
Fairness == \A t \in Threads : WF_vars(Inside(t))

-----------------------------------------------------------------------------
TypeOK ==
  /\ value \in 0 .. 2^Width - 1 \cup {DeadCond} /\ attr \in Attrs
  /\ sleepers \subseteq { t \in Threads : pc[t] = "w_lock" }
  /\ holder \in Threads \cup {NoOwner} /\ items \in 0 .. MaxPulses
  /\ pulses \in 0 .. MaxPulses
  /\ op \in [Threads -> Puts \cup Takes \cup {None}]

(* No wake-up is lost between the unlock of a waiter and its futex call: a *)
(* thread that sleeps while the mailbox holds an item has somebody awake   *)
(* who will take it, or who will wake a sleeper.                           *)
NobodyForgotten ==
  (sleepers # {} /\ items > 0) =>
    \E t \in Threads \ sleepers :
      \/ pc[t] \in {"p_flags", "p_load", "p_cas", "p_wake"}
      \/ pc[t] = "unlock" /\ op[t] \in Puts /\ op[t][2] = "after unlock"
      \/ op[t] \in Takes /\ pc[t] # "unlock"

(* Items do not lie in the mailbox while threads sleep for them.           *)
SleepersServed == (sleepers # {} /\ items > 0) ~> (sleepers = {} \/ items = 0)
=============================================================================
