------------------------------ MODULE Semaphore ------------------------------
(***************************************************************************)
(* android_semaphore.c on Linux: one sem->count, used by a set of threads, *)
(* at the grain of its reads, compare-and-exchanges and futex calls.  The  *)
(* shared flag of the count is the constant Shared.                        *)
(***************************************************************************)
EXTENDS Integers, Futex

CONSTANTS
  SEM_MAX,    (* ANDROID_SEM_MAX_VALUE                                     *)
  NoUnits,    (* what a destroyed semaphore holds                          *)
  MaxGiven    (* bound: no post begins once `given` has reached it         *)

ASSUME SemMaxAssumption == SEM_MAX \in Nat \ {0}
ASSUME NoUnitsAssumption == NoUnits \notin Nat
ASSUME MaxGivenAssumption == MaxGiven \in Nat

VARIABLES
  count,      (* the value of sem->count                                   *)
  alive,      (* initialised and not destroyed                             *)
  pc,         (* where each thread is inside the library                   *)
  op,         (* the call it is executing                                  *)
  old,        (* its local `old`                                           *)
  given,      (* history: the initial value and the successful posts       *)
  taken       (* history: the successful waits                             *)

calls == << pc, op, old >>
vars  == << count, alive, calls, given, taken, sleepers >>

Waits == {"wait", "timedwait", "trywait"}
Pcs == {"idle", "dec_ld", "dec", "sleep", "try_ld", "try", "clock", "inc_ld",
        "inc", "wake"}

Init ==
  /\ count \in 0 .. SEM_MAX
  /\ alive = TRUE
  /\ pc = [t \in Threads |-> "idle"]
  /\ op = [t \in Threads |-> "none"]
  /\ old = [t \in Threads |-> 0]
  /\ given = count
  /\ taken = 0
  /\ sleepers = {}

Goto(t, l) == pc' = [pc EXCEPT ![t] = l] /\ UNCHANGED << op, old >>
LoadAndGoto(t, l) ==
  /\ pc' = [pc EXCEPT ![t] = l]
  /\ old' = [old EXCEPT ![t] = count]
  /\ UNCHANGED op
Return(t) ==
  /\ pc' = [pc EXCEPT ![t] = "idle"]
  /\ op' = [op EXCEPT ![t] = "none"]
  /\ old' = [old EXCEPT ![t] = 0]
Call(t, o, l) ==
  /\ alive /\ pc[t] = "idle"
  /\ pc' = [pc EXCEPT ![t] = l]
  /\ op' = [op EXCEPT ![t] = o]
  /\ UNCHANGED << old, count, alive, given, taken, sleepers >>

-----------------------------------------------------------------------------
CallWait(t)      == Call(t, "wait", "dec_ld")
CallTimedWait(t) == Call(t, "timedwait", "try_ld")
CallTryWait(t)   == Call(t, "trywait", "try_ld")
CallPost(t)      == given < MaxGiven /\ Call(t, "post", "inc_ld")

(* sem_destroy, called when no thread is using the semaphore but a poster  *)
(* that has already posted may still be inside; a count of -1 is EBUSY.    *)
DestroySem(t) ==
  /\ alive /\ \A u \in Threads : pc[u] \in {"idle", "wake"}
  /\ pc[t] = "idle" /\ count >= 0
  /\ count' = 0 /\ alive' = FALSE
  /\ UNCHANGED << calls, given, taken, sleepers >>

InitSem(t) ==
  /\ ~alive /\ pc[t] = "idle"
  /\ count' \in 0 .. SEM_MAX /\ alive' = TRUE
  /\ given' = count' /\ taken' = 0
  /\ UNCHANGED << calls, sleepers >>

-----------------------------------------------------------------------------
Take(t) == count' = count - 1 /\ taken' = taken + 1 /\ Return(t)

(* __android_sem_dec: a count of 0 becomes -1 and one of -1 is left alone; *)
(* either way the caller goes to sleep.                                    *)
DecLoad(t) ==
  /\ pc[t] = "dec_ld" /\ t \notin sleepers
  /\ LoadAndGoto(t, IF count < 0 THEN "sleep" ELSE "dec")
  /\ UNCHANGED << count, alive, given, taken, sleepers >>

(* Mutant: the caller takes a unit that is not there.                      *)
DecCasZero(t) ==
  /\ pc[t] = "dec"
  /\ IF count # old[t]
     THEN Goto(t, "dec_ld") /\ UNCHANGED << count, taken >>
     ELSE Take(t)
  /\ UNCHANGED << alive, given, sleepers >>

DecCas(t) ==
  /\ pc[t] = "dec"
  /\ IF count # old[t]
     THEN Goto(t, "dec_ld") /\ UNCHANGED << count, taken >>
     ELSE IF old[t] > 0
     THEN Take(t)
     ELSE count' = count - 1 /\ Goto(t, "sleep") /\ UNCHANGED taken
  /\ UNCHANGED << alive, given, sleepers >>

(* sem_wait and sem_timedwait loop whatever futex_wait returned: it gives  *)
(* -1 and errno, never -ETIMEDOUT or -EINTR.                               *)
Sleep(t) ==
  /\ pc[t] = "sleep"
  /\ FutexWait(t, count, -1)
  /\ Goto(t, IF op[t] = "wait" THEN "dec_ld" ELSE "clock")
  /\ UNCHANGED << count, alive, given, taken >>

(* sem_timedwait looks at the clock before each try: the time is over (or  *)
(* the time it was given is no time), or it goes on.                       *)
Clock(t) ==
  /\ pc[t] = "clock" /\ t \notin sleepers
  /\ Goto(t, "dec_ld") \/ Return(t)
  /\ UNCHANGED << count, alive, given, taken, sleepers >>

(* __android_sem_trydec                                                    *)
TryLoad(t) ==
  /\ pc[t] = "try_ld"
  /\ IF count > 0 THEN LoadAndGoto(t, "try")
     ELSE IF op[t] = "trywait" THEN Return(t) ELSE Goto(t, "clock")
  /\ UNCHANGED << count, alive, given, taken, sleepers >>

TryCas(t) ==
  /\ pc[t] = "try"
  /\ IF count # old[t]
     THEN Goto(t, "try_ld") /\ UNCHANGED << count, taken >>
     ELSE Take(t)
  /\ UNCHANGED << alive, given, sleepers >>

(* __android_sem_inc: a full semaphore is EOVERFLOW.                       *)
IncLoad(t) ==
  /\ pc[t] = "inc_ld"
  /\ IF count = SEM_MAX THEN Return(t) ELSE LoadAndGoto(t, "inc")
  /\ UNCHANGED << count, alive, given, taken, sleepers >>

(* Mutant: -1 is counted up to 0, as any other value.                      *)
IncCasPlain(t) ==
  /\ pc[t] = "inc"
  /\ IF count # old[t]
     THEN Goto(t, "inc_ld") /\ UNCHANGED << count, given >>
     ELSE /\ count' = count + 1 /\ given' = given + 1
          /\ IF old[t] < 0 THEN Goto(t, "wake") ELSE Return(t)
  /\ UNCHANGED << alive, taken, sleepers >>

(* A contended semaphore goes directly to 1, and everybody is woken.       *)
IncCas(t) ==
  /\ pc[t] = "inc"
  /\ IF count # old[t]
     THEN Goto(t, "inc_ld") /\ UNCHANGED << count, given >>
     ELSE /\ count' = IF old[t] < 0 THEN 1 ELSE count + 1
          /\ given' = given + 1
          /\ IF old[t] < 0 THEN Goto(t, "wake") ELSE Return(t)
  /\ UNCHANGED << alive, taken, sleepers >>

(* Mutants: one sleeper is woken; nobody is.                               *)
WakeOnlyOne(t) ==
  /\ pc[t] = "wake"
  /\ FutexWakeOne(t)
  /\ Return(t)
  /\ UNCHANGED << count, alive, given, taken >>

WakeNobody(t) ==
  /\ pc[t] = "wake"
  /\ Return(t)
  /\ UNCHANGED << count, alive, given, taken, sleepers >>

WakeAll(t) ==
  /\ pc[t] = "wake"
  /\ FutexWakeAll(t)
  /\ Return(t)
  /\ UNCHANGED << count, alive, given, taken >>

(* A signal, or the timeout of sem_timedwait, ends the futex wait.         *)
Interrupt(t) ==
  /\ FutexInterrupt(t)
  /\ UNCHANGED << count, alive, calls, given, taken >>

-----------------------------------------------------------------------------
Enter(t) ==
  \/ CallWait(t) \/ CallTimedWait(t) \/ CallTryWait(t) \/ CallPost(t)
  \/ DestroySem(t) \/ InitSem(t)

Inside(t) ==
  \/ DecLoad(t) \/ DecCas(t) \/ Sleep(t) \/ Clock(t) \/ TryLoad(t) \/ TryCas(t)
  \/ IncLoad(t) \/ IncCas(t) \/ WakeAll(t)

Next == \E t \in Threads : Enter(t) \/ Inside(t) \/ Interrupt(t)

Spec == Init /\ [][Next]_vars

(* The system schedules every thread that can run.                         *)
FairSpec == Spec /\ \A t \in Threads : WF_vars(Inside(t))

-----------------------------------------------------------------------------
(* The units that can be taken: -1 means none, and that somebody waits.    *)
Units == IF count < 0 THEN 0 ELSE count

TypeOK ==
  /\ count \in -1 .. SEM_MAX
  /\ alive \in BOOLEAN
  /\ pc \in [Threads -> Pcs]
  /\ op \in [Threads -> Waits \cup {"post", "none"}]
  /\ old \in [Threads -> -1 .. SEM_MAX]
  /\ given \in Nat /\ taken \in Nat
  /\ sleepers \subseteq Threads

(* Units are conserved: what the semaphore was given and has not handed    *)
(* out is there to be taken, through timeouts, interrupts, failed tries,   *)
(* refused posts and the jump from -1 to 1.                                *)
Conservation == alive => given = taken + Units

(* No lost wake-up: while a thread sleeps the count says so, or a poster   *)
(* is between its post and its wake of everybody.                          *)
SleepersHaveRescuer ==
  sleepers # {} => count = -1 \/ \E t \in Threads : pc[t] = "wake"

(* Nobody keeps sleeping on a unit: the sleepers are woken or the unit is  *)
(* taken by another thread.                                                *)
NoSleeperMissesAUnit ==
  (sleepers # {} /\ count > 0) ~> (sleepers = {} \/ count <= 0)

(* What the semaphore implements.                                          *)
Abstract == INSTANCE AbstractSemaphore
              WITH MaxUnits <- SEM_MAX,
                   units <- IF alive THEN Units ELSE NoUnits
ImplementsSemaphore == Abstract!Spec
=============================================================================
