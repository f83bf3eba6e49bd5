--------------------------- MODULE SemaphoreProof ---------------------------
(***************************************************************************)
(* The safety of android_semaphore.c for every set of threads and every    *)
(* maximum: units are conserved, the count stays in its field, a sleeper   *)
(* always has somebody who will wake it, and the abstract semaphore is     *)
(* implemented.                                                            *)
(***************************************************************************)
EXTENDS Semaphore, TLAPS

(* A wake reaches every thread that can be asleep.                         *)
OneAddressSpace == \A t, u \in Threads : SameKey(t, u)

(* A destroyed semaphore has no caller inside but posters about to wake.   *)
DeadInv == ~alive => \A t \in Threads : pc[t] \in {"idle", "wake"}

(* What a thread about to compare-and-exchange has read, and where it is   *)
(* when it sleeps.                                                         *)
LocalInv(t) ==
  /\ pc[t] = "dec" => old[t] >= 0
  /\ pc[t] = "try" => old[t] > 0
  /\ pc[t] = "inc" => old[t] < SEM_MAX
  /\ t \in sleepers => pc[t] \in {"dec_ld", "clock"}

IInv ==
  /\ TypeOK
  /\ Conservation
  /\ DeadInv
  /\ \A t \in Threads : LocalInv(t)

-----------------------------------------------------------------------------
(* The initial value of sem_init is the first thing a semaphore is given.  *)
LEMMA InitIInv == Init => IInv
BY SemMaxAssumption
   DEF Init, IInv, TypeOK, Conservation, Units, DeadInv, LocalInv, Pcs

(* Calls only move a thread to the head of a function; destroy and init    *)
(* happen when nobody is in one.                                           *)
LEMMA EnterKeeps ==
  ASSUME IInv, NEW t \in Threads, Enter(t)
  PROVE  IInv'
<1> USE SemMaxAssumption
<1>1. CASE \/ CallWait(t) \/ CallTimedWait(t) \/ CallTryWait(t) \/ CallPost(t)
  <2>1. /\ alive /\ UNCHANGED << old, count, alive, given, taken, sleepers >>
        /\ pc[t] = "idle"
        /\ \E o \in Waits \cup {"post"}, l \in {"dec_ld", "try_ld", "inc_ld"} :
             pc' = [pc EXCEPT ![t] = l] /\ op' = [op EXCEPT ![t] = o]
    BY <1>1 DEF CallWait, CallTimedWait, CallTryWait, CallPost, Call, Waits
  <2>2. TypeOK'
    BY <2>1 DEF IInv, TypeOK, Pcs
  <2>3. Conservation' /\ DeadInv'
    BY <2>1 DEF IInv, Conservation, Units, DeadInv
  <2>4. \A u \in Threads : LocalInv(u)'
    BY <2>1 DEF IInv, TypeOK, LocalInv
  <2> QED BY <2>2, <2>3, <2>4 DEF IInv
<1>2. CASE DestroySem(t)
  <2>0. /\ alive' = FALSE /\ count' = 0
        /\ UNCHANGED << pc, op, old, given, taken, sleepers >>
        /\ \A u \in Threads : pc[u] \in {"idle", "wake"}
    BY <1>2 DEF DestroySem, calls
  <2>1. TypeOK'
    <3>1. count' \in -1 .. SEM_MAX
      BY <2>0
    <3> QED BY <2>0, <3>1, Zenon DEF IInv, TypeOK
  <2>2. Conservation' /\ DeadInv'
    BY <2>0, Zenon DEF Conservation, DeadInv
  <2>3. \A u \in Threads : LocalInv(u)'
    BY <2>0 DEF IInv, LocalInv
  <2> QED BY <2>1, <2>2, <2>3 DEF IInv
<1>3. CASE InitSem(t)
  <2>0. /\ alive' = TRUE /\ count' \in 0 .. SEM_MAX
        /\ given' = count' /\ taken' = 0
        /\ UNCHANGED << pc, op, old, sleepers >>
    BY <1>3 DEF InitSem, calls
  <2>1. TypeOK'
    <3>1. count' \in -1 .. SEM_MAX /\ given' \in Nat /\ taken' \in Nat
      BY <2>0
    <3> QED BY <2>0, <3>1, Zenon DEF IInv, TypeOK
  <2>2. Conservation' /\ DeadInv'
    <3>1. given' = taken' + Units'
      <4>1. \A n \in 0 .. SEM_MAX : n = 0 + (IF n < 0 THEN 0 ELSE n)
        OBVIOUS
      <4>2. Units' = IF count' < 0 THEN 0 ELSE count'
        BY DEF Units
      <4> QED BY <2>0, <4>1, <4>2, Zenon
    <3>2. alive'
      BY <2>0
    <3> QED BY <3>1, <3>2, Zenon DEF Conservation, DeadInv
  <2>3. \A u \in Threads : LocalInv(u)'
    BY <2>0 DEF IInv, LocalInv
  <2> QED BY <2>1, <2>2, <2>3 DEF IInv
<1> QED BY <1>1, <1>2, <1>3 DEF Enter

(* What moving a thread to label l, or out of the library, does to the     *)
(* threads' part of the state.                                             *)
Moved(t, l) == Goto(t, l) \/ LoadAndGoto(t, l) \/ Return(t)

(* The locals keep their types, and the other threads theirs.              *)
LEMMA Moves ==
  ASSUME TypeOK, NEW t \in Threads, NEW l \in Pcs, Moved(t, l)
  PROVE  /\ pc' \in [Threads -> Pcs]
         /\ op' \in [Threads -> Waits \cup {"post", "none"}]
         /\ old' \in [Threads -> -1 .. SEM_MAX]
         /\ \A u \in Threads \ {t} : pc'[u] = pc[u] /\ old'[u] = old[u]
         /\ Goto(t, l) => pc'[t] = l /\ old'[t] = old[t]
         /\ LoadAndGoto(t, l) => pc'[t] = l /\ old'[t] = count
         /\ Return(t) => pc'[t] = "idle"
BY SemMaxAssumption DEF TypeOK, Moved, Goto, LoadAndGoto, Return, Pcs

(* A step of one thread keeps the invariant if it keeps the numbers right  *)
(* and the thread's own part of it: the other threads are not disturbed.   *)
LEMMA StepKeeps ==
  ASSUME IInv, NEW t \in Threads, NEW l \in Pcs, Moved(t, l),
         alive' = alive, alive \/ Return(t),
         count' \in -1 .. SEM_MAX, given' \in Nat, taken' \in Nat,
         alive => given' = taken' + Units',
         sleepers' \subseteq sleepers \cup {t},
         LocalInv(t)'
  PROVE  IInv'
<1>1. TypeOK'
  <2>1. alive' \in BOOLEAN /\ sleepers' \subseteq Threads /\ TypeOK
    BY Zenon DEF IInv, TypeOK
  <2> QED BY <2>1, Moves, Zenon DEF TypeOK
<1>2. Conservation'
  BY Zenon DEF Conservation
<1>3. DeadInv'
  <2>1. \A u \in Threads : pc'[u] = pc[u] \/ (u = t /\ (Return(t) => pc'[t] = "idle"))
    BY Moves DEF IInv
  <2> QED BY <2>1, Zenon DEF IInv, DeadInv
<1>4. ASSUME NEW u \in Threads \ {t} PROVE LocalInv(u)'
  <2>1. pc'[u] = pc[u] /\ old'[u] = old[u] /\ LocalInv(u)
    BY Moves DEF IInv
  <2> QED BY <2>1, Zenon DEF LocalInv
<1> QED BY <1>1, <1>2, <1>3, <1>4, Zenon DEF IInv

(* A thread inside a wait or at the head of a post keeps the semaphore     *)
(* alive.                                                                  *)
LEMMA InsideAlive ==
  ASSUME IInv, NEW t \in Threads, pc[t] \notin {"idle", "wake"}
  PROVE  alive /\ given = taken + Units
BY Zenon DEF IInv, DeadInv, Conservation

-----------------------------------------------------------------------------
(* Every step inside the library keeps the invariant: only the four        *)
(* compare-and-exchanges change the count.                                 *)
LEMMA InsideKeeps ==
  ASSUME IInv, NEW t \in Threads, Inside(t)
  PROVE  IInv'
<1> USE SemMaxAssumption
<1>t. TypeOK /\ LocalInv(t)
  BY DEF IInv
<1>1. CASE DecLoad(t)
  <2> DEFINE l == IF count < 0 THEN "sleep" ELSE "dec"
  <2>1. /\ LoadAndGoto(t, l) /\ t \notin sleepers /\ pc[t] = "dec_ld"
        /\ UNCHANGED << count, alive, given, taken, sleepers >>
    BY <1>1 DEF DecLoad
  <2>2. l \in Pcs /\ Moved(t, l) /\ alive /\ given = taken + Units
    BY <2>1, InsideAlive DEF Moved, Pcs
  <2>3. pc'[t] = l /\ old'[t] = count
    BY <2>1, <2>2, Moves, <1>t
  <2>4. LocalInv(t)'
    BY <2>1, <2>3, <1>t DEF LocalInv, TypeOK
  <2>5. Units' = Units
    BY <2>1 DEF Units
  <2> HIDE DEF l
  <2> QED BY <2>1, <2>2, <2>4, <2>5, <1>t, StepKeeps DEF TypeOK
<1>2. CASE DecCas(t)
  <2>1. /\ pc[t] = "dec" /\ old[t] >= 0 /\ alive /\ given = taken + Units
        /\ UNCHANGED << alive, given, sleepers >> /\ t \notin sleepers
    BY <1>2, <1>t, InsideAlive DEF DecCas, LocalInv
  <2>2. CASE count # old[t]
    <3>1. Goto(t, "dec_ld") /\ UNCHANGED << count, taken >>
      BY <1>2, <2>2 DEF DecCas
    <3>2. Moved(t, "dec_ld") /\ "dec_ld" \in Pcs
      BY <3>1 DEF Moved, Pcs
    <3>3. pc'[t] = "dec_ld"
      BY <3>1, <3>2, Moves, <1>t
    <3>4. LocalInv(t)' /\ Units' = Units
      BY <2>1, <3>1, <3>3 DEF LocalInv, Units
    <3> QED BY <2>1, <3>1, <3>2, <3>4, <1>t, StepKeeps DEF TypeOK
  <2>3. CASE count = old[t] /\ old[t] > 0
    <3>1. Take(t) /\ Return(t)
      BY <1>2, <2>3 DEF DecCas, Take
    <3>2. Moved(t, "idle") /\ "idle" \in Pcs
      BY <3>1 DEF Moved, Pcs
    <3>3. pc'[t] = "idle"
      BY <3>1, <3>2, Moves, <1>t
    <3>4. LocalInv(t)'
      BY <2>1, <3>3 DEF LocalInv
    <3>5. /\ count' \in -1 .. SEM_MAX /\ given' = taken' + Units'
          /\ given' \in Nat /\ taken' \in Nat
      BY <2>1, <2>3, <3>1, <1>t DEF Take, Units, TypeOK
    <3> QED BY <2>1, <3>1, <3>2, <3>4, <3>5, StepKeeps
  <2>4. CASE count = old[t] /\ ~(old[t] > 0)
    <3>1. count' = count - 1 /\ Goto(t, "sleep") /\ UNCHANGED taken
      BY <1>2, <2>4 DEF DecCas
    <3>2. Moved(t, "sleep") /\ "sleep" \in Pcs
      BY <3>1 DEF Moved, Pcs
    <3>3. pc'[t] = "sleep"
      BY <3>1, <3>2, Moves, <1>t
    <3>4. LocalInv(t)'
      BY <2>1, <3>3 DEF LocalInv
    <3>5. /\ count' \in -1 .. SEM_MAX /\ given' = taken' + Units'
          /\ given' \in Nat /\ taken' \in Nat
      BY <2>1, <2>4, <3>1, <1>t DEF Units, TypeOK
    <3> QED BY <2>1, <3>1, <3>2, <3>4, <3>5, StepKeeps
  <2> QED BY <2>2, <2>3, <2>4
<1>3. CASE Sleep(t)
  <2> DEFINE l == IF op[t] = "wait" THEN "dec_ld" ELSE "clock"
  <2>1. /\ Goto(t, l) /\ pc[t] = "sleep" /\ alive /\ given = taken + Units
        /\ UNCHANGED << count, alive, given, taken >>
        /\ sleepers' \subseteq sleepers \cup {t}
    BY <1>3, InsideAlive DEF Sleep, FutexWait
  <2>2. l \in Pcs /\ Moved(t, l) /\ l \in {"dec_ld", "clock"}
    BY <2>1 DEF Moved, Pcs
  <2> HIDE DEF l
  <2>3. pc'[t] = l
    BY <2>1, <2>2, Moves, <1>t
  <2>4. LocalInv(t)' /\ Units' = Units
    BY <2>1, <2>2, <2>3 DEF LocalInv, Units
  <2> QED BY <2>1, <2>2, <2>4, <1>t, StepKeeps DEF TypeOK
<1>4. CASE Clock(t)
  <2>1. /\ Goto(t, "dec_ld") \/ Return(t)
        /\ pc[t] = "clock" /\ t \notin sleepers /\ alive /\ given = taken + Units
        /\ UNCHANGED << count, alive, given, taken, sleepers >>
    BY <1>4, InsideAlive DEF Clock
  <2>2. "dec_ld" \in Pcs /\ Moved(t, "dec_ld")
    BY <2>1 DEF Moved, Pcs
  <2>3. pc'[t] \in {"dec_ld", "idle"}
    BY <2>1, <2>2, Moves, <1>t
  <2>4. LocalInv(t)' /\ Units' = Units
    BY <2>1, <2>3 DEF LocalInv, Units
  <2> QED BY <2>1, <2>2, <2>4, <1>t, StepKeeps DEF TypeOK
<1>5. CASE TryLoad(t)
  <2>1. /\ pc[t] = "try_ld" /\ alive /\ given = taken + Units /\ t \notin sleepers
        /\ UNCHANGED << count, alive, given, taken, sleepers >>
    BY <1>5, <1>t, InsideAlive DEF TryLoad, LocalInv
  <2>2. PICK l \in {"try", "clock"} : Moved(t, l) /\ (l = "try" => LoadAndGoto(t, "try") /\ count > 0)
    BY <1>5 DEF TryLoad, Moved
  <2>3. l \in Pcs
    BY DEF Pcs
  <2>4. pc'[t] = "try" => old'[t] = count /\ count > 0
    BY <2>2, <2>3, Moves, <1>t DEF Moved
  <2>5. pc'[t] \in {"try", "clock", "idle"}
    BY <2>2, <2>3, Moves, <1>t DEF Moved
  <2>6. LocalInv(t)' /\ Units' = Units
    BY <2>1, <2>4, <2>5 DEF LocalInv, Units
  <2> QED BY <2>1, <2>2, <2>3, <2>6, <1>t, StepKeeps DEF TypeOK
<1>6. CASE TryCas(t)
  <2>1. /\ pc[t] = "try" /\ old[t] > 0 /\ alive /\ given = taken + Units
        /\ UNCHANGED << alive, given, sleepers >> /\ t \notin sleepers
    BY <1>6, <1>t, InsideAlive DEF TryCas, LocalInv
  <2>2. CASE count # old[t]
    <3>1. Goto(t, "try_ld") /\ UNCHANGED << count, taken >>
      BY <1>6, <2>2 DEF TryCas
    <3>2. Moved(t, "try_ld") /\ "try_ld" \in Pcs
      BY <3>1 DEF Moved, Pcs
    <3>3. pc'[t] = "try_ld"
      BY <3>1, <3>2, Moves, <1>t
    <3>4. LocalInv(t)' /\ Units' = Units
      BY <2>1, <3>1, <3>3 DEF LocalInv, Units
    <3> QED BY <2>1, <3>1, <3>2, <3>4, <1>t, StepKeeps DEF TypeOK
  <2>3. CASE count = old[t]
    <3>1. Take(t) /\ Return(t)
      BY <1>6, <2>3 DEF TryCas, Take
    <3>2. Moved(t, "idle") /\ "idle" \in Pcs
      BY <3>1 DEF Moved, Pcs
    <3>3. pc'[t] = "idle"
      BY <3>1, <3>2, Moves, <1>t
    <3>4. LocalInv(t)'
      BY <2>1, <3>3 DEF LocalInv
    <3>5. /\ count' \in -1 .. SEM_MAX /\ given' = taken' + Units'
          /\ given' \in Nat /\ taken' \in Nat
      BY <2>1, <2>3, <3>1, <1>t DEF Take, Units, TypeOK
    <3> QED BY <2>1, <3>1, <3>2, <3>4, <3>5, StepKeeps
  <2> QED BY <2>2, <2>3
<1>7. CASE IncLoad(t)
  <2>1. /\ pc[t] = "inc_ld" /\ alive /\ given = taken + Units /\ t \notin sleepers
        /\ UNCHANGED << count, alive, given, taken, sleepers >>
    BY <1>7, <1>t, InsideAlive DEF IncLoad, LocalInv
  <2>2. /\ Moved(t, "inc") /\ "inc" \in Pcs
        /\ Return(t) \/ (LoadAndGoto(t, "inc") /\ count # SEM_MAX)
    BY <1>7 DEF IncLoad, Moved, Pcs
  <2>3. pc'[t] = "idle" \/ (pc'[t] = "inc" /\ old'[t] = count /\ count # SEM_MAX)
    BY <2>2, Moves, <1>t
  <2>4. LocalInv(t)' /\ Units' = Units
    BY <2>1, <2>3, <1>t DEF LocalInv, Units, TypeOK
  <2> QED BY <2>1, <2>2, <2>4, <1>t, StepKeeps DEF TypeOK
<1>8. CASE IncCas(t)
  <2>1. /\ pc[t] = "inc" /\ old[t] < SEM_MAX /\ alive /\ given = taken + Units
        /\ UNCHANGED << alive, taken, sleepers >> /\ t \notin sleepers
    BY <1>8, <1>t, InsideAlive DEF IncCas, LocalInv
  <2>2. CASE count # old[t]
    <3>1. Goto(t, "inc_ld") /\ UNCHANGED << count, given >>
      BY <1>8, <2>2 DEF IncCas
    <3>2. Moved(t, "inc_ld") /\ "inc_ld" \in Pcs
      BY <3>1 DEF Moved, Pcs
    <3>3. pc'[t] = "inc_ld"
      BY <3>1, <3>2, Moves, <1>t
    <3>4. LocalInv(t)' /\ Units' = Units
      BY <2>1, <3>1, <3>3 DEF LocalInv, Units
    <3> QED BY <2>1, <3>1, <3>2, <3>4, <1>t, StepKeeps DEF TypeOK
  <2>3. CASE count = old[t]
    <3>1. /\ count' = IF old[t] < 0 THEN 1 ELSE count + 1
          /\ given' = given + 1
          /\ Moved(t, "wake") /\ "wake" \in Pcs
          /\ Goto(t, "wake") \/ Return(t)
      BY <1>8, <2>3 DEF IncCas, Moved, Pcs
    <3>3. pc'[t] \in {"wake", "idle"}
      BY <3>1, Moves, <1>t
    <3>4. LocalInv(t)'
      BY <2>1, <3>3 DEF LocalInv
    <3>5. /\ count' \in -1 .. SEM_MAX /\ given' = taken' + Units'
          /\ given' \in Nat /\ taken' \in Nat
      BY <2>1, <2>3, <3>1, <1>t DEF Units, TypeOK
    <3> QED BY <2>1, <3>1, <3>4, <3>5, StepKeeps
  <2> QED BY <2>2, <2>3
<1>9. CASE WakeAll(t)
  <2>1. /\ pc[t] = "wake" /\ Return(t) /\ t \notin sleepers
        /\ UNCHANGED << count, alive, given, taken >>
        /\ sleepers' \subseteq sleepers
    BY <1>9, <1>t DEF WakeAll, FutexWakeAll, LocalInv
  <2>2. "idle" \in Pcs /\ Moved(t, "idle")
    BY <2>1 DEF Moved, Pcs
  <2>3. pc'[t] = "idle"
    BY <2>1, <2>2, Moves, <1>t
  <2>4. LocalInv(t)' /\ Units' = Units
    BY <2>1, <2>3 DEF LocalInv, Units
  <2>5. alive => given = taken + Units
    BY Zenon DEF IInv, Conservation
  <2> QED BY <2>1, <2>2, <2>4, <2>5, <1>t, StepKeeps DEF TypeOK
<1> QED BY <1>1, <1>2, <1>3, <1>4, <1>5, <1>6, <1>7, <1>8, <1>9 DEF Inside

(* A signal or a timeout only takes a thread out of the kernel's queue.    *)
LEMMA InterruptKeeps ==
  ASSUME IInv, NEW t \in Threads, Interrupt(t)
  PROVE  IInv'
<1>1. /\ UNCHANGED << count, alive, pc, op, old, given, taken >>
      /\ sleepers' \subseteq sleepers
  BY DEF Interrupt, FutexInterrupt, calls
<1>2. TypeOK'
  BY <1>1, Zenon DEF IInv, TypeOK
<1>3. Conservation' /\ DeadInv'
  BY <1>1, Zenon DEF IInv, Conservation, DeadInv, Units
<1>4. \A u \in Threads : LocalInv(u)'
  BY <1>1, Zenon DEF IInv, LocalInv
<1> QED BY <1>2, <1>3, <1>4 DEF IInv

(* The invariant is inductive.                                             *)
LEMMA NextKeeps == IInv /\ [Next]_vars => IInv'
<1> SUFFICES ASSUME IInv, [Next]_vars PROVE IInv'
  OBVIOUS
<1>1. CASE UNCHANGED vars
  <2>1. UNCHANGED << count, alive, pc, op, old, given, taken, sleepers >>
    BY <1>1 DEF vars, calls
  <2>2. TypeOK' /\ Conservation' /\ DeadInv'
    BY <2>1, Zenon DEF IInv, TypeOK, Conservation, DeadInv, Units
  <2>3. \A u \in Threads : LocalInv(u)'
    BY <2>1, Zenon DEF IInv, LocalInv
  <2> QED BY <2>2, <2>3 DEF IInv
<1>2. CASE Next
  BY <1>2, EnterKeeps, InsideKeeps, InterruptKeeps DEF Next
<1> QED BY <1>1, <1>2

-----------------------------------------------------------------------------
(* The inductive invariant holds in every reachable state.                 *)
THEOREM Invariance == Spec => []IInv
BY InitIInv, NextKeeps, PTL DEF Spec

(* The count never leaves its field: posts stop at the maximum and waits   *)
(* at -1, whatever happened between a thread's read and its exchange.      *)
THEOREM TypeCorrect == Spec => []TypeOK
<1>1. IInv => TypeOK
  BY DEF IInv
<1> QED BY <1>1, Invariance, PTL

(* No unit is lost, invented or handed out twice by sem_wait, _trywait,    *)
(* _timedwait and _post, in any interleaving.                              *)
THEOREM UnitsConserved == Spec => []Conservation
<1>1. IInv => Conservation
  BY DEF IInv
<1> QED BY <1>1, Invariance, PTL

-----------------------------------------------------------------------------
(* A thread that wakes nobody keeps every rescuer in place, so it may do   *)
(* anything but raise the count from -1 without going on to its wake.      *)
LEMMA RescueKept ==
  ASSUME IInv, SleepersHaveRescuer, NEW t \in Threads, NEW l \in Pcs,
         Moved(t, l), pc[t] # "wake", sleepers' \subseteq sleepers,
         count = -1 => count' = -1 \/ pc'[t] = "wake"
  PROVE  SleepersHaveRescuer'
<1>1. \A u \in Threads : pc[u] = "wake" => pc'[u] = "wake"
  BY Moves DEF IInv
<1> QED BY <1>1, Zenon DEF SleepersHaveRescuer

(* Inside the library only the wake of everybody takes a rescuer away, and *)
(* it leaves no sleeper.                                                   *)
LEMMA RescueInside ==
  ASSUME OneAddressSpace, IInv, SleepersHaveRescuer, NEW t \in Threads, Inside(t)
  PROVE  SleepersHaveRescuer'
<1>t. TypeOK /\ LocalInv(t)
  BY DEF IInv
<1>1. CASE DecLoad(t) \/ Clock(t) \/ TryLoad(t) \/ IncLoad(t)
  <2>1. /\ UNCHANGED << count, sleepers >> /\ pc[t] # "wake"
        /\ \E l \in Pcs : Moved(t, l)
    BY <1>1 DEF DecLoad, Clock, TryLoad, IncLoad, Moved, Pcs
  <2> QED BY <2>1, RescueKept
<1>2. CASE DecCas(t) \/ TryCas(t)
  <2>1. /\ UNCHANGED sleepers /\ pc[t] # "wake"
        /\ \E l \in Pcs : Moved(t, l)
    BY <1>2 DEF DecCas, TryCas, Take, Moved, Pcs
  <2>2. count = -1 => count' = -1
    BY <1>2, <1>t DEF DecCas, TryCas, LocalInv
  <2> QED BY <2>1, <2>2, RescueKept
<1>3. CASE IncCas(t)
  <2>1. /\ UNCHANGED sleepers /\ pc[t] # "wake"
        /\ \/ Goto(t, "inc_ld") /\ UNCHANGED count
           \/ Goto(t, "wake")
           \/ Return(t) /\ ~(count < 0)
    BY <1>3 DEF IncCas
  <2>2. CASE Goto(t, "inc_ld") /\ UNCHANGED count
    BY <2>1, <2>2, RescueKept DEF Moved, Pcs
  <2>3. CASE Goto(t, "wake")
    <3>1. Moved(t, "wake") /\ "wake" \in Pcs
      BY <2>3 DEF Moved, Pcs
    <3>2. pc'[t] = "wake"
      BY <2>3, <3>1, <1>t, Moves
    <3> QED BY <2>1, <3>1, <3>2, RescueKept
  <2>4. CASE Return(t) /\ ~(count < 0)
    <3>1. Moved(t, "idle") /\ "idle" \in Pcs /\ count # -1
      BY <2>4 DEF Moved, Pcs
    <3> QED BY <2>1, <3>1, RescueKept
  <2> QED BY <2>1, <2>2, <2>3, <2>4
<1>4. CASE Sleep(t)
  <2>1. CASE count = -1
    BY <1>4, <2>1 DEF Sleep, SleepersHaveRescuer
  <2>2. CASE count # -1
    <3>1. /\ UNCHANGED << count, sleepers >> /\ pc[t] # "wake"
          /\ \E l \in Pcs : Moved(t, l)
      BY <1>4, <2>2 DEF Sleep, FutexWait, Moved, Pcs
    <3> QED BY <3>1, RescueKept
  <2> QED BY <2>1, <2>2
<1>5. CASE WakeAll(t)
  <2>1. sleepers' = {}
    BY <1>5, <1>t DEF WakeAll, FutexWakeAll, Wakeable, OneAddressSpace, TypeOK
  <2> QED BY <2>1 DEF SleepersHaveRescuer
<1> QED BY <1>1, <1>2, <1>3, <1>4, <1>5 DEF Inside

(* A call, a signal or a timeout takes no rescuer away.                    *)
LEMMA RescueOutside ==
  ASSUME IInv, SleepersHaveRescuer, NEW t \in Threads, Enter(t) \/ Interrupt(t)
  PROVE  SleepersHaveRescuer'
<1>1. CASE CallWait(t) \/ CallTimedWait(t) \/ CallTryWait(t) \/ CallPost(t)
  <2>1. /\ UNCHANGED << count, sleepers >> /\ pc[t] = "idle"
        /\ \A u \in Threads \ {t} : pc'[u] = pc[u]
    BY <1>1 DEF CallWait, CallTimedWait, CallTryWait, CallPost, Call, IInv, TypeOK
  <2> QED BY <2>1 DEF SleepersHaveRescuer
<1>2. CASE DestroySem(t) \/ InitSem(t)
  <2>1. \A u \in Threads : pc[u] \in {"idle", "wake"}
    BY <1>2, Zenon DEF DestroySem, InitSem, IInv, DeadInv
  <2>2. sleepers = {}
    BY <2>1 DEF IInv, LocalInv, TypeOK
  <2> QED BY <1>2, <2>2 DEF DestroySem, InitSem, SleepersHaveRescuer
<1>3. CASE Interrupt(t)
  BY <1>3 DEF Interrupt, FutexInterrupt, calls, SleepersHaveRescuer
<1> QED BY <1>1, <1>2, <1>3 DEF Enter

(* No lost wake-up, whenever a wake reaches every user of the semaphore:   *)
(* in between -1 and the wake of everybody no sleeper is forgotten.        *)
THEOREM NoLostWakeUp == OneAddressSpace => (Spec => []SleepersHaveRescuer)
<1> SUFFICES ASSUME OneAddressSpace PROVE Spec => []SleepersHaveRescuer
  OBVIOUS
<1>1. Init => SleepersHaveRescuer
  BY DEF Init, SleepersHaveRescuer
<1>2. IInv /\ SleepersHaveRescuer /\ [Next]_vars => SleepersHaveRescuer'
  <2>1. CASE UNCHANGED vars
    BY <2>1 DEF vars, calls, SleepersHaveRescuer
  <2>2. CASE Next
    BY <2>2, RescueInside, RescueOutside DEF Next
  <2> QED BY <2>1, <2>2
<1> QED BY <1>1, <1>2, Invariance, PTL DEF Spec

-----------------------------------------------------------------------------
(* What the successful exchanges do to the numbers, and that all other     *)
(* steps leave them alone.                                                 *)
LEMMA NumbersStep ==
  ASSUME IInv, NEW t \in Threads, Inside(t)
  PROVE  \/ UNCHANGED << count, alive, given, taken >>
         \/ /\ count = 0 /\ count' = -1
            /\ UNCHANGED << alive, given, taken >>
         \/ /\ alive /\ count > 0 /\ count' = count - 1 /\ taken' = taken + 1
            /\ UNCHANGED << alive, given >>
         \/ /\ alive /\ count < SEM_MAX /\ given' = given + 1
            /\ count' = (IF count < 0 THEN 1 ELSE count + 1)
            /\ UNCHANGED << alive, taken >>
<1>1. CASE \/ DecLoad(t) \/ Sleep(t) \/ Clock(t) \/ TryLoad(t) \/ IncLoad(t)
           \/ WakeAll(t)
  BY <1>1 DEF DecLoad, Sleep, Clock, TryLoad, IncLoad, WakeAll
<1>2. CASE DecCas(t)
  <2>1. alive /\ old[t] >= 0 /\ old[t] \in -1 .. SEM_MAX
    BY <1>2, InsideAlive DEF DecCas, IInv, LocalInv, TypeOK
  <2> QED BY <1>2, <2>1, SemMaxAssumption DEF DecCas, Take
<1>3. CASE TryCas(t)
  <2>1. alive /\ old[t] > 0
    BY <1>3, InsideAlive DEF TryCas, IInv, LocalInv
  <2> QED BY <1>3, <2>1 DEF TryCas, Take
<1>4. CASE IncCas(t)
  <2>1. alive /\ old[t] < SEM_MAX
    BY <1>4, InsideAlive DEF IncCas, IInv, LocalInv
  <2> QED BY <1>4, <2>1 DEF IncCas
<1> QED BY <1>1, <1>2, <1>3, <1>4 DEF Inside

(* The semaphore of the code behaves as the abstract one: units are given  *)
(* and taken one at a time, within the maximum, and only while it exists.  *)
THEOREM SemaphoreImplements == Spec => ImplementsSemaphore
<1> DEFINE u == IF alive THEN Units ELSE NoUnits
<1>1. Init => Abstract!Init
  BY SemMaxAssumption DEF Init, Units, Abstract!Init
<1>2. ASSUME IInv, [Next]_vars
      PROVE  [Abstract!Next]_(Abstract!semVars)
  <2> USE DEF Abstract!semVars
  <2>0. count \in -1 .. SEM_MAX /\ SEM_MAX \in Nat \ {0}
    BY <1>2, SemMaxAssumption DEF IInv, TypeOK
  <2>1. CASE UNCHANGED << count, alive, given, taken >>
    BY <2>1 DEF Units
  <2>2. CASE count = 0 /\ count' = -1 /\ UNCHANGED << alive, given, taken >>
    BY <2>2 DEF Units
  <2>3. CASE /\ alive /\ count > 0 /\ count' = count - 1 /\ taken' = taken + 1
             /\ UNCHANGED << alive, given >>
    <3>1. u = count /\ u' = count - 1
      BY <2>0, <2>3 DEF Units
    <3> QED BY <2>0, <2>3, <3>1 DEF Abstract!Next, Abstract!Take
  <2>4. CASE /\ alive /\ count < SEM_MAX /\ given' = given + 1
             /\ count' = (IF count < 0 THEN 1 ELSE count + 1)
             /\ UNCHANGED << alive, taken >>
    <3>1. u \in 0 .. SEM_MAX - 1 /\ u' = u + 1
      BY <2>0, <2>4 DEF Units
    <3> QED BY <2>4, <3>1 DEF Abstract!Next, Abstract!Give
  <2>5. ASSUME NEW t \in Threads, DestroySem(t)
        PROVE  Abstract!Next
    <3>1. u # NoUnits
      BY <2>0, <2>5, NoUnitsAssumption DEF DestroySem, Units
    <3>2. alive' = FALSE
      BY <2>5 DEF DestroySem
    <3>3. u' = NoUnits
      BY <3>2
    <3> QED BY <2>5, <3>1, <3>3 DEF DestroySem, Abstract!Next, Abstract!Destroy
  <2>6. ASSUME NEW t \in Threads, InitSem(t)
        PROVE  Abstract!Next
    <3>1. u = NoUnits
      BY <2>6 DEF InitSem
    <3>2. alive' = TRUE /\ count' \in 0 .. SEM_MAX /\ given' = count' /\ taken' = 0
      BY <2>6 DEF InitSem
    <3>3. u' = count'
      BY <2>0, <3>2 DEF Units
    <3> QED BY <3>1, <3>2, <3>3 DEF Abstract!Next, Abstract!Create
  <2>7. CASE UNCHANGED vars
    BY <2>1, <2>7 DEF vars
  <2>8. CASE Next
    <3>1. PICK t \in Threads : Enter(t) \/ Inside(t) \/ Interrupt(t)
      BY <2>8 DEF Next
    <3>2. CASE Inside(t)
      BY <1>2, <3>2, <2>1, <2>2, <2>3, <2>4, NumbersStep
    <3>3. CASE Interrupt(t)
      BY <3>3, <2>1 DEF Interrupt
    <3>4. CASE Enter(t)
      BY <3>4, <2>1, <2>5, <2>6
         DEF Enter, CallWait, CallTimedWait, CallTryWait, CallPost, Call
    <3> QED BY <3>1, <3>2, <3>3, <3>4
  <2> QED BY <1>2, <2>7, <2>8
<1> QED BY <1>1, <1>2, Invariance, PTL DEF Spec, ImplementsSemaphore, Abstract!Spec
=============================================================================
