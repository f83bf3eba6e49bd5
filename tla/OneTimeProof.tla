---------------------------- MODULE OneTimeProof ----------------------------
(***************************************************************************)
(* The safety of pthread_once and of the C++ guards for every set of       *)
(* threads and every number of throwing constructors.                      *)
(***************************************************************************)
EXTENDS OneTime, TLAPS

(* The routine runs while the word says so, in one thread; only a thread   *)
(* that saw it running waits.                                              *)
OnceInv ==
  /\ O!TypeOK
  /\ oncePassed => control = O!COMPLETED
  /\ control = O!INITIALIZING => \E t \in Threads : oncePc[t] = "init"
  /\ \A t \in Threads : oncePc[t] = "init" => control = O!INITIALIZING
  /\ \A t, u \in Threads : oncePc[t] = "init" /\ oncePc[u] = "init" => t = u
  /\ \A t \in Threads : oncePc[t] = "wait" => old[t] = O!INITIALIZING
  /\ \A t \in onceSleepers : oncePc[t] = "ld"

(* The same for the guard, whose runner is at "store" once it has seen     *)
(* that somebody waits.                                                    *)
GuardInv ==
  /\ G!TypeOK
  /\ guardPassed => guard = "ready"
  /\ guard \in G!Busy => G!Running # {}
  /\ \A t \in Threads : guardPc[t] = "run" => guard \in G!Busy
  /\ \A t \in Threads : guardPc[t] = "store" => guard = "waiting"
  /\ \A t, u \in G!Running : t = u
  /\ \A t \in guardSleepers : guardPc[t] = "check"

IInv == OnceInv /\ GuardInv

-----------------------------------------------------------------------------
(* A word that nobody has touched is not being initialised.                *)
LEMMA InitIInv == Init => IInv
<1> SUFFICES ASSUME Init PROVE OnceInv /\ GuardInv
  BY DEF IInv
<1>1. O!TypeOK
  BY DEF Init, O!Init, O!TypeOK, O!Pcs
<1>2. G!TypeOK
  <2>1. aborts \in 0 .. MaxAborts
    BY AbortsAssumption DEF Init, G!Init
  <2> QED BY <2>1 DEF Init, G!Init, G!TypeOK, G!Pcs, G!States
<1>3. ~oncePassed /\ ~guardPassed
  BY Zenon DEF Init, O!Init, G!Init
<1>4. OnceInv
  <2>1. /\ control = 0 /\ onceSleepers = {}
        /\ \A t \in Threads : oncePc[t] = "idle"
    BY DEF Init, O!Init
  <2> QED BY <1>1, <1>3, <2>1 DEF OnceInv, O!INITIALIZING
<1>5. GuardInv
  <2>1. /\ guard = "zero" /\ guardSleepers = {}
        /\ \A t \in Threads : guardPc[t] = "idle"
    BY DEF Init, G!Init
  <2> QED BY <1>2, <1>3, <2>1 DEF GuardInv, G!Busy, G!Running
<1> QED BY <1>4, <1>5

(* Every step on the word of pthread_once keeps what is known of it: the   *)
(* exchange that sets the bit is the only way into the routine.            *)
LEMMA OnceKeeps ==
  ASSUME OnceInv, NEW t \in Threads,
         O!CallOnce(t) \/ O!Inside(t) \/ O!Interrupt(t)
  PROVE  OnceInv'
<1> USE DEF OnceInv, O!TypeOK, O!Pcs, O!INITIALIZING, O!COMPLETED, O!Goto,
            O!Return, O!Pass
<1>1. CASE O!CallOnce(t)
  <2>1. CASE control = O!COMPLETED
    BY <1>1, <2>1 DEF O!CallOnce
  <2>2. CASE control # O!COMPLETED
    BY <1>1, <2>2 DEF O!CallOnce
  <2> QED BY <2>1, <2>2
<1>2. CASE O!Load(t)
  <2>1. CASE control = O!COMPLETED
    BY <1>2, <2>1 DEF O!Load
  <2>2. CASE control # O!COMPLETED
    BY <1>2, <2>2 DEF O!Load
  <2> QED BY <2>1, <2>2
<1>3. CASE O!Cas(t)
  BY <1>3 DEF O!Cas
<1>4. CASE O!Wait(t)
  BY <1>4 DEF O!Wait, O!FutexWait
<1>5. CASE O!Complete(t)
  BY <1>5 DEF O!Complete
<1>6. CASE O!WakeAll(t)
  BY <1>6 DEF O!WakeAll, O!FutexWakeAll, O!Wakeable
<1>7. CASE O!Interrupt(t)
  BY <1>7 DEF O!Interrupt, O!FutexInterrupt
<1> QED BY <1>1, <1>2, <1>3, <1>4, <1>5, <1>6, <1>7 DEF O!Inside

(* Every step on the guard keeps what is known of it.                      *)
LEMMA GuardKeeps ==
  ASSUME GuardInv, NEW t \in Threads,
         G!CallAcquire(t) \/ G!Inside(t) \/ G!Constructed(t) \/ G!Interrupt(t)
  PROVE  GuardInv'
<1> USE AbortsAssumption
    DEF GuardInv, G!TypeOK, G!Pcs, G!States, G!Busy, G!Running, G!Goto
<1>1. CASE G!CallAcquire(t)
  BY <1>1 DEF G!CallAcquire
<1>2. CASE G!AcquireCas(t)
  BY <1>2 DEF G!AcquireCas
<1>3. CASE G!AcquireMark(t)
  BY <1>3 DEF G!AcquireMark
<1>4. CASE G!AcquireWait(t)
  BY <1>4 DEF G!AcquireWait, G!FutexWait
<1>5. CASE G!AcquireCheck(t)
  BY ZenonT(30), <1>5 DEF G!AcquireCheck
<1>6. CASE G!ReleaseCas(t)
  BY <1>6 DEF G!ReleaseCas
<1>7. CASE G!ReleaseStore(t)
  BY <1>7 DEF G!ReleaseStore
<1>8. CASE G!AbortStore(t)
  BY <1>8 DEF G!AbortStore
<1>9. CASE G!WakeAll(t)
  BY <1>9 DEF G!WakeAll, G!FutexWakeAll, G!Wakeable
<1>10. CASE G!Interrupt(t)
  BY <1>10 DEF G!Interrupt, G!FutexInterrupt
<1> QED BY <1>1, <1>2, <1>3, <1>4, <1>5, <1>6, <1>7, <1>8, <1>9, <1>10
        DEF G!Inside, G!Constructed

(* The two words are changed by different steps.                           *)
LEMMA NextSplits ==
  ASSUME Next
  PROVE  \E t \in Threads :
           /\ \/ O!CallOnce(t) \/ O!Inside(t) \/ O!Interrupt(t)
              \/ UNCHANGED onceVars
           /\ \/ G!CallAcquire(t) \/ G!Inside(t) \/ G!Constructed(t)
              \/ G!Interrupt(t) \/ UNCHANGED guardVars
BY Zenon DEF Next, Call, Inside, Interrupt

(* The invariant is inductive.                                             *)
LEMMA NextKeeps == IInv /\ [Next]_vars => IInv'
<1> SUFFICES ASSUME IInv, [Next]_vars PROVE IInv'
  OBVIOUS
<1>1. CASE UNCHANGED onceVars /\ UNCHANGED guardVars
  BY <1>1 DEF IInv, OnceInv, GuardInv, onceVars, guardVars, O!TypeOK, G!TypeOK,
              G!Running
<1>2. CASE Next
  <2>1. PICK t \in Threads :
           /\ \/ O!CallOnce(t) \/ O!Inside(t) \/ O!Interrupt(t)
              \/ UNCHANGED onceVars
           /\ \/ G!CallAcquire(t) \/ G!Inside(t) \/ G!Constructed(t)
              \/ G!Interrupt(t) \/ UNCHANGED guardVars
    BY <1>2, NextSplits
  <2>2. OnceInv'
    <3>1. CASE UNCHANGED onceVars
      BY <3>1 DEF IInv, OnceInv, onceVars, O!TypeOK
    <3> QED BY <2>1, <3>1, OnceKeeps DEF IInv
  <2>3. GuardInv'
    <3>1. CASE UNCHANGED guardVars
      BY <3>1 DEF IInv, GuardInv, guardVars, G!TypeOK, G!Running
    <3> QED BY <2>1, <3>1, GuardKeeps DEF IInv
  <2> QED BY <2>2, <2>3 DEF IInv
<1> QED BY <1>1, <1>2 DEF vars

-----------------------------------------------------------------------------
(* The inductive invariant holds in every reachable state.                 *)
THEOREM Invariance == Spec => []IInv
BY InitIInv, NextKeeps, PTL DEF Spec

(* Both words keep the values their functions know; a throwing constructor *)
(* puts the guard back.                                                    *)
THEOREM TypeCorrect == Spec => []TypeOK
<1>1. IInv => TypeOK
  BY DEF IInv, OnceInv, GuardInv, TypeOK
<1> QED BY <1>1, Invariance, PTL

-----------------------------------------------------------------------------
(* A caller that sleeps has seen the routine run, and the thread that runs *)
(* it wakes everybody.                                                     *)
LEMMA OnceRescue ==
  ASSUME OnceInv, O!SleepersHaveRescuer, NEW t \in Threads,
         O!CallOnce(t) \/ O!Inside(t) \/ O!Interrupt(t)
  PROVE  O!SleepersHaveRescuer'
<1> USE DEF OnceInv, O!TypeOK, O!SleepersHaveRescuer, O!Goto, O!Return, O!Pass
<1>1. CASE O!CallOnce(t)
  BY <1>1 DEF O!CallOnce
<1>2. CASE O!Load(t)
  BY <1>2 DEF O!Load
<1>3. CASE O!Cas(t)
  BY <1>3 DEF O!Cas
<1>4. CASE O!Wait(t)
  <2>1. CASE control = old[t]
    <3>1. control = O!INITIALIZING
      BY <1>4, <2>1 DEF O!Wait
    <3> QED BY <1>4, <3>1 DEF O!Wait
  <2>2. CASE control # old[t]
    BY <1>4, <2>2 DEF O!Wait, O!FutexWait
  <2> QED BY <2>1, <2>2
<1>5. CASE O!Complete(t)
  BY <1>5 DEF O!Complete
<1>6. CASE O!WakeAll(t)
  BY <1>6 DEF O!WakeAll, O!FutexWakeAll, O!Wakeable, O!SameKey
<1>7. CASE O!Interrupt(t)
  BY <1>7 DEF O!Interrupt, O!FutexInterrupt
<1> QED BY <1>1, <1>2, <1>3, <1>4, <1>5, <1>6, <1>7 DEF O!Inside

(* A waiting guard is left only by its runner, who goes on to its wake.    *)
LEMMA GuardRescue ==
  ASSUME GuardInv, G!SleepersHaveRescuer, NEW t \in Threads,
         G!CallAcquire(t) \/ G!Inside(t) \/ G!Constructed(t) \/ G!Interrupt(t)
  PROVE  G!SleepersHaveRescuer'
<1> USE DEF GuardInv, G!TypeOK, G!SleepersHaveRescuer, G!Goto, G!Running, G!Busy
<1>1. CASE G!CallAcquire(t)
  BY <1>1 DEF G!CallAcquire
<1>2. CASE G!AcquireCas(t)
  BY <1>2 DEF G!AcquireCas
<1>3. CASE G!AcquireMark(t)
  BY <1>3 DEF G!AcquireMark
<1>4. CASE G!AcquireWait(t)
  BY <1>4 DEF G!AcquireWait, G!FutexWait
<1>5. CASE G!AcquireCheck(t)
  BY <1>5 DEF G!AcquireCheck
<1>6. CASE G!ReleaseCas(t)
  BY <1>6 DEF G!ReleaseCas
<1>7. CASE G!ReleaseStore(t)
  BY <1>7 DEF G!ReleaseStore
<1>8. CASE G!AbortStore(t)
  BY <1>8 DEF G!AbortStore
<1>9. CASE G!WakeAll(t)
  BY <1>9 DEF G!WakeAll, G!FutexWakeAll, G!Wakeable, G!SameKey
<1>10. CASE G!Interrupt(t)
  BY <1>10 DEF G!Interrupt, G!FutexInterrupt
<1> QED BY <1>1, <1>2, <1>3, <1>4, <1>5, <1>6, <1>7, <1>8, <1>9, <1>10
        DEF G!Inside, G!Constructed

(* No lost wake-up: whoever sleeps on either word sleeps while somebody is *)
(* inside who will wake everybody.                                         *)
THEOREM NoLostWakeUp == Spec => []SleepersHaveRescuer
<1>1. Init => SleepersHaveRescuer
  BY DEF Init, O!Init, G!Init, SleepersHaveRescuer, O!SleepersHaveRescuer,
         G!SleepersHaveRescuer
<1>2. IInv /\ SleepersHaveRescuer /\ [Next]_vars => SleepersHaveRescuer'
  <2> SUFFICES ASSUME IInv, SleepersHaveRescuer, [Next]_vars
               PROVE  SleepersHaveRescuer'
    OBVIOUS
  <2>1. CASE UNCHANGED onceVars /\ UNCHANGED guardVars
    BY <2>1 DEF SleepersHaveRescuer, O!SleepersHaveRescuer,
                G!SleepersHaveRescuer, G!Running, onceVars, guardVars
  <2>2. CASE Next
    <3>1. PICK t \in Threads :
             /\ \/ O!CallOnce(t) \/ O!Inside(t) \/ O!Interrupt(t)
                \/ UNCHANGED onceVars
             /\ \/ G!CallAcquire(t) \/ G!Inside(t) \/ G!Constructed(t)
                \/ G!Interrupt(t) \/ UNCHANGED guardVars
      BY <2>2, NextSplits
    <3>2. O!SleepersHaveRescuer'
      <4>1. CASE UNCHANGED onceVars
        BY <4>1 DEF SleepersHaveRescuer, O!SleepersHaveRescuer, onceVars
      <4> QED BY <3>1, <4>1, OnceRescue DEF IInv, SleepersHaveRescuer
    <3>3. G!SleepersHaveRescuer'
      <4>1. CASE UNCHANGED guardVars
        BY <4>1 DEF SleepersHaveRescuer, G!SleepersHaveRescuer, G!Running,
                    guardVars
      <4> QED BY <3>1, <4>1, GuardRescue DEF IInv, SleepersHaveRescuer
    <3> QED BY <3>2, <3>3 DEF SleepersHaveRescuer
  <2> QED BY <2>1, <2>2 DEF vars
<1> QED BY <1>1, <1>2, Invariance, PTL DEF Spec

-----------------------------------------------------------------------------
(* The abstract runner of each word.                                       *)
OnceRunner == IF O!Running = {} THEN Nobody
              ELSE CHOOSE t \in Threads : oncePc[t] = "init"
GuardRunner == IF G!Running = {} THEN Nobody
               ELSE CHOOSE t \in Threads : guardPc[t] \in {"run", "store"}

RunnerFacts ==
  /\ \A t \in Threads : oncePc[t] = "init" => OnceRunner = t
  /\ control # O!INITIALIZING => OnceRunner = Nobody
  /\ \A t \in Threads : guardPc[t] \in {"run", "store"} => GuardRunner = t
  /\ guard \notin G!Busy => GuardRunner = Nobody

(* The abstract runner is the one thread inside the routine.               *)
LEMMA RunnersAre == IInv => RunnerFacts
<1> SUFFICES ASSUME IInv PROVE RunnerFacts
  OBVIOUS
<1>1. ASSUME NEW t \in Threads, oncePc[t] = "init"
      PROVE  OnceRunner = t
  <2>1. t \in O!Running
    BY <1>1 DEF O!Running
  <2>2. \A u \in Threads : oncePc[u] = "init" => u = t
    BY <1>1, Zenon DEF IInv, OnceInv
  <2> QED BY <1>1, <2>1, <2>2 DEF OnceRunner
<1>2. ASSUME NEW t \in Threads, guardPc[t] \in {"run", "store"}
      PROVE  GuardRunner = t
  <2>1. t \in G!Running
    BY <1>2 DEF G!Running
  <2>2. \A u \in Threads : guardPc[u] \in {"run", "store"} => u = t
    BY <2>1 DEF IInv, GuardInv, G!Running
  <2> QED BY <1>2, <2>1, <2>2 DEF GuardRunner
<1>3. control # O!INITIALIZING => OnceRunner = Nobody
  BY DEF IInv, OnceInv, OnceRunner, O!Running
<1>4. guard \notin G!Busy => GuardRunner = Nobody
  BY DEF IInv, GuardInv, GuardRunner, G!Running, G!Busy
<1> QED BY <1>1, <1>2, <1>3, <1>4 DEF RunnerFacts

(* A step on the word of pthread_once starts a run, finishes one, lets a   *)
(* caller pass, or is invisible.                                           *)
LEMMA OnceStep ==
  ASSUME IInv, IInv', NEW t \in Threads,
         O!CallOnce(t) \/ O!Inside(t) \/ O!Interrupt(t)
  PROVE  [O!Abstract!Next]_(O!Abstract!onceVars)
<1> USE DEF O!Abstract!Next, O!Abstract!onceVars, O!INITIALIZING, O!COMPLETED
<1>r. RunnerFacts /\ RunnerFacts'
  BY RunnersAre, PTL
<1>0. /\ oncePc \in [Threads -> O!Pcs] /\ control \in {0, 1, 2}
      /\ old \in [Threads -> {0, 1}]
  BY DEF IInv, OnceInv, O!TypeOK
<1>1. CASE control = 2 /\ control' = 2
  <2>1. OnceRunner = Nobody /\ OnceRunner' = Nobody
    BY <1>1, <1>r DEF RunnerFacts
  <2>2. oncePassed' = TRUE \/ oncePassed' = oncePassed
    BY DEF O!CallOnce, O!Inside, O!Load, O!Cas, O!Wait, O!Complete, O!WakeAll,
           O!Interrupt, O!Pass
  <2> QED BY <1>1, <2>1, <2>2 DEF O!Abstract!Pass, OnceRunner
<1>2. CASE /\ control' = control /\ oncePassed' = oncePassed
           /\ \A u \in Threads : oncePc'[u] = "init" <=> oncePc[u] = "init"
  <2>1. OnceRunner' = OnceRunner
    <3>1. CASE \E u \in Threads : oncePc[u] = "init"
      BY <1>2, <3>1, <1>r DEF RunnerFacts
    <3>2. CASE ~ \E u \in Threads : oncePc[u] = "init"
      BY <1>2, <3>2 DEF OnceRunner, O!Running
    <3> QED BY <3>1, <3>2
  <2> QED BY <1>2, <2>1 DEF OnceRunner
<1>3. CASE /\ control = 0 /\ control' = 1 /\ oncePassed' = oncePassed
           /\ oncePc'[t] = "init"
  <2>1. OnceRunner = Nobody /\ OnceRunner' = t
    BY <1>3, <1>r DEF RunnerFacts
  <2> QED BY <1>3, <2>1 DEF O!Abstract!Start, OnceRunner
<1>4. CASE /\ control' = 2 /\ oncePc[t] = "init" /\ oncePassed' = oncePassed
  <2>1. OnceRunner = t /\ OnceRunner' = Nobody
    BY <1>4, <1>r DEF RunnerFacts
  <2> QED BY <1>4, <2>1, NobodyAssumption DEF O!Abstract!Finish, OnceRunner
<1>5. CASE O!CallOnce(t) \/ O!Load(t) \/ O!Wait(t) \/ O!WakeAll(t) \/ O!Interrupt(t)
  <2>1. \/ control = 2 /\ control' = 2
        \/ /\ control' = control /\ oncePassed' = oncePassed
           /\ \E l \in O!Pcs \ {"init"} : oncePc' = [oncePc EXCEPT ![t] = l]
           /\ oncePc[t] # "init"
        \/ control' = control /\ oncePassed' = oncePassed /\ oncePc' = oncePc
    BY <1>5 DEF O!CallOnce, O!Load, O!Wait, O!WakeAll, O!Interrupt, O!Pass,
                O!Goto, O!Return, O!Pcs
  <2> QED BY <1>0, <1>1, <1>2, <2>1
<1>6. CASE O!Cas(t)
  <2>1. CASE control # old[t] \/ old[t] = 1
    <3>1. /\ control' = control /\ oncePassed' = oncePassed
          /\ \E l \in {"ld", "wait"} : oncePc' = [oncePc EXCEPT ![t] = l]
          /\ oncePc[t] = "cas"
      BY <1>6, <2>1 DEF O!Cas, O!Goto
    <3> QED BY <1>0, <1>2, <3>1
  <2>2. CASE control = old[t] /\ old[t] # 1
    BY <1>0, <1>3, <1>6, <2>2 DEF O!Cas, O!Goto
  <2> QED BY <2>1, <2>2
<1>7. CASE O!Complete(t)
  BY <1>4, <1>7 DEF O!Complete
<1> QED BY <1>5, <1>6, <1>7 DEF O!Inside

(* The same of a step on the guard, where a run may also be given up.      *)
LEMMA GuardStep ==
  ASSUME IInv, IInv', NEW t \in Threads,
         G!CallAcquire(t) \/ G!Inside(t) \/ G!Constructed(t) \/ G!Interrupt(t)
  PROVE  [G!Abstract!Next]_(G!Abstract!onceVars)
<1> USE DEF G!Abstract!Next, G!Abstract!onceVars
<1>r. RunnerFacts /\ RunnerFacts'
  BY RunnersAre, PTL
<1>0. guardPc \in [Threads -> G!Pcs] /\ guard \in G!States
  BY DEF IInv, GuardInv, G!TypeOK
<1>1. CASE /\ guard = "ready" /\ guard' = "ready"
           /\ guardPassed' = TRUE \/ guardPassed' = guardPassed
  <2>1. GuardRunner = Nobody /\ GuardRunner' = Nobody
    BY <1>1, <1>r DEF RunnerFacts, G!Busy
  <2> QED BY <1>1, <2>1 DEF G!Abstract!Pass, GuardRunner
<1>2. CASE /\ (guard' = "ready") = (guard = "ready")
           /\ guardPassed' = guardPassed
           /\ \A u \in Threads : guardPc'[u] \in {"run", "store"}
                                   <=> guardPc[u] \in {"run", "store"}
  <2>1. GuardRunner' = GuardRunner
    <3>1. CASE \E u \in Threads : guardPc[u] \in {"run", "store"}
      BY <1>2, <3>1, <1>r DEF RunnerFacts
    <3>2. CASE ~ \E u \in Threads : guardPc[u] \in {"run", "store"}
      BY <1>2, <3>2 DEF GuardRunner, G!Running
    <3> QED BY <3>1, <3>2
  <2> QED BY <1>2, <2>1 DEF GuardRunner
<1>3. CASE G!CallAcquire(t) \/ G!AcquireMark(t) \/ G!AcquireWait(t)
           \/ G!WakeAll(t) \/ G!Interrupt(t)
  <2>1. /\ (guard' = "ready") = (guard = "ready") /\ guardPassed' = guardPassed
        /\ \/ guardPc' = guardPc
           \/ /\ guardPc[t] \notin {"run", "store"}
              /\ \E l \in {"idle", "cas", "wait", "check"} :
                   guardPc' = [guardPc EXCEPT ![t] = l]
    BY <1>3 DEF G!CallAcquire, G!AcquireMark, G!AcquireWait, G!WakeAll,
                G!Interrupt, G!Goto
  <2> QED BY <1>0, <1>2, <2>1
<1>4. CASE G!AcquireCas(t)
  <2>1. CASE guard = "zero"
    <3>1. /\ guard' = "pending" /\ guardPc'[t] = "run"
          /\ guardPassed' = guardPassed
      BY <1>0, <1>4, <2>1 DEF G!AcquireCas, G!Goto
    <3>2. GuardRunner = Nobody /\ GuardRunner' = t
      BY <2>1, <3>1, <1>r DEF RunnerFacts, G!Busy
    <3> QED BY <2>1, <3>1, <3>2 DEF G!Abstract!Start, GuardRunner
  <2>2. CASE guard # "zero"
    BY <1>0, <1>2, <1>4, <2>2 DEF G!AcquireCas, G!Goto
  <2> QED BY <2>1, <2>2
<1>5. CASE G!AcquireCheck(t)
  <2>1. CASE guard = "ready"
    BY <1>1, <1>5, <2>1 DEF G!AcquireCheck
  <2>2. CASE guard # "ready"
    BY <1>0, <1>2, <1>5, <2>2 DEF G!AcquireCheck, G!Goto
  <2> QED BY <2>1, <2>2
<1>6. ASSUME guardPc[t] \in {"run", "store"}, guard' = "ready",
             guardPassed' = guardPassed
      PROVE  G!Abstract!Next
  <2>1. GuardRunner = t /\ GuardRunner' = Nobody
    BY <1>6, <1>r DEF RunnerFacts, G!Busy
  <2> QED BY <1>6, <2>1, NobodyAssumption DEF G!Abstract!Finish, GuardRunner
<1>7. CASE G!ReleaseCas(t)
  <2>1. CASE guard = "pending"
    BY <1>6, <1>7, <2>1 DEF G!ReleaseCas
  <2>2. CASE guard # "pending"
    BY <1>0, <1>2, <1>7, <2>2 DEF G!ReleaseCas, G!Goto
  <2> QED BY <2>1, <2>2
<1>8. CASE G!ReleaseStore(t)
  BY <1>6, <1>8 DEF G!ReleaseStore
<1>9. CASE G!AbortStore(t)
  <2>1. guardPc[t] = "run" /\ guard' = "zero" /\ guardPassed' = guardPassed
    BY <1>9 DEF G!AbortStore
  <2>2. GuardRunner = t /\ GuardRunner' = Nobody
    BY <2>1, <1>r DEF RunnerFacts, G!Busy
  <2>3. guard # "ready"
    BY <2>1 DEF IInv, GuardInv, G!Busy
  <2> QED BY <2>1, <2>2, <2>3, NobodyAssumption DEF G!Abstract!GiveUp, GuardRunner
<1> QED BY <1>3, <1>4, <1>5, <1>7, <1>8, <1>9 DEF G!Inside, G!Constructed

(* pthread_once and the guards are one-time initialisation: one run at a   *)
(* time, nobody passes before a run has finished, no run after that.       *)
THEOREM OneTimeImplements == Spec => ImplementsOneTime
<1>1. Init => O!Abstract!Init /\ G!Abstract!Init
  BY DEF Init, O!Init, G!Init, O!Abstract!Init, G!Abstract!Init, O!Running,
         G!Running, O!COMPLETED
<1>2. IInv /\ IInv' /\ [Next]_vars
        => [O!Abstract!Next]_(O!Abstract!onceVars)
           /\ [G!Abstract!Next]_(G!Abstract!onceVars)
  <2> SUFFICES ASSUME IInv, IInv', [Next]_vars
               PROVE  /\ [O!Abstract!Next]_(O!Abstract!onceVars)
                      /\ [G!Abstract!Next]_(G!Abstract!onceVars)
    OBVIOUS
  <2>1. ASSUME UNCHANGED onceVars
        PROVE  [O!Abstract!Next]_(O!Abstract!onceVars)
    BY <2>1 DEF onceVars, O!Abstract!onceVars, O!Running
  <2>2. ASSUME UNCHANGED guardVars
        PROVE  [G!Abstract!Next]_(G!Abstract!onceVars)
    BY <2>2 DEF guardVars, G!Abstract!onceVars, G!Running
  <2>3. CASE UNCHANGED vars
    BY <2>1, <2>2, <2>3 DEF vars
  <2>4. CASE Next
    BY <2>1, <2>2, <2>4, NextSplits, OnceStep, GuardStep
  <2> QED BY <2>3, <2>4
<1> QED BY <1>1, <1>2, Invariance, PTL
        DEF Spec, ImplementsOneTime, O!ImplementsOnce, G!ImplementsOnce,
            O!Abstract!Spec, G!Abstract!Spec
=============================================================================
