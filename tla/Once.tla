-------------------------------- MODULE Once --------------------------------
(***************************************************************************)
(* android_pthread_once: one control word, its atomic accesses and futex   *)
(* calls.  The bits of the word are ONCE_INITIALIZING (1) and              *)
(* ONCE_COMPLETED (2).                                                     *)
(***************************************************************************)
EXTENDS Integers, Futex

CONSTANT Nobody

VARIABLES
  control,    (* *once_control                                             *)
  pc,         (* where each thread is inside pthread_once                  *)
  old,        (* its local `oldval`                                        *)
  passed      (* history: somebody returned without running the routine    *)

vars == << control, pc, old, passed, sleepers >>

INITIALIZING == 1
COMPLETED == 2
Pcs == {"idle", "ld", "cas", "wait", "init", "wake"}

Init ==
  /\ control = 0
  /\ pc = [t \in Threads |-> "idle"]
  /\ old = [t \in Threads |-> 0]
  /\ passed = FALSE
  /\ sleepers = {}

Goto(t, l) == pc' = [pc EXCEPT ![t] = l] /\ UNCHANGED old
Return(t) ==
  /\ pc' = [pc EXCEPT ![t] = "idle"]
  /\ old' = [old EXCEPT ![t] = 0]
Pass(t) == passed' = TRUE /\ Return(t)

(* The read at the head: a completed word is all a caller needs to see.    *)
CallOnce(t) ==
  /\ pc[t] = "idle"
  /\ IF control = COMPLETED THEN Pass(t) ELSE Goto(t, "ld") /\ UNCHANGED passed
  /\ UNCHANGED << control, sleepers >>

Load(t) ==
  /\ pc[t] = "ld" /\ t \notin sleepers
  /\ IF control = COMPLETED THEN Pass(t)
     ELSE /\ pc' = [pc EXCEPT ![t] = "cas"]
          /\ old' = [old EXCEPT ![t] = control]
          /\ UNCHANGED passed
  /\ UNCHANGED << control, sleepers >>

(* An exchange that finds the bit set already changes nothing, and its     *)
(* thread waits.                                                           *)
Cas(t) ==
  /\ pc[t] = "cas"
  /\ IF control # old[t] THEN Goto(t, "ld") /\ UNCHANGED control
     ELSE /\ control' = INITIALIZING
          /\ Goto(t, IF old[t] = INITIALIZING THEN "wait" ELSE "init")
  /\ UNCHANGED << passed, sleepers >>

Wait(t) ==
  /\ pc[t] = "wait"
  /\ FutexWait(t, control, old[t])
  /\ Goto(t, "ld")
  /\ UNCHANGED << control, passed >>

(* The routine returns.                                                    *)
Complete(t) ==
  /\ pc[t] = "init"
  /\ control' = COMPLETED /\ Goto(t, "wake")
  /\ UNCHANGED << passed, sleepers >>

(* Mutant: the wake of one, as for a mutex.                                *)
WakeOnlyOne(t) ==
  /\ pc[t] = "wake"
  /\ FutexWakeOne(t) /\ Return(t)
  /\ UNCHANGED << control, passed >>

WakeAll(t) ==
  /\ pc[t] = "wake"
  /\ FutexWakeAll(t) /\ Return(t)
  /\ UNCHANGED << control, passed >>

(* A signal ends the futex wait.                                           *)
Interrupt(t) ==
  /\ FutexInterrupt(t)
  /\ UNCHANGED << control, pc, old, passed >>

Inside(t) ==
  Load(t) \/ Cas(t) \/ Wait(t) \/ Complete(t) \/ WakeAll(t)

Next == \E t \in Threads : CallOnce(t) \/ Inside(t) \/ Interrupt(t)

Spec == Init /\ [][Next]_vars

-----------------------------------------------------------------------------
TypeOK ==
  /\ control \in {0, INITIALIZING, COMPLETED}
  /\ pc \in [Threads -> Pcs]
  /\ old \in [Threads -> {0, INITIALIZING}]
  /\ passed \in BOOLEAN
  /\ sleepers \subseteq Threads

Running == { t \in Threads : pc[t] = "init" }

(* A sleeper will be woken: by the thread that is running the routine, or  *)
(* by one that has run it and has its wake still to do.                    *)
SleepersHaveRescuer ==
  sleepers # {} => \E t \in Threads : pc[t] \in {"init", "wake"}

(* pthread_once is one-time initialisation.                                *)
Abstract == INSTANCE AbstractOnce
              WITH done <- control = COMPLETED,
                   runner <- IF Running = {} THEN Nobody
                             ELSE CHOOSE t \in Threads : pc[t] = "init"
ImplementsOnce == Abstract!Spec
=============================================================================
