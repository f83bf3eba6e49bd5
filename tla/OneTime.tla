------------------------------ MODULE OneTime ------------------------------
(***************************************************************************)
(* The two ways a loaded library initialises something once, used by the   *)
(* same threads: a function-local static whose constructor may call        *)
(* pthread_once.  Both words are private to the process.                   *)
(***************************************************************************)
EXTENDS Integers

CONSTANTS
  Threads,    (* the threads of the process                                *)
  Nobody,     (* no thread                                                 *)
  MaxAborts   (* bound: how often the constructor throws                   *)

ASSUME NobodyAssumption == Nobody \notin Threads
ASSUME AbortsAssumption == MaxAborts \in Nat

VARIABLES
  control, oncePc, old, oncePassed, onceSleepers,     (* see Once          *)
  guard, guardPc, aborts, guardPassed, guardSleepers  (* see CxaGuard      *)

onceVars  == << control, oncePc, old, oncePassed, onceSleepers >>
guardVars == << guard, guardPc, aborts, guardPassed, guardSleepers >>
vars == << onceVars, guardVars >>

SameProcess == [t \in Threads |-> 1]

O == INSTANCE Once
       WITH Shared <- FALSE, ProcessOf <- SameProcess, pc <- oncePc,
            passed <- oncePassed, sleepers <- onceSleepers
G == INSTANCE CxaGuard
       WITH Shared <- FALSE, ProcessOf <- SameProcess, state <- guard,
            pc <- guardPc, passed <- guardPassed, sleepers <- guardSleepers

Init == O!Init /\ G!Init

(* A thread calls pthread_once from outside or from the constructor, which *)
(* ends when it is not inside pthread_once.                                *)
Call(t) ==
  \/ guardPc[t] \in {"idle", "run"} /\ O!CallOnce(t) /\ UNCHANGED guardVars
  \/ oncePc[t] = "idle" /\ G!CallAcquire(t) /\ UNCHANGED onceVars

Inside(t) ==
  \/ O!Inside(t) /\ UNCHANGED guardVars
  \/ G!Inside(t) /\ UNCHANGED onceVars
  \/ oncePc[t] = "idle" /\ G!Constructed(t) /\ UNCHANGED onceVars

Interrupt(t) ==
  \/ O!Interrupt(t) /\ UNCHANGED guardVars
  \/ G!Interrupt(t) /\ UNCHANGED onceVars

Next == \E t \in Threads : Call(t) \/ Inside(t) \/ Interrupt(t)

Spec == Init /\ [][Next]_vars

(* The system schedules every thread that can run, and init routines and   *)
(* constructors end.                                                       *)
FairSpec == Spec /\ \A t \in Threads : WF_vars(Inside(t))

-----------------------------------------------------------------------------
TypeOK == O!TypeOK /\ G!TypeOK

(* No lost wake-up on either word.                                         *)
SleepersHaveRescuer == O!SleepersHaveRescuer /\ G!SleepersHaveRescuer

(* pthread_once and the guards are one-time initialisation: one run at a   *)
(* time, nobody passes before it has finished, no run after that.          *)
ImplementsOneTime == O!ImplementsOnce /\ G!ImplementsOnce

(* Everybody who calls pthread_once or acquires the guard comes back, when *)
(* constructors do not throw for ever, also with calls nested.             *)
CallersReleased ==
  \A t \in Threads :
    /\ oncePc[t] # "idle" ~> oncePc[t] = "idle"
    /\ guardPc[t] # "idle" ~> guardPc[t] = "idle"
=============================================================================
