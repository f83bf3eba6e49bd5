------------------------------ MODULE CxaGuard ------------------------------
(***************************************************************************)
(* android_cxa_guard.c: the guard of one function-local static object, its *)
(* atomic accesses and futex calls.                                        *)
(***************************************************************************)
EXTENDS Integers, Futex

CONSTANTS
  Nobody,
  MaxAborts   (* bound: how often the constructor throws                   *)

VARIABLES
  state,      (* gv->state                                                 *)
  pc,         (* where each thread is; "run" is the object's constructor   *)
  aborts,     (* how often the constructor has thrown                      *)
  passed      (* history: an acquire has returned 0                        *)

vars == << state, pc, aborts, passed, sleepers >>

Busy == {"pending", "waiting"}
States == Busy \cup {"zero", "ready"}
Pcs == {"idle", "cas", "mark", "wait", "check", "run", "store", "wake"}

Init ==
  /\ state = "zero"
  /\ pc = [t \in Threads |-> "idle"]
  /\ aborts = 0
  /\ passed = FALSE
  /\ sleepers = {}

Goto(t, l) == pc' = [pc EXCEPT ![t] = l]

CallAcquire(t) ==
  /\ pc[t] = "idle"
  /\ Goto(t, "cas")
  /\ UNCHANGED << state, aborts, passed, sleepers >>

AcquireCas(t) ==
  /\ pc[t] = "cas"
  /\ IF state = "zero" THEN state' = "pending" /\ Goto(t, "run")
     ELSE Goto(t, "mark") /\ UNCHANGED state
  /\ UNCHANGED << aborts, passed, sleepers >>

(* The result of this exchange is not looked at.                           *)
AcquireMark(t) ==
  /\ pc[t] = "mark"
  /\ state' = IF state = "pending" THEN "waiting" ELSE state
  /\ Goto(t, "wait")
  /\ UNCHANGED << aborts, passed, sleepers >>

AcquireWait(t) ==
  /\ pc[t] = "wait"
  /\ FutexWait(t, state, "waiting")
  /\ Goto(t, "check")
  /\ UNCHANGED << state, aborts, passed >>

(* Mutant: whoever is woken takes the object to be constructed.            *)
AcquireCheckNone(t) ==
  /\ pc[t] = "check" /\ t \notin sleepers
  /\ Goto(t, "idle") /\ passed' = TRUE
  /\ UNCHANGED << state, aborts, sleepers >>

AcquireCheck(t) ==
  /\ pc[t] = "check" /\ t \notin sleepers
  /\ IF state = "ready" THEN Goto(t, "idle") /\ passed' = TRUE
     ELSE Goto(t, "cas") /\ UNCHANGED passed
  /\ UNCHANGED << state, aborts, sleepers >>

(* Mutant: a waiting guard is made ready and nobody told.                  *)
ReleaseQuiet(t) ==
  /\ pc[t] = "run"
  /\ state' = "ready" /\ Goto(t, "idle")
  /\ UNCHANGED << aborts, passed, sleepers >>

ReleaseCas(t) ==
  /\ pc[t] = "run"
  /\ IF state = "pending" THEN state' = "ready" /\ Goto(t, "idle")
     ELSE Goto(t, "store") /\ UNCHANGED state
  /\ UNCHANGED << aborts, passed, sleepers >>

ReleaseStore(t) ==
  /\ pc[t] = "store"
  /\ state' = "ready" /\ Goto(t, "wake")
  /\ UNCHANGED << aborts, passed, sleepers >>

(* The constructor threw.                                                  *)
AbortStore(t) ==
  /\ pc[t] = "run" /\ aborts < MaxAborts
  /\ state' = "zero" /\ Goto(t, "wake")
  /\ aborts' = aborts + 1
  /\ UNCHANGED << passed, sleepers >>

WakeAll(t) ==
  /\ pc[t] = "wake"
  /\ FutexWakeAll(t) /\ Goto(t, "idle")
  /\ UNCHANGED << state, aborts, passed >>

(* A signal ends the futex wait.                                           *)
Interrupt(t) ==
  /\ FutexInterrupt(t)
  /\ UNCHANGED << state, pc, aborts, passed >>

(* The constructor ends.                                                   *)
Constructed(t) == ReleaseCas(t) \/ AbortStore(t)

Inside(t) ==
  \/ AcquireCas(t) \/ AcquireMark(t) \/ AcquireWait(t) \/ AcquireCheck(t)
  \/ ReleaseStore(t) \/ WakeAll(t)

Next == \E t \in Threads :
          CallAcquire(t) \/ Inside(t) \/ Constructed(t) \/ Interrupt(t)

Spec == Init /\ [][Next]_vars

-----------------------------------------------------------------------------
TypeOK ==
  /\ state \in States
  /\ pc \in [Threads -> Pcs]
  /\ aborts \in 0 .. MaxAborts
  /\ passed \in BOOLEAN
  /\ sleepers \subseteq Threads

Running == { t \in Threads : pc[t] \in {"run", "store"} }

(* A sleeper will be woken: the guard tells the thread that constructs the *)
(* object that somebody waits, or a wake is on its way.                    *)
SleepersHaveRescuer ==
  sleepers # {} =>
    \/ state = "waiting" /\ Running # {}
    \/ \E t \in Threads : pc[t] = "wake"

(* A guard is one-time initialisation.                                     *)
Abstract == INSTANCE AbstractOnce
              WITH done <- state = "ready",
                   runner <- IF Running = {} THEN Nobody
                             ELSE CHOOSE t \in Threads : pc[t] \in {"run", "store"}
ImplementsOnce == Abstract!Spec
=============================================================================
