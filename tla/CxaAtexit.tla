----------------------------- MODULE CxaAtexit -----------------------------
(***************************************************************************)
(* android_cxa.c: the list of exit handlers.  __cxa_atexit pushes at the   *)
(* head; __cxa_finalize takes the first handler of a library (or, with a   *)
(* NULL dso, of any) out of the list, runs it without the lock and starts  *)
(* again from the head, because the handler may have changed the list.     *)
(***************************************************************************)
EXTENDS Integers, Sequences, SequencesExt

CONSTANTS
  Threads,    (* the threads that register and finalise                    *)
  NoOwner,    (* holder of the free lock                                   *)
  Dsos,       (* the dso handles                                           *)
  AnyDso,     (* NULL                                                      *)
  MaxHandlers (* bound on the registrations                                *)

VARIABLES
  arr,        (* android_cxa_atexit_arr, head first: records [id, dso]     *)
  lock,       (* who holds the lock                                        *)
  pc, arg,    (* where each thread is; the dso it registers or finalises   *)
  running,    (* the handlers each thread is inside, innermost first       *)
  registered, (* history: the dso of each registration, in order           *)
  runs        (* history: how often each registration has been run         *)

(* The mutex of the list is free or a thread's.                            *)
ExitAssumption == NoOwner \notin Threads /\ MaxHandlers \in Nat

vars == << arr, lock, pc, arg, running, registered, runs >>

Handlers == 1 .. MaxHandlers

Init ==
  /\ arr = << >> /\ lock = NoOwner
  /\ pc = [t \in Threads |-> "idle"] /\ arg = [t \in Threads |-> AnyDso]
  /\ running = [t \in Threads |-> << >>]
  /\ registered = << >> /\ runs = [h \in Handlers |-> 0]

Goto(t, l) == pc' = [pc EXCEPT ![t] = l]
Matches(d, e) == d = AnyDso \/ d = e.dso

-----------------------------------------------------------------------------
(* A thread, inside a handler or not, registers a handler.  (malloc may    *)
(* fail: -1, and nothing changes.)                                         *)
CallAtexit(t, d) ==
  /\ pc[t] \in {"idle", "handler"} /\ lock = NoOwner
  /\ Len(registered) < MaxHandlers
  /\ lock' = t /\ arg' = [arg EXCEPT ![t] = d]
  /\ Goto(t, IF pc[t] = "idle" THEN "push" ELSE "nested push")
  /\ UNCHANGED << arr, running, registered, runs >>

(* Where the thread goes back to when its handler has registered another:  *)
(* the finalisation that runs it, whose dso the frame kept.                *)
Push(t) ==
  /\ pc[t] \in {"push", "nested push"}
  /\ arr' = << [id |-> Len(registered) + 1, dso |-> arg[t]] >> \o arr
  /\ registered' = Append(registered, arg[t])
  /\ lock' = NoOwner
  /\ IF pc[t] = "push"
     THEN Goto(t, "idle") /\ arg' = [arg EXCEPT ![t] = AnyDso]
     ELSE Goto(t, "handler") /\ arg' = [arg EXCEPT ![t] = running[t][1].finalising]
  /\ UNCHANGED << running, runs >>

CallFinalize(t, d) ==
  /\ pc[t] = "idle"
  /\ arg' = [arg EXCEPT ![t] = d] /\ Goto(t, "restart")
  /\ UNCHANGED << arr, lock, running, registered, runs >>

(* A handler that closes another library finalises in turn.                *)
NestedFinalize(t, d) ==
  /\ pc[t] = "handler" /\ Len(running[t]) = 1
  /\ arg' = [arg EXCEPT ![t] = d] /\ Goto(t, "restart")
  /\ UNCHANGED << arr, lock, running, registered, runs >>

FinalizeLock(t) ==
  /\ pc[t] = "restart" /\ lock = NoOwner
  /\ lock' = t /\ Goto(t, "scan")
  /\ UNCHANGED << arr, arg, running, registered, runs >>

Candidates(d) == { i \in 1 .. Len(arr) : Matches(d, arr[i]) }
First(S) == CHOOSE i \in S : \A j \in S : i <= j

(* Mutant: the handler is run but stays in the list.                       *)
FinalizeScanKeeps(t) ==
  /\ pc[t] = "scan" /\ lock' = NoOwner
  /\ IF Candidates(arg[t]) = {}
     THEN /\ UNCHANGED << arr, running, runs >>
          /\ Goto(t, IF running[t] = << >> THEN "idle" ELSE "handler")
          /\ arg' = [arg EXCEPT ![t] = IF running[t] = << >> THEN AnyDso
                                       ELSE running[t][1].finalising]
     ELSE LET i == First(Candidates(arg[t])) IN
          /\ runs' = [runs EXCEPT ![arr[i].id] = @ + 1]
          /\ running' = [running EXCEPT
               ![t] = << [id |-> arr[i].id, finalising |-> arg[t]] >> \o @]
          /\ Goto(t, "handler") /\ UNCHANGED << arr, arg >>
  /\ UNCHANGED registered

(* One pass over the list: the first handler that matches is unlinked and  *)
(* freed, and the lock released before it runs; without one the call       *)
(* returns.                                                                *)
FinalizeScan(t) ==
  /\ pc[t] = "scan" /\ lock' = NoOwner
  /\ IF Candidates(arg[t]) = {}
     THEN /\ UNCHANGED << arr, running, runs >>
          /\ Goto(t, IF running[t] = << >> THEN "idle" ELSE "handler")
          /\ arg' = [arg EXCEPT ![t] = IF running[t] = << >> THEN AnyDso
                                       ELSE running[t][1].finalising]
     ELSE LET i == First(Candidates(arg[t])) IN
          /\ arr' = RemoveAt(arr, i)
          /\ runs' = [runs EXCEPT ![arr[i].id] = @ + 1]
          /\ running' = [running EXCEPT
               ![t] = << [id |-> arr[i].id, finalising |-> arg[t]] >> \o @]
          /\ Goto(t, "handler") /\ UNCHANGED arg
  /\ UNCHANGED registered

HandlerReturns(t) ==
  /\ pc[t] = "handler"
  /\ arg' = [arg EXCEPT ![t] = running[t][1].finalising]
  /\ running' = [running EXCEPT ![t] = Tail(@)] /\ Goto(t, "restart")
  /\ UNCHANGED << arr, lock, registered, runs >>

-----------------------------------------------------------------------------
Inside(t) ==
  Push(t) \/ FinalizeLock(t) \/ FinalizeScan(t) \/ HandlerReturns(t)

Next ==
  \E t \in Threads :
    \/ \E d \in Dsos : CallAtexit(t, d)
    \/ \E d \in Dsos \cup {AnyDso} : CallFinalize(t, d) \/ NestedFinalize(t, d)
    \/ Inside(t)

Spec == Init /\ [][Next]_vars

-----------------------------------------------------------------------------
TypeOK ==
  /\ arr \in Seq([id : Handlers, dso : Dsos]) /\ lock \in Threads \cup {NoOwner}
  /\ arg \in [Threads -> Dsos \cup {AnyDso}]
  /\ registered \in Seq(Dsos) /\ runs \in [Handlers -> 0 .. 2]

(* Every registration is pending, exactly once in the list and never run,  *)
(* or has been run exactly once and is gone; the list is in the reverse    *)
(* order of registration, whoever registers and finalises meanwhile.       *)
HandlersOnce ==
  /\ \A i, j \in 1 .. Len(arr) : i < j => arr[i].id > arr[j].id
  /\ \A h \in 1 .. Len(registered) :
       LET pending == \E i \in 1 .. Len(arr) : arr[i] = [id |-> h, dso |-> registered[h]]
       IN runs[h] = IF pending THEN 0 ELSE 1
  /\ \A t \in Threads : \A k \in 1 .. Len(running[t]) :
       LET f == running[t][k] IN f.finalising \in {AnyDso, registered[f.id]}
=============================================================================
