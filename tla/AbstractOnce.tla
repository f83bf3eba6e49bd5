---------------------------- MODULE AbstractOnce ----------------------------
(***************************************************************************)
(* What one-time initialisation promises: one thread at a time runs the    *)
(* initialiser, nobody gets past before a run of it has finished, and then *)
(* nobody runs it again.                                                   *)
(***************************************************************************)
CONSTANTS Threads, Nobody

VARIABLES
  done,       (* a run of the initialiser has finished                     *)
  runner,     (* the thread running it, or Nobody                          *)
  passed      (* somebody got past without running it                      *)

onceVars == << done, runner, passed >>

Init == done = FALSE /\ runner = Nobody /\ passed = FALSE

Start(t) ==
  /\ ~done /\ runner = Nobody
  /\ runner' = t
  /\ UNCHANGED << done, passed >>

Finish ==
  /\ runner # Nobody
  /\ done' = TRUE /\ runner' = Nobody
  /\ UNCHANGED passed

(* The initialiser gave up; the next thread tries again.                   *)
GiveUp ==
  /\ runner # Nobody
  /\ runner' = Nobody
  /\ UNCHANGED << done, passed >>

Pass ==
  /\ done
  /\ passed' = TRUE
  /\ UNCHANGED << done, runner >>

Next == (\E t \in Threads : Start(t)) \/ Finish \/ GiveUp \/ Pass

Spec == Init /\ [][Next]_onceVars
=============================================================================
