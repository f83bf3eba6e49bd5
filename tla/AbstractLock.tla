---------------------------- MODULE AbstractLock ----------------------------
(***************************************************************************)
(* What a pthread mutex of any type promises its callers: one holder at a  *)
(* time, re-entrant up to MaxDepth, released only by the holder.           *)
(***************************************************************************)
EXTENDS Naturals

CONSTANTS Threads, NoOwner, MaxDepth

VARIABLES holder, depth

lockVars == << holder, depth >>

Init == holder = NoOwner /\ depth = 0

Acquire(t) ==
  /\ holder = NoOwner
  /\ holder' = t
  /\ depth' = 1

Reacquire(t) ==
  /\ holder = t
  /\ depth < MaxDepth
  /\ depth' = depth + 1
  /\ UNCHANGED holder

Release(t) ==
  /\ holder = t
  /\ depth' = depth - 1
  /\ holder' = IF depth = 1 THEN NoOwner ELSE t

Next == \E t \in Threads : Acquire(t) \/ Reacquire(t) \/ Release(t)

Spec == Init /\ [][Next]_lockVars
=============================================================================
