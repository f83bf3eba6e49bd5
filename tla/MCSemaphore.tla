---------------------------- MODULE MCSemaphore ----------------------------
(***************************************************************************)
(* Instances of Semaphore for TLC: a few threads of one process.           *)
(***************************************************************************)
EXTENDS Semaphore, TLC

CONSTANTS t1, t2, t3

OneProcess == [t \in Threads |-> 1]
=============================================================================
