--------------------------- MODULE MCPthreadMutex ---------------------------
(***************************************************************************)
(* Instances of PthreadMutex for TLC: up to three threads.                 *)
(***************************************************************************)
EXTENDS PthreadMutex, TLC

CONSTANTS t1, t2, t3

MCTid  == t1 :> 1 @@ t2 :> 2 @@ t3 :> 3
MCTid2 == t1 :> 1 @@ t2 :> 2

OneProcess   == [t \in Threads |-> 1]
TwoProcesses == t1 :> 1 @@ t2 :> 2
=============================================================================
