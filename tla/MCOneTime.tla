----------------------------- MODULE MCOneTime -----------------------------
(***************************************************************************)
(* Instances of OneTime for TLC: a few threads, a constructor that throws  *)
(* now and then.                                                           *)
(***************************************************************************)
EXTENDS OneTime, TLC

CONSTANTS t1, t2, t3
=============================================================================
