------------------------------- MODULE MCDlfcn -------------------------------
(***************************************************************************)
(* Instances of Dlfcn for TLC: two threads and a library with a stub.      *)
(***************************************************************************)
EXTENDS Dlfcn, TLC

CONSTANTS dl, libc, a, b, t1, t2

Nothing == << >>

(* a and b share libc; b needs a.                                          *)
Pair == dl :> Nothing @@ libc :> Nothing @@ a :> << libc >> @@ b :> << a >>
=============================================================================
