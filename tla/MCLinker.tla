------------------------------ MODULE MCLinker ------------------------------
(***************************************************************************)
(* Instances of Linker for TLC: five library names, one of them a stub.    *)
(***************************************************************************)
EXTENDS Linker, TLC

CONSTANTS dl, libc, a, b, c

Nothing == << >>

(* a needs b and c, both need the stub libc; c is shared.                  *)
Diamond == dl :> Nothing @@ libc :> Nothing
           @@ a :> << b, c >> @@ b :> << c, libc >> @@ c :> << libc >>

(* a needs b and c, and c needs a; b needs the stub.                       *)
Cycle == dl :> Nothing @@ libc :> Nothing
         @@ a :> << b, c >> @@ b :> << libc >> @@ c :> << a >>

(* a library that names libdl.so among the libraries it needs.             *)
NeedsDL == dl :> Nothing @@ libc :> Nothing
           @@ a :> << dl, libc >> @@ b :> << >> @@ c :> << >>
=============================================================================
