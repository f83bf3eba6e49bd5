------------------------- MODULE AbstractSemaphore -------------------------
(***************************************************************************)
(* What a semaphore promises: a bounded number of units, each handed to    *)
(* one taker.  `given` counts the units it ever had (its initial value and *)
(* the posts), `taken` those that were handed out.                         *)
(***************************************************************************)
EXTENDS Naturals

CONSTANTS MaxUnits, NoUnits

VARIABLES units, given, taken

semVars == << units, given, taken >>

Create ==
  /\ units' \in 0 .. MaxUnits
  /\ given' = units' /\ taken' = 0

Init ==
  /\ units \in 0 .. MaxUnits
  /\ given = units /\ taken = 0

Take ==
  /\ units \in 1 .. MaxUnits
  /\ units' = units - 1 /\ taken' = taken + 1
  /\ UNCHANGED given

Give ==
  /\ units \in 0 .. MaxUnits - 1
  /\ units' = units + 1 /\ given' = given + 1
  /\ UNCHANGED taken

Destroy ==
  /\ units # NoUnits
  /\ units' = NoUnits
  /\ UNCHANGED << given, taken >>

Next == Take \/ Give \/ Destroy \/ (units = NoUnits /\ Create)

Spec == Init /\ [][Next]_semVars
=============================================================================
