--------------------------- MODULE AbstractLoader ---------------------------
(***************************************************************************)
(* What dlopen and dlclose promise about each library, whatever the lists  *)
(* and reference counts behind it: it is linked after what it needs,       *)
(* started after what it needs, stopped before what it needs and only when *)
(* nobody uses it, and a library that failed stays failed.  A stub of the  *)
(* host has no file, so nothing it needs and nothing to start.             *)
(***************************************************************************)
EXTENDS Naturals, Sequences

CONSTANTS Libraries, Needed, Preloaded

VARIABLES status, opens

loaderVars == << status, opens >>

Needs(n) == { Needed[n][i] : i \in DOMAIN Needed[n] }
Users(n) == { m \in Libraries : n \in Needs(m) }
Present == {"stub", "linked", "started"}
InUse(n) == opens[n] > 0 \/ \E m \in Users(n) : status[m] \in {"linked", "started"}
Become(n, s) == status' = [status EXCEPT ![n] = s]

Init ==
  /\ status = [n \in Libraries |-> IF n \in Preloaded THEN "stub" ELSE "absent"]
  /\ opens = [n \in Libraries |-> 0]

Link(n) ==
  /\ status[n] = "absent"
  /\ \A m \in Needs(n) : status[m] \in Present
  /\ Become(n, "linked")
  /\ UNCHANGED opens

Fail(n) ==
  /\ status[n] = "absent"
  /\ Become(n, "failed")
  /\ UNCHANGED opens

Start(n) ==
  /\ status[n] = "linked"
  /\ \A m \in Needs(n) : status[m] \in {"stub", "started"}
  /\ Become(n, "started")
  /\ UNCHANGED opens

Open(n) ==
  /\ status[n] \in {"stub", "started"}
  /\ opens' = [opens EXCEPT ![n] = @ + 1]
  /\ UNCHANGED status

Close(n) ==
  /\ opens[n] > 0
  /\ opens' = [opens EXCEPT ![n] = @ - 1]
  /\ UNCHANGED status

Stop(n) ==
  /\ status[n] \in {"stub", "started"} /\ ~InUse(n)
  /\ Become(n, "stopped")
  /\ UNCHANGED opens

Remove(n) ==
  /\ status[n] = "stopped"
  /\ Become(n, "absent")
  /\ UNCHANGED opens

(* The host installs a stub that was removed, or takes back an unused one. *)
Install(n) ==
  /\ n \in Preloaded /\ status[n] = "absent"
  /\ Become(n, "stub")
  /\ UNCHANGED opens

Withdraw(n) ==
  /\ n \in Preloaded /\ status[n] = "stub" /\ ~InUse(n)
  /\ Become(n, "absent")
  /\ UNCHANGED opens

Next ==
  \E n \in Libraries :
    \/ Link(n) \/ Fail(n) \/ Start(n) \/ Stop(n) \/ Remove(n)
    \/ Open(n) \/ Close(n) \/ Install(n) \/ Withdraw(n)

Spec == Init /\ [][Next]_loaderVars
=============================================================================
