------------------------------- MODULE Errno -------------------------------
(***************************************************************************)
(* android_errno.c: the errno a program sees.  The host's number is        *)
(* translated by name, whenever the program asks for the address of its    *)
(* errno, into a cell of the calling thread; a host thread that has no     *)
(* cell gets one dummy that all such threads share.                        *)
(***************************************************************************)
EXTENDS ErrnoTables

CONSTANTS
  Created,   \* threads that own a cell: the first one and those of pthread_create
  Foreign,   \* threads of the host, which have none
  Failing,   \* names of the errors that the host calls of a behaviour meet
  NoCell, Nothing

Callers == Created \cup Foreign

VARIABLES
  os,      \* the host
  native,  \* the host's errno of each thread
  cell,    \* the thread's cell, or NoCell
  dummy,   \* the cell of the threads without one
  owed,    \* name of the last error, unless the program stored a number since
  seen     \* the number the program has just read, or Nothing

-----------------------------------------------------------------------------
Init ==
  /\ os \in DOMAIN Hosts
  /\ native = [t \in Callers |-> 0]
  /\ cell = [t \in Callers |-> IF t \in Created THEN 0 ELSE NoCell]
  /\ dummy = 0
  /\ owed = [t \in Callers |-> Nothing] /\ seen = [t \in Callers |-> Nothing]

(* A host call made for the program fails.                                 *)
Fails(t) ==
  \E n \in Failing \cap DOMAIN Hosts[os] :
    /\ native' = [native EXCEPT ![t] = Hosts[os][n]]
    /\ owed' = [owed EXCEPT ![t] = n] /\ seen' = [seen EXCEPT ![t] = Nothing]
    /\ UNCHANGED << os, cell, dummy >>

(* android_errno: the cell after the call; the dummy is returned untouched. *)
(* Mutant: an error that is already there is kept.                         *)
RefreshedSticky(t) ==
  IF native[t] # 0 /\ cell[t] = 0 THEN NoToAndroid(Hosts[os], native[t]) ELSE cell[t]
Refreshed(t) ==
  IF native[t] # 0 THEN NoToAndroid(Hosts[os], native[t]) ELSE cell[t]

(* The program reads errno ...                                             *)
Read(t) ==
  /\ IF cell[t] = NoCell
     THEN seen' = [seen EXCEPT ![t] = dummy] /\ UNCHANGED cell
     ELSE /\ cell' = [cell EXCEPT ![t] = Refreshed(t)]
          /\ seen' = [seen EXCEPT ![t] = Refreshed(t)]
  /\ UNCHANGED << os, native, dummy, owed >>

(* ... or clears it, through the pointer; the host's errno keeps its value. *)
Clear(t) ==
  /\ IF cell[t] = NoCell
     THEN dummy' = 0 /\ UNCHANGED cell
     ELSE cell' = [cell EXCEPT ![t] = 0] /\ UNCHANGED dummy
  /\ owed' = [owed EXCEPT ![t] = Nothing] /\ seen' = [seen EXCEPT ![t] = Nothing]
  /\ UNCHANGED << os, native >>

Next == \E t \in Callers : Fails(t) \/ Read(t) \/ Clear(t)

-----------------------------------------------------------------------------
(* A program thread that reads errno after a call failed sees the Android  *)
(* number of that error, if Android has one, whatever was read, cleared or *)
(* failed before and on whichever thread; and the tables are right.        *)
ErrnoRight ==
  /\ \A t \in Created : seen[t] # Nothing /\ owed[t] \in DOMAIN AndroidNumbers =>
       seen[t] = AndroidNumbers[owed[t]]
  /\ TablesRight
  /\ \A length \in 1 .. 3, buflen \in 0 .. 5 :
       LET r == StrerrorR(length, buflen)
       IN /\ buflen > 0 => r.copied < buflen
          /\ r.ret = 0 <=> r.copied = length
=============================================================================
