-------------------------------- MODULE Dlfcn --------------------------------
(***************************************************************************)
(* android_dlfcn.c: the dl* functions as several threads call them.  One   *)
(* mutex, dl_lock, covers the whole of dlopen, dlsym, dladdr and dlclose,  *)
(* constructors and destructors included; dlerror takes no lock.  dl_lock  *)
(* is a NORMAL mutex (module PthreadMutex), here at the grain of its       *)
(* abstract specification: a thread that locks it again waits for itself.  *)
(***************************************************************************)
EXTENDS Linker

CONSTANTS
  Threads,
  NoThread,   (* the holder of a free dl_lock                              *)
  Reentrant   (* libraries whose init functions call dlopen                *)

ASSUME DlfcnAssumption ==
  NoThread \notin Threads /\ IsFiniteSet(Threads) /\ Reentrant \subseteq Libraries

VARIABLES
  dl_lock,    (* the thread that holds it                                  *)
  call,       (* the dl function each thread is in, and where              *)
  dl_err_str  (* TRUE while it points to a message                         *)

dlVars == << vars, dl_lock, call, dl_err_str >>

Out == [fn |-> "none", arg |-> NULL, at |-> "out"]

DlInit ==
  /\ Init
  /\ dl_lock = NoThread
  /\ call = [t \in Threads |-> Out]
  /\ dl_err_str = FALSE

At(t, l)   == call[t].at = l
Goto(t, l) == call' = [call EXCEPT ![t].at = l]

(* dlsym and dlclose in progress on handle s.  The program lets a thread   *)
(* use a handle only while that thread's reference keeps it open.          *)
Using(s) == { t \in Threads : call[t].fn \in {"dlsym", "dlclose"} /\ call[t].arg = s }
MayUse(s) == handles[s] > Cardinality(Using(s))

Requests ==
  [fn : {"dlopen"}, arg : Opened, at : {"lock"}]
    \cup [fn : {"dlsym", "dlclose"}, arg : { s \in Slots : MayUse(s) }, at : {"lock"}]
    \cup { [fn |-> "dladdr", arg |-> NULL, at |-> "lock"] }

(* A thread enters a dl function ...                                       *)
Request(t) ==
  /\ At(t, "out")
  /\ \E r \in Requests : call' = [call EXCEPT ![t] = r]
  /\ UNCHANGED << vars, dl_lock, dl_err_str >>

(* Mutant: the lock is not waited for.                                     *)
LockDlBarges(t) ==
  /\ At(t, "lock")
  /\ dl_lock' = t
  /\ Goto(t, "body")
  /\ UNCHANGED << vars, dl_err_str >>

(* ... gets dl_lock ...                                                    *)
LockDl(t) ==
  /\ At(t, "lock") /\ dl_lock = NoThread
  /\ dl_lock' = t
  /\ Goto(t, "body")
  /\ UNCHANGED << vars, dl_err_str >>

(* ... does its work: dlopen and dlclose run the linker ...                *)
Start(t) ==
  /\ At(t, "body")
  /\ \/ call[t].fn = "dlopen" /\ Dlopen(call[t].arg)
     \/ call[t].fn = "dlclose" /\ Dlclose(call[t].arg)
  /\ Goto(t, "running")
  /\ UNCHANGED << dl_lock, dl_err_str >>

(* (a dlopen beyond the bound on handles is not made)                      *)
Refuse(t) ==
  /\ At(t, "body") /\ call[t].fn = "dlopen" /\ HandleCount >= MaxHandles
  /\ Goto(t, "unlock")
  /\ UNCHANGED << vars, dl_lock, dl_err_str >>

Run(t) ==
  /\ At(t, "running") /\ Inside
  /\ dl_err_str' = (dl_err_str \/ (InFn("dlopen") /\ ret = NULL))
  /\ IF stack' = << >> THEN Goto(t, "unlock") ELSE UNCHANGED call
  /\ UNCHANGED dl_lock

(* ... dlsym and dladdr only look; dlsym reports a symbol it cannot find   *)
(* or that is not global ...                                               *)
Look(t) ==
  /\ At(t, "body") /\ call[t].fn \in {"dlsym", "dladdr"}
  /\ dl_err_str' \in IF call[t].fn = "dlsym" THEN {dl_err_str, TRUE} ELSE {dl_err_str}
  /\ Goto(t, "unlock")
  /\ UNCHANGED << vars, dl_lock >>

(* ... and gives dl_lock back.                                             *)
UnlockDl(t) ==
  /\ At(t, "unlock")
  /\ dl_lock' = NoThread
  /\ call' = [call EXCEPT ![t] = Out]
  /\ UNCHANGED << vars, dl_err_str >>

(* An init function calls dlopen: the outer call is not resumed before the *)
(* inner one has dl_lock, so only the inner one is kept in `call`.         *)
Reenter(t) ==
  /\ At(t, "running") /\ InFn("init") /\ info[Top.si].name \in Reentrant
  /\ \E n \in Opened : call' = [call EXCEPT ![t] = [fn |-> "dlopen", arg |-> n, at |-> "lock"]]
  /\ UNCHANGED << vars, dl_lock, dl_err_str >>

(* dlerror reads the pointer and then clears it, without dl_lock.          *)
DlerrorRead(t) ==
  /\ At(t, "out")
  /\ call' = [call EXCEPT ![t] = [fn |-> "dlerror", arg |-> NULL, at |-> "clear"]]
  /\ UNCHANGED << vars, dl_lock, dl_err_str >>

DlerrorClear(t) ==
  /\ At(t, "clear")
  /\ dl_err_str' = FALSE
  /\ call' = [call EXCEPT ![t] = Out]
  /\ UNCHANGED << vars, dl_lock >>

-----------------------------------------------------------------------------
Proceed(t) ==
  \/ LockDl(t) \/ Start(t) \/ Refuse(t) \/ Run(t) \/ Look(t) \/ UnlockDl(t)
  \/ DlerrorClear(t)

DlNext ==
  \E t \in Threads : Request(t) \/ Proceed(t) \/ Reenter(t) \/ DlerrorRead(t)

DlSpec == DlInit /\ [][DlNext]_dlVars

(* A thread inside a dl function is scheduled; init functions return.      *)
DlFairSpec == DlSpec /\ \A t \in Threads : WF_dlVars(Proceed(t))

-----------------------------------------------------------------------------
(* The linker's structures are in use by one call at a time, the one that  *)
(* holds dl_lock, from its first step to its last.                         *)
LinkerOwned ==
  /\ \A t \in Threads : call[t].at \in {"body", "running", "unlock"} => dl_lock = t
  /\ ~Idle => dl_lock # NoThread

(* The handle a dlsym or dlclose works on is usable when its turn comes,   *)
(* whatever the calls that held dl_lock before it have unloaded.           *)
ArgumentUsable ==
  \A t \in Threads :
    At(t, "body") /\ call[t].fn \in {"dlsym", "dlclose"} =>
      /\ handles[call[t].arg] > 0
      /\ Usable(call[t].arg) /\ info[call[t].arg].inits = 1

(* Whoever holds dl_lock gives it back, on every path, unless a            *)
(* constructor it runs has asked for dl_lock again.                        *)
WaitsForItself(t) == dl_lock = t /\ At(t, "lock")
LockReleased ==
  dl_lock # NoThread ~> dl_lock = NoThread \/ \E t \in Threads : WaitsForItself(t)

(* linker.c:1636-1642 describes a constructor that calls dlopen as the     *)
(* case constructors_called is there for: a thread that runs constructors  *)
(* does not wait for the lock it holds.                                    *)
ConstructorsMayDlopen == \A t \in Threads : ~WaitsForItself(t)
=============================================================================
