------------------------------ MODULE Services -----------------------------
(***************************************************************************)
(* Services of the compatibility layer that share no state with each       *)
(* other: condition variables, thread start and join, the Windows futex,   *)
(* exit handlers, thread-specific keys and custom hooks.  Because they     *)
(* share nothing, the interleavings of two of them say nothing that those  *)
(* of each one do not: `subject` is the one a behaviour exercises.         *)
(***************************************************************************)
EXTENDS Integers, TLC

CONSTANTS     (* the services' own modules say what each of them is          *)
  Threads, FewThreads, NoOwner,
  Width, DeadCond, MaxPulses,
  MaxId, WordBits, Tries,
  Addrs, Entries, SemMax, MaxWaits,
  Dsos, AnyDso, MaxHandlers,
  Indexes, MaxKeys,
  Symbols, HostFuncs, NotHooked, Unset, FirstSize, MaxHooks

VARIABLES
  subject,
  value, attr, sleepers, holder, items, condPc, condOp, old, flags, pulses,
  platform, free, tid, lifePc, cand, word, tries, detached, joined, handle,
  block, call, leaked,
  ftx, locks, entry, futexMtx, futexPc, futexOp, futexLock, waits,
  arr, exitLock, exitPc, dso, running, registered, runs,
  keyAt, created, nodes, values, keyMtx, keyPc, index, cur, called, overtaken,
  slots, size, hooked, adds

Co == INSTANCE Cond WITH pc <- condPc, op <- condOp
Th == INSTANCE ThreadLife WITH Threads <- FewThreads, pc <- lifePc
Fu == INSTANCE FutexWindows WITH Threads <- FewThreads, mtx <- futexMtx,
        pc <- futexPc, op <- futexOp, lock <- futexLock
At == INSTANCE CxaAtexit WITH Threads <- FewThreads, lock <- exitLock, pc <- exitPc,
        arg <- dso
Ke == INSTANCE ThreadKeys WITH Threads <- FewThreads, mtx <- keyMtx, pc <- keyPc,
        arg <- index
Ho == INSTANCE Hooks

ASSUME ThreadLifeAssumption == Th!IdsAssumption
ASSUME CounterAssumption == Co!CondAssumption
ASSUME HandlersAssumption == At!ExitAssumption
ASSUME BoundOnKeys == Ke!KeysAssumption
ASSUME SemaphoresOfAddresses == Fu!FutexAssumption
ASSUME HooksOfTheHost == Ho!HooksAssumption

condVars == << value, attr, sleepers, holder, items, condPc, condOp, old, flags,
               pulses >>
lifeVars == << platform, free, tid, lifePc, cand, word, tries, detached, joined,
               handle, block, call, leaked >>
futexVars == << ftx, locks, entry, futexMtx, futexPc, futexOp, futexLock, waits >>
exitVars == << arr, exitLock, exitPc, dso, running, registered, runs >>
keyVars == << keyAt, created, nodes, values, keyMtx, keyPc, index, cur, called,
              overtaken >>
hookVars == << slots, size, hooked, adds >>
vars == << subject, condVars, lifeVars, futexVars, exitVars, keyVars, hookVars >>

Init ==
  /\ subject \in {"cond", "threads", "futex", "exit", "keys", "hooks"}
  /\ Co!Init /\ Th!Init /\ Fu!Init /\ At!Init /\ Ke!Init /\ Ho!Init
  /\ subject # "threads" => platform = "linux" /\ leaked = {}

CondNext ==
  /\ subject = "cond" /\ Co!Next
  /\ UNCHANGED << subject, lifeVars, futexVars, exitVars, keyVars, hookVars >>
ThreadsNext ==
  /\ subject = "threads" /\ Th!Next
  /\ UNCHANGED << subject, condVars, futexVars, exitVars, keyVars, hookVars >>
FutexNext ==
  /\ subject = "futex" /\ Fu!Next
  /\ UNCHANGED << subject, condVars, lifeVars, exitVars, keyVars, hookVars >>
ExitNext ==
  /\ subject = "exit" /\ At!Next
  /\ UNCHANGED << subject, condVars, lifeVars, futexVars, keyVars, hookVars >>
KeysNext ==
  /\ subject = "keys" /\ Ke!Next
  /\ UNCHANGED << subject, condVars, lifeVars, futexVars, exitVars, hookVars >>
HooksNext ==
  /\ subject = "hooks" /\ Ho!Next
  /\ UNCHANGED << subject, condVars, lifeVars, futexVars, exitVars, keyVars >>

Next == CondNext \/ ThreadsNext \/ FutexNext \/ ExitNext \/ KeysNext \/ HooksNext

CondInside(t) ==
  /\ subject = "cond" /\ Co!Inside(t)
  /\ UNCHANGED << subject, lifeVars, futexVars, exitVars, keyVars, hookVars >>

Spec == Init /\ [][Next]_vars
FairSpec == Spec /\ \A t \in Threads : WF_vars(CondInside(t))

-----------------------------------------------------------------------------
(* The type invariant of all six.                                          *)
ServicesTypeOK ==
  Co!TypeOK /\ Th!TypeOK /\ Fu!TypeOK /\ At!TypeOK /\ Ke!TypeOK /\ Ho!TypeOK

(* Condition variables: a thread that sleeps while the mailbox holds an    *)
(* item has somebody awake who will take it or wake a sleeper.             *)
CondNobodyForgotten == subject = "cond" => Co!NobodyForgotten

(* Condition variables: items do not lie there while threads sleep.        *)
CondSleepersServed == Co!SleepersServed

(* Thread identifiers: one per running thread, none lost but the leaked.   *)
ThreadIdsExact == subject = "threads" => Th!IdsExact

(* Thread records: freed once, there for join, gone after it.              *)
ThreadRecordsSafe == subject = "threads" => Th!RecordsSafe

(* Windows futex: one counted entry per address, no waiter left behind,    *)
(* whatever wakes do with entries that are freed or reused.                *)
FutexEntriesExact == subject = "futex" => Fu!EntriesExact

(* Exit handlers: each is pending once or has been run once.               *)
ExitHandlersOnce == subject = "exit" => At!HandlersOnce

(* Keys: a destructor only gets the values of its own key, unless a create *)
(* overtook the delete that had freed its index.                           *)
KeyDestructorsOwn == subject = "keys" => Ke!DestructorsOwn

(* Hooks: the last function a name was hooked to is the one that is found. *)
HooksFoundRight == subject = "hooks" => Ho!HooksRight
=============================================================================
