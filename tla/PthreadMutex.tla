---------------------------- MODULE PthreadMutex ----------------------------
(***************************************************************************)
(* android_pthread_mutex.c on Linux: one mutex word, used by a set of      *)
(* threads, at the grain of its atomic accesses.  Every read, compare-and- *)
(* exchange, swap or decrement of mutex->value and every futex call is a   *)
(* step of its own; what a thread computes from its local copy is part of  *)
(* the step that uses it.                                                  *)
(***************************************************************************)
EXTENDS Naturals, Futex

CONSTANTS
  Tid,        (* android_thread_id_get_current() of each thread            *)
  Types,      (* the mutex types android_pthread_mutex_init may be given   *)
  MaxCount,   (* largest value of the 11-bit recursion counter field       *)
  NoOwner     (* no thread: the holder of a free lock                      *)

(* The 16 bits of the owner field.                                         *)
OwnerField == { n \in Nat : n < 65536 }

ASSUME ThreadsAssumption == NoOwner \notin Threads
ASSUME TypesAssumption ==
  Types \subseteq {"normal", "recursive", "errorcheck"} /\ Types # {}
ASSUME CountAssumption == MaxCount \in Nat \ {0}
(* Every thread went through android_thread_id_init or _acquire, which     *)
(* hand out distinct identifiers in 1..0xffff; 0 is the owner field of an  *)
(* unlocked word.                                                          *)
ASSUME TidAssumption ==
  /\ Tid \in [Threads -> OwnerField \ {0}]
  /\ \A t, u \in Threads : Tid[t] = Tid[u] => t = u

VARIABLES
  word,       (* mutex->value, by fields                                   *)
  pc,         (* where each thread is inside the library                   *)
  op,         (* the call it is executing                                  *)
  mval,       (* its local `mvalue`                                        *)
  held        (* history: locks obtained and not yet released, per thread  *)

vars == << word, pc, op, mval, held, sleepers >>

UNLOCKED    == 0
UNCONTENDED == 1
CONTENDED   == 2

(* An initialised, unlocked mutex: only the type bits are set.             *)
Fresh(ty) == [type |-> ty, state |-> UNLOCKED, count |-> 0, owner |-> 0]

NoValue == Fresh("normal")

(* 0xdead10cc, the value of a destroyed mutex, by fields.                  *)
DeadWord == [type |-> "normal", state |-> 0, count |-> 1075, owner |-> 57005]

Words == [type : {"normal", "recursive", "errorcheck"}, state : 0 .. 2,
          count : 0 .. MaxCount, owner : OwnerField]

Pcs == {"idle", "n_cas", "n_swap", "n_wait", "n_try", "n_dec", "n_store",
        "r_inc", "r_inc_ld", "r_dec", "r_dec_ld", "r_swap", "r_try", "r_fast",
        "r_slow", "r_slow_ld", "r_wait", "wake", "d_store"}
Ops == {"none", "lock", "trylock", "destroy", "unlock"}

Init ==
  /\ word \in { Fresh(ty) : ty \in Types }
  /\ pc = [t \in Threads |-> "idle"]
  /\ op = [t \in Threads |-> "none"]
  /\ mval = [t \in Threads |-> NoValue]
  /\ held = [t \in Threads |-> 0]
  /\ sleepers = {}

(* A step inside a call, and the return from one, where the locals die.    *)
Goto(t, l) == pc' = [pc EXCEPT ![t] = l] /\ UNCHANGED << op, mval >>
LoadAndGoto(t, l) ==
  /\ pc' = [pc EXCEPT ![t] = l]
  /\ mval' = [mval EXCEPT ![t] = word]
  /\ UNCHANGED op
Return(t) ==
  /\ pc' = [pc EXCEPT ![t] = "idle"]
  /\ op' = [op EXCEPT ![t] = "none"]
  /\ mval' = [mval EXCEPT ![t] = NoValue]
Call(t, o, l) ==
  /\ pc[t] = "idle"
  /\ pc' = [pc EXCEPT ![t] = l]
  /\ op' = [op EXCEPT ![t] = o]
  /\ mval' = [mval EXCEPT ![t] = word]

Released(t) == held' = [held EXCEPT ![t] = @ - 1]

(* android_pthread_mutex_lock and _trylock return 0 to their caller, which *)
(* may be android_pthread_mutex_destroy.                                   *)
Succeed(t) ==
  /\ held' = [held EXCEPT ![t] = @ + 1]
  /\ IF op[t] = "destroy" THEN Goto(t, "d_store") ELSE Return(t)

(* The compare-and-exchange of one of the acquiring paths.                 *)
TryTake(t, expected, desired, otherwise) ==
  IF word = expected
  THEN word' = desired /\ Succeed(t)
  ELSE /\ IF otherwise = "fail" THEN Return(t) ELSE Goto(t, otherwise)
       /\ UNCHANGED << word, held >>

(* The word of a mutex of type `ty` that t holds once.                     *)
Taken(t, ty, s) ==
  [type |-> ty, state |-> s, count |-> 0,
   owner |-> IF ty = "normal" THEN 0 ELSE Tid[t]]

-----------------------------------------------------------------------------
(* What the program is assumed to do: it uses a mutex only while it is     *)
(* initialised and nobody is destroying it, a NORMAL mutex is not locked   *)
(* again by its holder nor unlocked by another thread (both undefined in   *)
(* POSIX), and a mutex is destroyed by a thread that does not hold it and  *)
(* when nobody else is acquiring it.  Threads still inside unlock are      *)
(* allowed: POSIX lets a mutex be destroyed as soon as it is unlocked.     *)
Usable == word # DeadWord /\ \A u \in Threads : op[u] # "destroy"

MayLock(t)   == Usable /\ (word.type = "normal" => held[t] = 0)
MayUnlock(t) == word # DeadWord /\ (word.type = "normal" => held[t] > 0)
MayDestroy(t) ==
  /\ Usable /\ held[t] = 0
  /\ \A u \in Threads : op[u] \notin {"lock", "trylock"}

-----------------------------------------------------------------------------
(* Mutant: no EAGAIN when the counter is full.                             *)
MayIncrementAlways(v) == v.type # "errorcheck"

(* android_recursive_increment tests the value its caller read: EDEADLK    *)
(* and EAGAIN return at once, which leaves the caller where it was.        *)
MayIncrement(v) == v.type # "errorcheck" /\ v.count # MaxCount

LockPath(t) ==
  IF word.type = "normal" THEN "n_cas"
  ELSE IF word.owner = Tid[t] THEN "r_inc"
  ELSE IF word = Fresh(word.type) THEN "r_fast" ELSE "r_slow"

TryLockPath(t) ==
  IF word.type = "normal" THEN "n_try"
  ELSE IF word.owner = Tid[t] THEN "r_inc" ELSE "r_try"

CallLock(t) ==
  /\ MayLock(t)
  /\ LockPath(t) = "r_inc" => MayIncrement(word)
  /\ Call(t, "lock", LockPath(t))
  /\ UNCHANGED << word, held, sleepers >>

(* Destroy begins with a trylock of its own.                               *)
CallTryLock(t, o) ==
  /\ IF o = "destroy" THEN MayDestroy(t) ELSE Usable
  /\ TryLockPath(t) = "r_inc" => MayIncrement(word)
  /\ Call(t, o, TryLockPath(t))
  /\ UNCHANGED << word, held, sleepers >>

(* Mutant: unlock releases without counting down.                          *)
CallUnlockAtOnce(t) ==
  /\ MayUnlock(t)
  /\ word.type # "normal" => word.owner = Tid[t]
  /\ Call(t, "unlock", IF word.type = "normal" THEN "n_dec" ELSE "r_swap")
  /\ UNCHANGED << word, held, sleepers >>

(* An unlock by a thread that is not the owner returns EPERM.              *)
CallUnlock(t) ==
  /\ MayUnlock(t)
  /\ word.type # "normal" => word.owner = Tid[t]
  /\ Call(t, "unlock", IF word.type = "normal" THEN "n_dec"
                       ELSE IF word.count # 0 THEN "r_dec" ELSE "r_swap")
  /\ UNCHANGED << word, held, sleepers >>

(* android_pthread_mutex_init of a mutex that was destroyed.               *)
InitMutex(t) ==
  /\ pc[t] = "idle" /\ word = DeadWord
  /\ word' \in { Fresh(ty) : ty \in Types }
  /\ UNCHANGED << pc, op, mval, held, sleepers >>

-----------------------------------------------------------------------------
(* android_normal_lock and the NORMAL half of trylock.                     *)
NormalCas(t) ==
  /\ pc[t] = "n_cas"
  /\ TryTake(t, Fresh("normal"), Taken(t, "normal", UNCONTENDED), "n_swap")
  /\ UNCHANGED sleepers

NormalTry(t) ==
  /\ pc[t] = "n_try"
  /\ TryTake(t, Fresh("normal"), Taken(t, "normal", UNCONTENDED), "fail")
  /\ UNCHANGED sleepers

(* Mutant: a woken thread takes the mutex as uncontended.                  *)
NormalSwapUncontended(t) ==
  /\ pc[t] = "n_swap" /\ t \notin sleepers
  /\ IF word = Fresh("normal")
     THEN word' = Taken(t, "normal", UNCONTENDED) /\ Succeed(t)
     ELSE word' = Taken(t, "normal", CONTENDED) /\ Goto(t, "n_wait") /\ UNCHANGED held
  /\ UNCHANGED sleepers

(* Mutant: the swap counts as an acquisition unless the word was contended.*)
NormalSwapNotContended(t) ==
  /\ pc[t] = "n_swap" /\ t \notin sleepers
  /\ word' = Taken(t, "normal", CONTENDED)
  /\ IF word.state # CONTENDED
     THEN Succeed(t)
     ELSE Goto(t, "n_wait") /\ UNCHANGED held
  /\ UNCHANGED sleepers

(* The swap both marks the mutex contended and, if it was free, takes it.  *)
NormalSwap(t) ==
  /\ pc[t] = "n_swap" /\ t \notin sleepers
  /\ word' = Taken(t, "normal", CONTENDED)
  /\ IF word = Fresh("normal")
     THEN Succeed(t)
     ELSE Goto(t, "n_wait") /\ UNCHANGED held
  /\ UNCHANGED sleepers

NormalWait(t) ==
  /\ pc[t] = "n_wait"
  /\ FutexWait(t, word, Taken(t, "normal", CONTENDED))
  /\ Goto(t, "n_swap")
  /\ UNCHANGED << word, held >>

(* Mutant: a contended mutex is freed at once and stored to again later.   *)
NormalDecFrees(t) ==
  /\ pc[t] = "n_dec"
  /\ word' = Fresh("normal")
  /\ Released(t)
  /\ IF word.state = UNCONTENDED THEN Return(t) ELSE Goto(t, "n_store")
  /\ UNCHANGED sleepers

(* android_normal_unlock: the decrement releases an uncontended mutex, a   *)
(* contended one is released by the store and then one sleeper is woken.   *)
NormalDec(t) ==
  /\ pc[t] = "n_dec"
  /\ word' = [word EXCEPT !.state = @ - 1]
  /\ IF word.state = UNCONTENDED
     THEN Return(t) /\ Released(t)
     ELSE Goto(t, "n_store") /\ UNCHANGED held
  /\ UNCHANGED sleepers

NormalStore(t) ==
  /\ pc[t] = "n_store"
  /\ word' = Fresh("normal")
  /\ Released(t)
  /\ Goto(t, "wake")
  /\ UNCHANGED sleepers

(* Mutant: the wake is forgotten.                                          *)
WakeNobody(t) ==
  /\ pc[t] = "wake"
  /\ Return(t)
  /\ UNCHANGED << word, held, sleepers >>

(* The futex_wake that ends a contended unlock of any type.                *)
Wake(t) ==
  /\ pc[t] = "wake"
  /\ FutexWakeOne(t)
  /\ Return(t)
  /\ UNCHANGED << word, held >>

(* The second half of android_pthread_mutex_destroy.                       *)
DestroyStore(t) ==
  /\ pc[t] = "d_store"
  /\ word' = DeadWord
  /\ Released(t)
  /\ Return(t)
  /\ UNCHANGED sleepers

-----------------------------------------------------------------------------
(* android_recursive_increment and the counter half of unlock: only the    *)
(* owner changes the counter, but a waiter may mark the word contended     *)
(* between the owner's read and its compare-and-exchange.                  *)
Increment(t) ==
  /\ pc[t] = "r_inc"
  /\ IF word = mval[t]
     THEN word' = [word EXCEPT !.count = @ + 1] /\ Succeed(t)
     ELSE Goto(t, "r_inc_ld") /\ UNCHANGED << word, held >>
  /\ UNCHANGED sleepers

Decrement(t) ==
  /\ pc[t] = "r_dec"
  /\ IF word = mval[t]
     THEN word' = [word EXCEPT !.count = @ - 1] /\ Return(t) /\ Released(t)
     ELSE Goto(t, "r_dec_ld") /\ UNCHANGED << word, held >>
  /\ UNCHANGED sleepers

(* `mvalue = mutex->value` of the retry loops.                             *)
Reload(t) ==
  /\ \/ pc[t] = "r_inc_ld"  /\ LoadAndGoto(t, "r_inc")
     \/ pc[t] = "r_dec_ld"  /\ LoadAndGoto(t, "r_dec")
     \/ pc[t] = "r_slow_ld" /\ t \notin sleepers /\ LoadAndGoto(t, "r_slow")
  /\ UNCHANGED << word, held, sleepers >>

(* Mutant: the fast path takes the mutex without comparing the owner.      *)
OwnerCasByState(t) ==
  /\ pc[t] \in {"r_fast", "r_try"}
  /\ IF word.state # CONTENDED
     THEN word' = Taken(t, mval[t].type, UNCONTENDED) /\ Succeed(t)
     ELSE /\ IF pc[t] = "r_try" THEN Return(t) ELSE Goto(t, "r_slow_ld")
          /\ UNCHANGED << word, held >>
  /\ UNCHANGED sleepers

(* The fast path of lock, and the whole of trylock, on a mutex owned by    *)
(* nobody or by another thread.                                            *)
OwnerCas(t) ==
  /\ pc[t] \in {"r_fast", "r_try"}
  /\ TryTake(t, Fresh(mval[t].type), Taken(t, mval[t].type, UNCONTENDED),
             IF pc[t] = "r_try" THEN "fail" ELSE "r_slow_ld")
  /\ UNCHANGED sleepers

(* The loop of lock: take a free mutex as contended, mark an uncontended   *)
(* one contended, and sleep on a contended one.                            *)
SlowTake(t) ==
  /\ pc[t] = "r_slow" /\ mval[t] = Fresh(mval[t].type)
  /\ TryTake(t, mval[t], Taken(t, mval[t].type, CONTENDED), "r_slow_ld")
  /\ UNCHANGED sleepers

SlowFlip(t) ==
  LET flipped == [mval[t] EXCEPT !.state = CONTENDED]
  IN /\ pc[t] = "r_slow" /\ mval[t].state = UNCONTENDED
     /\ IF word = mval[t]
        THEN /\ word' = flipped
             /\ mval' = [mval EXCEPT ![t] = flipped]
             /\ pc' = [pc EXCEPT ![t] = "r_wait"]
             /\ UNCHANGED op
        ELSE Goto(t, "r_slow_ld") /\ UNCHANGED word
     /\ UNCHANGED << held, sleepers >>

SlowWait(t) ==
  /\ \/ pc[t] = "r_wait"
     \/ /\ pc[t] = "r_slow" /\ mval[t].state # UNCONTENDED
        /\ mval[t] # Fresh(mval[t].type)
  /\ FutexWait(t, word, mval[t])
  /\ Goto(t, "r_slow_ld")
  /\ UNCHANGED << word, held >>

(* The release of a recursive or error-checking mutex.                     *)
OwnerSwap(t) ==
  /\ pc[t] = "r_swap"
  /\ word' = Fresh(mval[t].type)
  /\ Released(t)
  /\ IF word.state = CONTENDED THEN Goto(t, "wake") ELSE Return(t)
  /\ UNCHANGED sleepers

(* A signal interrupts the futex wait.                                     *)
Interrupt(t) ==
  /\ FutexInterrupt(t)
  /\ UNCHANGED << word, pc, op, mval, held >>

-----------------------------------------------------------------------------
Enter(t) ==
  \/ CallLock(t) \/ CallUnlock(t) \/ InitMutex(t)
  \/ \E o \in {"trylock", "destroy"} : CallTryLock(t, o)

(* The steps a thread takes inside the library.                            *)
Inside(t) ==
  \/ NormalCas(t) \/ NormalTry(t) \/ NormalSwap(t) \/ NormalWait(t)
  \/ NormalDec(t) \/ NormalStore(t) \/ Wake(t) \/ DestroyStore(t)
  \/ Increment(t) \/ Decrement(t) \/ Reload(t) \/ OwnerCas(t)
  \/ SlowTake(t) \/ SlowFlip(t) \/ SlowWait(t) \/ OwnerSwap(t)

Next == \E t \in Threads : Enter(t) \/ Inside(t) \/ Interrupt(t)

Spec == Init /\ [][Next]_vars

(* The system schedules every thread that can run; what the program calls, *)
(* and whether a signal arrives, is not promised.                          *)
FairSpec == Spec /\ \A t \in Threads : WF_vars(Inside(t))

-----------------------------------------------------------------------------
TypeOK ==
  /\ word \in Words \cup {DeadWord}
  /\ pc \in [Threads -> Pcs]
  /\ op \in [Threads -> Ops]
  /\ mval \in [Threads -> Words]
  /\ held \in [Threads -> 0 .. MaxCount + 1]
  /\ sleepers \subseteq Threads

(* At most one thread has obtained the mutex and not released it, whatever *)
(* the type, the path that acquired it (fast, slow, trylock, the trylock   *)
(* of destroy) and the interleaving.                                       *)
MutualExclusion ==
  \A t, u \in Threads : held[t] > 0 /\ held[u] > 0 => t = u

(* The word tells the truth about the holder: owner and counter fields are *)
(* those of the thread that holds it and of how often it locked it, so     *)
(* that unlock's EPERM test and recursive_increment decide rightly.        *)
WordMatchesHolder ==
  /\ word # DeadWord => (word.state = UNLOCKED <=> \A t \in Threads : held[t] = 0)
  /\ word.type # "normal" =>
       \A t \in Threads :
         /\ held[t] > 0 <=> word.owner = Tid[t]
         /\ held[t] > 0 => held[t] = word.count + 1

(* No lost wake-up: while a thread sleeps in futex_wait, the word is       *)
(* marked contended (its holder will wake somebody), or an unlocker is     *)
(* between its release and its wake, or an awake thread is still on the    *)
(* path that marks the word contended again before it sleeps or leaves.    *)
Rescuer(t) ==
  \/ pc[t] \in {"n_store", "wake"}
  \/ pc[t] \in {"n_swap", "r_slow", "r_slow_ld"} /\ t \notin sleepers
SleepersHaveRescuer ==
  sleepers # {} => word.state = CONTENDED \/ \E t \in Threads : Rescuer(t)

(* Nobody sleeps on a recursive or error-checking mutex it holds itself:   *)
(* the recursion is counted or refused with EDEADLK, never waited for.     *)
NoSelfDeadlock == \A t \in sleepers : held[t] = 0

(* A destroyed mutex is held by nobody: destroy's trylock fails with EBUSY *)
(* while the mutex is locked.                                              *)
DestroyedIsFree == word = DeadWord => \A t \in Threads : held[t] = 0

(* Once destroy has stored 0xdead10cc no call still in progress writes the *)
(* word again: an unlock that released the mutex only has its futex wake   *)
(* left, so the memory may be reused at once.                              *)
DestroyIsFinal == [][word = DeadWord /\ word' # word => UNCHANGED pc]_vars

(* A thread that sleeps while nobody holds the mutex is not left behind:   *)
(* the sleepers are woken or some thread gets the mutex.                   *)
NobodyStranded ==
  (sleepers # {} /\ \A t \in Threads : held[t] = 0)
     ~> (sleepers = {} \/ \E t \in Threads : held[t] > 0)

-----------------------------------------------------------------------------
(* The promise the mutex implements.                                       *)
Holder ==
  IF \A t \in Threads : held[t] = 0
  THEN NoOwner ELSE CHOOSE t \in Threads : held[t] > 0
Depth == IF Holder = NoOwner THEN 0 ELSE held[Holder]

Abstract == INSTANCE AbstractLock
              WITH holder <- Holder, depth <- Depth, MaxDepth <- MaxCount + 1
ImplementsLock == Abstract!Spec
=============================================================================
