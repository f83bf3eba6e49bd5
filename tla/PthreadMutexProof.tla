------------------------- MODULE PthreadMutexProof -------------------------
(***************************************************************************)
(* The safety of android_pthread_mutex.c for every set of threads, every   *)
(* assignment of identifiers and every counter width: an inductive         *)
(* invariant, the proof that each step keeps it, and what follows.         *)
(***************************************************************************)
EXTENDS PthreadMutex, TLAPS

(* The wake of an unlock reaches every thread that can be asleep: either   *)
(* the mutex is process-private or all its users are in one process.       *)
OneAddressSpace == \A t, u \in Threads : SameKey(t, u)

(* A word of an unlocked mutex has no owner, no count and no marks; so     *)
(* does a local copy of it.                                                *)
WellFormed(w) == w.state = UNLOCKED => w = Fresh(w.type)

(* What the word says about the holder, for each type.                     *)
NormalWord ==
  word.type = "normal" /\ word # DeadWord =>
    /\ word.count = 0 /\ word.owner = 0
    /\ \A t \in Threads : held[t] <= 1

(* Calls other than the tail of an unlock keep the mutex alive.            *)
DeadInv ==
  word = DeadWord =>
    \A t \in Threads : held[t] = 0 /\ pc[t] \in {"idle", "wake"}

(* Who may be where: the operation behind each label, whether the caller   *)
(* holds the mutex there, and what its local copy says.                    *)
OpInv(t) ==
  /\ pc[t] = "idle" <=> op[t] = "none"
  /\ pc[t] \in {"n_cas", "n_swap", "n_wait", "r_fast", "r_slow", "r_slow_ld",
                "r_wait"} => op[t] = "lock"
  /\ pc[t] \in {"n_try", "r_try"} => op[t] \in {"trylock", "destroy"}
  /\ pc[t] \in {"r_inc", "r_inc_ld"} => op[t] \in {"lock", "trylock"}
  /\ pc[t] \in {"n_dec", "n_store", "r_dec", "r_dec_ld", "r_swap", "wake"}
       => op[t] = "unlock"
  /\ pc[t] = "d_store" => op[t] = "destroy"
  /\ op[t] = "destroy" =>
       \A u \in Threads \ {t} : op[u] \notin {"lock", "trylock", "destroy"}

LocalInv(t) ==
  /\ pc[t] \in {"n_cas", "n_swap", "n_wait", "n_try", "n_dec", "n_store"}
       => word.type = "normal"
  /\ pc[t] \in {"n_dec", "n_store", "d_store"} => held[t] = 1
  /\ pc[t] \in {"n_cas", "n_swap", "n_wait", "r_fast", "r_slow", "r_slow_ld",
                "r_wait"} => held[t] = 0
  /\ pc[t] \in {"r_inc", "r_inc_ld", "r_dec", "r_dec_ld", "r_swap", "r_try",
                "r_fast", "r_slow", "r_slow_ld", "r_wait"}
       => word.type # "normal" /\ mval[t].type = word.type /\ WellFormed(mval[t])
  /\ pc[t] \in {"r_inc", "r_inc_ld"} =>
       held[t] > 0 /\ word.type = "recursive" /\ word.count < MaxCount
  /\ pc[t] \in {"r_dec", "r_dec_ld"} => held[t] > 0 /\ word.count > 0
  /\ pc[t] = "r_swap" => held[t] = 1
  /\ pc[t] = "r_wait" => mval[t].state = CONTENDED
  /\ t \in sleepers => pc[t] \in {"n_swap", "r_slow_ld"}

HolderInv ==
  /\ MutualExclusion
  /\ WordMatchesHolder
  /\ WellFormed(word) \/ word = DeadWord
  /\ NormalWord

CallInv ==
  /\ DeadInv
  /\ \A t \in Threads : OpInv(t)
  /\ \A t \in Threads : LocalInv(t)

IInv == TypeOK /\ HolderInv /\ CallInv

-----------------------------------------------------------------------------
(* 0xdead10cc reads as an unlocked NORMAL word with an owner, so no fresh  *)
(* word equals it.                                                         *)
LEMMA DeadWordFacts ==
  /\ DeadWord.type = "normal" /\ DeadWord.state = UNLOCKED /\ DeadWord.owner # 0
  /\ \A ty : DeadWord # Fresh(ty)
BY DEF DeadWord, Fresh, UNLOCKED

(* The owner field holds naturals, 0 among them.                           *)
LEMMA OwnerFieldFacts == OwnerField \subseteq Nat /\ 0 \in OwnerField
BY DEF OwnerField

(* Nobody holds a mutex whose word is that of an unlocked one.             *)
LEMMA FreshIsFree ==
  ASSUME IInv, word = Fresh(word.type)
  PROVE  \A t \in Threads : held[t] = 0
BY DeadWordFacts DEF IInv, HolderInv, WordMatchesHolder, Fresh, UNLOCKED

(* A step that writes neither the word nor the count of locks keeps what   *)
(* relates the two.                                                        *)
LEMMA QuietStep ==
  ASSUME IInv, UNCHANGED << word, held >>
  PROVE  HolderInv'
BY DEF IInv, HolderInv, MutualExclusion, WordMatchesHolder, WellFormed, NormalWord

(* The word of a freshly initialised mutex is a word.                      *)
LEMMA FreshWords == \A ty \in {"normal", "recursive", "errorcheck"} : Fresh(ty) \in Words
BY OwnerFieldFacts, CountAssumption DEF Words, Fresh, UNLOCKED

(* What a thread about to release a NORMAL mutex knows of the word.        *)
LEMMA NormalHolder ==
  ASSUME IInv, NEW t \in Threads, pc[t] \in {"n_dec", "n_store"}
  PROVE  /\ word \in Words /\ word # DeadWord /\ word.type = "normal"
         /\ word.state \in {UNCONTENDED, CONTENDED}
         /\ held[t] = 1
         /\ \A u \in Threads \ {t} : held[u] = 0
BY DEF IInv, HolderInv, CallInv, TypeOK, Words, MutualExclusion, WordMatchesHolder,
       LocalInv, DeadInv, UNLOCKED, UNCONTENDED, CONTENDED

(* What a thread about to change the counter of a recursive or error-      *)
(* checking mutex, or to release one, knows of the word.                   *)
LEMMA OwnerHolder ==
  ASSUME IInv, NEW t \in Threads, pc[t] \in {"r_inc", "r_dec", "r_swap"}
  PROVE  /\ word \in Words /\ word # DeadWord /\ word.type # "normal"
         /\ word.state \in {UNCONTENDED, CONTENDED}
         /\ word.owner = Tid[t] /\ held[t] = word.count + 1
         /\ \A u \in Threads \ {t} : held[u] = 0
BY DEF IInv, HolderInv, CallInv, TypeOK, Words, MutualExclusion, WordMatchesHolder,
       LocalInv, DeadInv, UNLOCKED, UNCONTENDED, CONTENDED

(* The word is an ordinary one while any call but the tail of unlock runs. *)
LEMMA LiveWord ==
  ASSUME IInv, NEW t \in Threads, pc[t] \notin {"idle", "wake"}
  PROVE  word \in Words /\ word # DeadWord
BY DEF IInv, CallInv, TypeOK, DeadInv

(* A call that starts changes nothing for the other threads.               *)
LEMMA OtherLocal ==
  ASSUME IInv, NEW t \in Threads, NEW u \in Threads \ {t}, NEW o, NEW l,
         Call(t, o, l), UNCHANGED << word, held, sleepers >>
  PROVE  LocalInv(u)'
<1>1. pc'[u] = pc[u] /\ mval'[u] = mval[u] /\ UNCHANGED << word, held, sleepers >>
  BY DEF IInv, TypeOK, Call
<1>2. LocalInv(u)
  BY DEF IInv, CallInv
<1> QED BY <1>1, <1>2 DEF LocalInv, WellFormed

(* The first compare-and-exchange of android_normal_lock keeps the invariant. *)
LEMMA NormalCasStep ==
  ASSUME IInv, NEW t \in Threads, NormalCas(t)
  PROVE  IInv'
<1>1. TypeOK'
  <2>1. word' \in Words \cup {DeadWord}
    BY FreshWords, LiveWord DEF IInv, TypeOK, Words, NormalCas, TryTake, Taken,
         Fresh, UNLOCKED, UNCONTENDED, CONTENDED
  <2>2. pc' \in [Threads -> Pcs] /\ op' \in [Threads -> Ops]
    BY DEF IInv, TypeOK, Pcs, Ops, NormalCas, TryTake, Succeed, Goto, Return
  <2>3. mval' \in [Threads -> Words]
    BY FreshWords, LiveWord DEF IInv, TypeOK, NormalCas, TryTake, Succeed,
         Goto, Return, NoValue
  <2>4. held' \in [Threads -> 0 .. MaxCount + 1]
    BY CountAssumption DEF IInv, HolderInv, CallInv, TypeOK, WordMatchesHolder,
         LocalInv, NormalCas, TryTake, Succeed
  <2>5. sleepers' \subseteq Threads
    BY DEF IInv, TypeOK, NormalCas
  <2> QED BY <2>1, <2>2, <2>3, <2>4, <2>5 DEF TypeOK
<1>2. HolderInv'
  <2>1. MutualExclusion'
    BY FreshIsFree DEF IInv, HolderInv, CallInv, TypeOK, MutualExclusion,
         WordMatchesHolder, LocalInv, DeadInv, NormalCas, TryTake, Succeed, Taken,
         Fresh
  <2>2. WordMatchesHolder'
    BY TidAssumption DEF IInv, HolderInv, CallInv, TypeOK, Words,
         WordMatchesHolder, LocalInv, DeadInv, NormalCas, TryTake, Succeed, Taken,
         Fresh, UNLOCKED, UNCONTENDED, CONTENDED
  <2>3. WellFormed(word)' \/ word' = DeadWord
    BY DEF IInv, HolderInv, CallInv, WellFormed, WordMatchesHolder, LocalInv,
         NormalCas, TryTake, Taken, Fresh, UNLOCKED, UNCONTENDED, CONTENDED
  <2>4. NormalWord'
    BY DEF IInv, HolderInv, CallInv, TypeOK, WordMatchesHolder, LocalInv,
         DeadInv, NormalWord, NormalCas, TryTake, Succeed, Taken, Fresh
  <2> QED BY <2>1, <2>2, <2>3, <2>4 DEF HolderInv
<1>3. DeadInv'
  BY DeadWordFacts DEF IInv, CallInv, DeadInv, TypeOK, NormalCas, TryTake,
       Succeed, Goto, Return, Taken, Fresh
<1>4. ASSUME NEW u \in Threads PROVE OpInv(u)'
  BY DEF IInv, CallInv, TypeOK, OpInv, NormalCas, TryTake, Succeed, Goto,
       Return
<1>5. ASSUME NEW u \in Threads PROVE LocalInv(u)'
  BY DEF IInv, HolderInv, CallInv, TypeOK, WordMatchesHolder, WellFormed,
       LocalInv, DeadInv, OpInv, NormalCas, TryTake, Succeed, Goto, Return, Taken,
       Fresh, UNLOCKED, UNCONTENDED, CONTENDED
<1> QED BY <1>1, <1>2, <1>3, <1>4, <1>5 DEF IInv, CallInv

(* The compare-and-exchange of a trylock of a NORMAL mutex keeps it.       *)
LEMMA NormalTryStep ==
  ASSUME IInv, NEW t \in Threads, NormalTry(t)
  PROVE  IInv'
<1>1. TypeOK'
  <2>1. word' \in Words \cup {DeadWord}
    BY FreshWords, LiveWord DEF IInv, TypeOK, Words, NormalTry, TryTake, Taken,
         Fresh, UNLOCKED, UNCONTENDED, CONTENDED
  <2>2. pc' \in [Threads -> Pcs] /\ op' \in [Threads -> Ops]
    BY DEF IInv, TypeOK, Pcs, Ops, NormalTry, TryTake, Succeed, Goto, Return
  <2>3. mval' \in [Threads -> Words]
    BY FreshWords, LiveWord DEF IInv, TypeOK, NormalTry, TryTake, Succeed,
         Goto, Return, NoValue
  <2>4. held' \in [Threads -> 0 .. MaxCount + 1]
    BY CountAssumption, FreshIsFree DEF IInv, CallInv, TypeOK, LocalInv,
         NormalTry, TryTake, Succeed
  <2>5. sleepers' \subseteq Threads
    BY DEF IInv, TypeOK, NormalTry
  <2> QED BY <2>1, <2>2, <2>3, <2>4, <2>5 DEF TypeOK
<1>2. HolderInv'
  <2>1. MutualExclusion'
    BY FreshIsFree DEF IInv, HolderInv, CallInv, TypeOK, MutualExclusion,
         WordMatchesHolder, LocalInv, DeadInv, NormalTry, TryTake, Succeed, Taken,
         Fresh
  <2>2. WordMatchesHolder'
    BY TidAssumption DEF IInv, HolderInv, CallInv, TypeOK, Words,
         WordMatchesHolder, LocalInv, DeadInv, NormalTry, TryTake, Succeed, Taken,
         Fresh, UNLOCKED, UNCONTENDED, CONTENDED
  <2>3. WellFormed(word)' \/ word' = DeadWord
    BY DEF IInv, HolderInv, CallInv, WellFormed, WordMatchesHolder, LocalInv,
         NormalTry, TryTake, Taken, Fresh, UNLOCKED, UNCONTENDED, CONTENDED
  <2>4. NormalWord'
    BY DEF IInv, HolderInv, CallInv, TypeOK, WordMatchesHolder, LocalInv,
         DeadInv, NormalWord, NormalTry, TryTake, Succeed, Taken, Fresh
  <2> QED BY <2>1, <2>2, <2>3, <2>4 DEF HolderInv
<1>3. DeadInv'
  BY DeadWordFacts DEF IInv, CallInv, DeadInv, TypeOK, NormalTry, TryTake,
       Succeed, Goto, Return, Taken, Fresh
<1>4. ASSUME NEW u \in Threads PROVE OpInv(u)'
  BY DEF IInv, CallInv, TypeOK, OpInv, NormalTry, TryTake, Succeed, Goto,
       Return
<1>5. ASSUME NEW u \in Threads PROVE LocalInv(u)'
  BY TidAssumption DEF IInv, HolderInv, CallInv, TypeOK, WordMatchesHolder,
       WellFormed, LocalInv, DeadInv, OpInv, NormalTry, TryTake, Succeed, Goto,
       Return, Taken, Fresh, UNLOCKED, UNCONTENDED, CONTENDED
<1> QED BY <1>1, <1>2, <1>3, <1>4, <1>5 DEF IInv, CallInv

(* The swap that marks a NORMAL mutex contended, or takes it, keeps it.    *)
LEMMA NormalSwapStep ==
  ASSUME IInv, NEW t \in Threads, NormalSwap(t)
  PROVE  IInv'
<1>1. TypeOK'
  <2>1. word' \in Words \cup {DeadWord}
    BY FreshWords, LiveWord DEF IInv, TypeOK, Words, NormalSwap, Taken, Fresh,
         UNLOCKED, UNCONTENDED, CONTENDED
  <2>2. pc' \in [Threads -> Pcs] /\ op' \in [Threads -> Ops]
    BY DEF IInv, TypeOK, Pcs, Ops, NormalSwap, Succeed, Goto, Return
  <2>3. mval' \in [Threads -> Words]
    BY FreshWords DEF IInv, TypeOK, NormalSwap, Succeed, Goto, Return, NoValue
  <2>4. held' \in [Threads -> 0 .. MaxCount + 1]
    BY CountAssumption DEF IInv, HolderInv, CallInv, TypeOK, WordMatchesHolder,
         LocalInv, NormalSwap, Succeed
  <2>5. sleepers' \subseteq Threads
    BY DEF IInv, TypeOK, NormalSwap
  <2> QED BY <2>1, <2>2, <2>3, <2>4, <2>5 DEF TypeOK
<1>2. HolderInv'
  <2>1. MutualExclusion'
    BY FreshIsFree DEF IInv, HolderInv, CallInv, TypeOK, MutualExclusion,
         WordMatchesHolder, LocalInv, DeadInv, NormalSwap, Succeed, Taken, Fresh
  <2>2. WordMatchesHolder'
    BY DEF IInv, HolderInv, CallInv, TypeOK, WordMatchesHolder, LocalInv,
         DeadInv, NormalSwap, Succeed, Taken, UNLOCKED, CONTENDED, WellFormed
  <2>3. WellFormed(word)' \/ word' = DeadWord
    BY DEF IInv, HolderInv, CallInv, WellFormed, WordMatchesHolder, LocalInv,
         NormalSwap, Taken, Fresh, UNLOCKED, UNCONTENDED, CONTENDED
  <2>4. NormalWord'
    BY DEF IInv, HolderInv, CallInv, TypeOK, WordMatchesHolder, LocalInv,
         DeadInv, NormalWord, NormalSwap, Succeed, Taken, Fresh
  <2> QED BY <2>1, <2>2, <2>3, <2>4 DEF HolderInv
<1>3. DeadInv'
  BY DeadWordFacts DEF IInv, CallInv, DeadInv, TypeOK, NormalSwap, Succeed,
       Goto, Return, Taken, Fresh
<1>4. ASSUME NEW u \in Threads PROVE OpInv(u)'
  BY DEF IInv, CallInv, TypeOK, OpInv, NormalSwap, Succeed, Goto, Return
<1>5. ASSUME NEW u \in Threads PROVE LocalInv(u)'
  BY TidAssumption DEF IInv, HolderInv, CallInv, TypeOK, WordMatchesHolder,
       WellFormed, LocalInv, DeadInv, OpInv, NormalSwap, Succeed, Goto, Return,
       Taken, Fresh, UNLOCKED, UNCONTENDED, CONTENDED
<1> QED BY <1>1, <1>2, <1>3, <1>4, <1>5 DEF IInv, CallInv

(* The futex wait of android_normal_lock keeps it.                         *)
LEMMA NormalWaitStep ==
  ASSUME IInv, NEW t \in Threads, NormalWait(t)
  PROVE  IInv'
<1>1. TypeOK'
  <2>1. word' \in Words \cup {DeadWord}
    BY DEF IInv, TypeOK, NormalWait, FutexWait, Taken, Fresh
  <2>2. pc' \in [Threads -> Pcs] /\ op' \in [Threads -> Ops]
    BY DEF IInv, TypeOK, Pcs, Ops, NormalWait, Goto
  <2>3. mval' \in [Threads -> Words]
    BY FreshWords, LiveWord DEF IInv, TypeOK, NormalWait, Goto
  <2>4. held' \in [Threads -> 0 .. MaxCount + 1]
    BY CountAssumption DEF IInv, TypeOK, NormalWait
  <2>5. sleepers' \subseteq Threads
    BY DEF IInv, TypeOK, NormalWait, FutexWait
  <2> QED BY <2>1, <2>2, <2>3, <2>4, <2>5 DEF TypeOK
<1>2. HolderInv'
  BY QuietStep DEF NormalWait
<1>3. DeadInv'
  BY DeadWordFacts DEF IInv, CallInv, DeadInv, TypeOK, NormalWait, FutexWait,
       Goto, Taken, Fresh
<1>4. ASSUME NEW u \in Threads PROVE OpInv(u)'
  BY DEF IInv, CallInv, TypeOK, OpInv, NormalWait, Goto
<1>5. ASSUME NEW u \in Threads PROVE LocalInv(u)'
  BY TidAssumption DEF IInv, HolderInv, CallInv, TypeOK, WordMatchesHolder,
       WellFormed, LocalInv, DeadInv, OpInv, NormalWait, FutexWait, Goto, Taken,
       Fresh
<1> QED BY <1>1, <1>2, <1>3, <1>4, <1>5 DEF IInv, CallInv

(* The decrement of android_normal_unlock keeps it.                        *)
LEMMA NormalDecStep ==
  ASSUME IInv, NEW t \in Threads, NormalDec(t)
  PROVE  IInv'
<1>1. TypeOK'
  <2>1. word' \in Words \cup {DeadWord}
    BY NormalHolder, FreshWords DEF IInv, TypeOK, Words, NormalDec, Fresh,
         UNLOCKED, UNCONTENDED, CONTENDED
  <2>2. pc' \in [Threads -> Pcs] /\ op' \in [Threads -> Ops]
    BY DEF IInv, TypeOK, Pcs, Ops, NormalDec, Goto, Return
  <2>3. mval' \in [Threads -> Words]
    BY FreshWords DEF IInv, TypeOK, NormalDec, Goto, Return, NoValue
  <2>4. held' \in [Threads -> 0 .. MaxCount + 1]
    BY CountAssumption, NormalHolder DEF IInv, HolderInv, CallInv, TypeOK,
         WordMatchesHolder, LocalInv, NormalDec, Released
  <2>5. sleepers' \subseteq Threads
    BY DEF IInv, TypeOK, NormalDec
  <2> QED BY <2>1, <2>2, <2>3, <2>4, <2>5 DEF TypeOK
<1>2. HolderInv'
  <2>1. MutualExclusion'
    BY NormalHolder, FreshIsFree DEF IInv, HolderInv, CallInv, TypeOK,
         MutualExclusion, WordMatchesHolder, LocalInv, DeadInv, NormalDec, Released,
         Fresh
  <2>2. WordMatchesHolder'
    BY NormalHolder, TidAssumption DEF IInv, HolderInv, CallInv, TypeOK, Words,
         WordMatchesHolder, LocalInv, DeadInv, NormalDec, Released, Fresh, UNLOCKED,
         UNCONTENDED, CONTENDED
  <2>3. WellFormed(word)' \/ word' = DeadWord
    BY DEF IInv, HolderInv, CallInv, WellFormed, LocalInv, NormalDec, Fresh,
         TypeOK, Words, DeadInv, NormalWord
  <2>4. NormalWord'
    BY NormalHolder DEF IInv, HolderInv, CallInv, TypeOK, WordMatchesHolder,
         LocalInv, DeadInv, NormalWord, NormalDec, Released, Fresh
  <2> QED BY <2>1, <2>2, <2>3, <2>4 DEF HolderInv
<1>3. DeadInv'
  BY DeadWordFacts DEF IInv, CallInv, DeadInv, TypeOK, NormalDec, HolderInv,
       Words, NormalWord
<1>4. ASSUME NEW u \in Threads PROVE OpInv(u)'
  BY DEF IInv, CallInv, TypeOK, OpInv, NormalDec, Goto, Return
<1>5. ASSUME NEW u \in Threads PROVE LocalInv(u)'
  BY NormalHolder, TidAssumption DEF IInv, HolderInv, CallInv, TypeOK,
       WordMatchesHolder, WellFormed, LocalInv, DeadInv, OpInv, NormalDec, Goto,
       Return, Released, Fresh, UNLOCKED, UNCONTENDED, CONTENDED
<1> QED BY <1>1, <1>2, <1>3, <1>4, <1>5 DEF IInv, CallInv

(* The store of 0 over a contended word keeps it.                          *)
LEMMA NormalStoreStep ==
  ASSUME IInv, NEW t \in Threads, NormalStore(t)
  PROVE  IInv'
<1>1. TypeOK'
  <2>1. word' \in Words \cup {DeadWord}
    BY NormalHolder, FreshWords DEF IInv, TypeOK, Words, NormalStore, Fresh,
         UNLOCKED, UNCONTENDED, CONTENDED
  <2>2. pc' \in [Threads -> Pcs] /\ op' \in [Threads -> Ops]
    BY DEF IInv, TypeOK, Pcs, Ops, NormalStore, Goto
  <2>3. mval' \in [Threads -> Words]
    BY FreshWords, LiveWord DEF IInv, TypeOK, NormalStore, Goto
  <2>4. held' \in [Threads -> 0 .. MaxCount + 1]
    BY CountAssumption, NormalHolder DEF IInv, HolderInv, CallInv, TypeOK,
         WordMatchesHolder, LocalInv, NormalStore, Released
  <2>5. sleepers' \subseteq Threads
    BY DEF IInv, TypeOK, NormalStore
  <2> QED BY <2>1, <2>2, <2>3, <2>4, <2>5 DEF TypeOK
<1>2. HolderInv'
  <2>1. MutualExclusion'
    BY NormalHolder, FreshIsFree DEF IInv, HolderInv, CallInv, TypeOK,
         MutualExclusion, WordMatchesHolder, LocalInv, DeadInv, NormalStore,
         Released, Fresh
  <2>2. WordMatchesHolder'
    BY NormalHolder, TidAssumption DEF IInv, HolderInv, CallInv, TypeOK, Words,
         WordMatchesHolder, LocalInv, DeadInv, NormalStore, Released, Fresh,
         UNLOCKED, UNCONTENDED, CONTENDED
  <2>3. WellFormed(word)' \/ word' = DeadWord
    BY NormalHolder DEF IInv, HolderInv, CallInv, WellFormed,
         WordMatchesHolder, LocalInv, NormalStore, Fresh, UNLOCKED, UNCONTENDED,
         CONTENDED
  <2>4. NormalWord'
    BY NormalHolder DEF IInv, HolderInv, CallInv, TypeOK, WordMatchesHolder,
         LocalInv, DeadInv, NormalWord, NormalStore, Released, Fresh
  <2> QED BY <2>1, <2>2, <2>3, <2>4 DEF HolderInv
<1>3. DeadInv'
  BY DeadWordFacts DEF IInv, CallInv, DeadInv, TypeOK, NormalStore, Goto,
       Released, Fresh
<1>4. ASSUME NEW u \in Threads PROVE OpInv(u)'
  BY DEF IInv, CallInv, TypeOK, OpInv, NormalStore, Goto
<1>5. ASSUME NEW u \in Threads PROVE LocalInv(u)'
  BY NormalHolder, TidAssumption DEF IInv, HolderInv, CallInv, TypeOK,
       WordMatchesHolder, WellFormed, LocalInv, DeadInv, OpInv, NormalStore, Goto,
       Released, Fresh, UNLOCKED, UNCONTENDED, CONTENDED
<1> QED BY <1>1, <1>2, <1>3, <1>4, <1>5 DEF IInv, CallInv

(* The futex wake that ends an unlock keeps it.                            *)
LEMMA WakeStep ==
  ASSUME IInv, NEW t \in Threads, Wake(t)
  PROVE  IInv'
<1>1. TypeOK'
  <2>1. word' \in Words \cup {DeadWord}
    BY DEF IInv, TypeOK, Wake
  <2>2. pc' \in [Threads -> Pcs] /\ op' \in [Threads -> Ops]
    BY DEF IInv, TypeOK, Pcs, Ops, Wake, Return
  <2>3. mval' \in [Threads -> Words]
    BY FreshWords DEF IInv, TypeOK, Wake, Return, NoValue
  <2>4. held' \in [Threads -> 0 .. MaxCount + 1]
    BY CountAssumption DEF IInv, TypeOK, Wake
  <2>5. sleepers' \subseteq Threads
    BY DEF IInv, TypeOK, Wake, FutexWakeOne, Wakeable
  <2> QED BY <2>1, <2>2, <2>3, <2>4, <2>5 DEF TypeOK
<1>2. HolderInv'
  BY QuietStep DEF Wake
<1>3. DeadInv'
  BY DeadWordFacts DEF IInv, CallInv, DeadInv, TypeOK, Wake, Return
<1>4. ASSUME NEW u \in Threads PROVE OpInv(u)'
  BY DEF IInv, CallInv, TypeOK, OpInv, Wake, Return
<1>5. ASSUME NEW u \in Threads PROVE LocalInv(u)'
  BY TidAssumption DEF IInv, HolderInv, CallInv, TypeOK, WordMatchesHolder,
       WellFormed, LocalInv, DeadInv, OpInv, Wake, FutexWakeOne, Wakeable, Return
<1> QED BY <1>1, <1>2, <1>3, <1>4, <1>5 DEF IInv, CallInv

(* The store of 0xdead10cc keeps it: the destroyer is alone in the mutex.  *)
LEMMA DestroyStoreStep ==
  ASSUME IInv, NEW t \in Threads, DestroyStore(t)
  PROVE  IInv'
<1>0. \A u \in Threads \ {t} : held[u] = 0 /\ pc[u] \in {"idle", "wake"}
  BY DEF IInv, CallInv, HolderInv, TypeOK, Pcs, Ops, MutualExclusion, OpInv,
       LocalInv, DestroyStore
<1>1. TypeOK'
  <2>1. word' \in Words \cup {DeadWord}
    BY FreshWords, LiveWord DEF IInv, TypeOK, Words, DestroyStore, UNLOCKED,
         UNCONTENDED, CONTENDED
  <2>2. pc' \in [Threads -> Pcs] /\ op' \in [Threads -> Ops]
    BY DEF IInv, TypeOK, Pcs, Ops, DestroyStore, Return
  <2>3. mval' \in [Threads -> Words]
    BY FreshWords DEF IInv, TypeOK, DestroyStore, Return, NoValue
  <2>4. held' \in [Threads -> 0 .. MaxCount + 1]
    BY CountAssumption DEF IInv, HolderInv, CallInv, TypeOK, WordMatchesHolder,
         LocalInv, DestroyStore, Released
  <2>5. sleepers' \subseteq Threads
    BY DEF IInv, TypeOK, DestroyStore
  <2> QED BY <2>1, <2>2, <2>3, <2>4, <2>5 DEF TypeOK
<1>2. HolderInv'
  <2>1. MutualExclusion'
    BY FreshIsFree DEF IInv, HolderInv, CallInv, TypeOK, MutualExclusion,
         WordMatchesHolder, LocalInv, DeadInv, DestroyStore, Released
  <2>2. WordMatchesHolder'
    BY DeadWordFacts, <1>0 DEF WordMatchesHolder, DestroyStore
  <2>3. WellFormed(word)' \/ word' = DeadWord
    BY DEF IInv, HolderInv, CallInv, WellFormed, WordMatchesHolder, LocalInv,
         DestroyStore, UNLOCKED, UNCONTENDED, CONTENDED
  <2>4. NormalWord'
    BY DEF IInv, HolderInv, CallInv, TypeOK, WordMatchesHolder, LocalInv,
         DeadInv, NormalWord, DestroyStore, Released
  <2> QED BY <2>1, <2>2, <2>3, <2>4 DEF HolderInv
<1>3. DeadInv'
  BY <1>0 DEF IInv, CallInv, DeadInv, TypeOK, DestroyStore, Return, Released,
       LocalInv
<1>4. ASSUME NEW u \in Threads PROVE OpInv(u)'
  BY DEF IInv, CallInv, TypeOK, OpInv, DestroyStore, Return
<1>5. ASSUME NEW u \in Threads PROVE LocalInv(u)'
  BY <1>0 DEF IInv, CallInv, TypeOK, LocalInv, DestroyStore, Return
<1> QED BY <1>1, <1>2, <1>3, <1>4, <1>5 DEF IInv, CallInv

(* The compare-and-exchange of android_recursive_increment keeps it.       *)
LEMMA IncrementStep ==
  ASSUME IInv, NEW t \in Threads, Increment(t)
  PROVE  IInv'
<1>0. word.count < MaxCount /\ mval[t].type = word.type
  BY DEF IInv, CallInv, LocalInv, Increment
<1>1. TypeOK'
  <2>1. word' \in Words \cup {DeadWord}
    BY CountAssumption, <1>0 DEF IInv, TypeOK, Words, Increment
  <2>2. pc' \in [Threads -> Pcs] /\ op' \in [Threads -> Ops]
    BY DEF IInv, TypeOK, Pcs, Ops, Increment, Succeed, Goto, Return
  <2>3. mval' \in [Threads -> Words]
    BY FreshWords DEF IInv, TypeOK, Increment, Succeed, Goto, Return, NoValue
  <2>4. held' \in [Threads -> 0 .. MaxCount + 1]
    BY CountAssumption, OwnerHolder, <1>0 DEF IInv, TypeOK, Increment, Succeed,
         Words
  <2>5. sleepers' \subseteq Threads
    BY DEF IInv, TypeOK, Increment
  <2> QED BY <2>1, <2>2, <2>3, <2>4, <2>5 DEF TypeOK
<1>2. HolderInv'
  <2>1. MutualExclusion'
    BY OwnerHolder, FreshIsFree DEF IInv, HolderInv, CallInv, TypeOK,
         MutualExclusion, WordMatchesHolder, LocalInv, DeadInv, Increment, Succeed,
         Fresh
  <2>2. WordMatchesHolder'
    BY OwnerHolder, TidAssumption DEF IInv, HolderInv, CallInv, TypeOK, Words,
         WordMatchesHolder, LocalInv, DeadInv, Increment, Succeed, Fresh, UNLOCKED,
         UNCONTENDED, CONTENDED
  <2>3. WellFormed(word)' \/ word' = DeadWord
    BY TidAssumption, <1>0 DEF IInv, HolderInv, CallInv, WellFormed,
         WordMatchesHolder, LocalInv, Increment, Fresh, TypeOK, Words
  <2>4. NormalWord'
    BY <1>0 DEF IInv, CallInv, TypeOK, LocalInv, NormalWord, Increment, Words
  <2> QED BY <2>1, <2>2, <2>3, <2>4 DEF HolderInv
<1>3. DeadInv'
  BY DeadWordFacts, <1>0 DEF IInv, CallInv, DeadInv, TypeOK, Increment, Fresh,
       HolderInv, Words, WellFormed
<1>4. ASSUME NEW u \in Threads PROVE OpInv(u)'
  BY DEF IInv, CallInv, TypeOK, OpInv, Increment, Succeed, Goto, Return
<1>5. ASSUME NEW u \in Threads PROVE LocalInv(u)'
  BY <1>0 DEF IInv, HolderInv, CallInv, TypeOK, LocalInv, OpInv, Increment,
       Succeed, Goto, Return, Words, MutualExclusion
<1> QED BY <1>1, <1>2, <1>3, <1>4, <1>5 DEF IInv, CallInv

(* The compare-and-exchange of a recursive unlock keeps it.                *)
LEMMA DecrementStep ==
  ASSUME IInv, NEW t \in Threads, Decrement(t)
  PROVE  IInv'
<1>0. word.count > 0 /\ mval[t].type = word.type
  BY DEF IInv, CallInv, LocalInv, Decrement
<1>1. TypeOK'
  <2>1. word' \in Words \cup {DeadWord}
    BY CountAssumption, <1>0 DEF IInv, TypeOK, Words, Decrement
  <2>2. pc' \in [Threads -> Pcs] /\ op' \in [Threads -> Ops]
    BY DEF IInv, TypeOK, Pcs, Ops, Decrement, Goto, Return
  <2>3. mval' \in [Threads -> Words]
    BY FreshWords DEF IInv, TypeOK, Decrement, Goto, Return, NoValue
  <2>4. held' \in [Threads -> 0 .. MaxCount + 1]
    BY CountAssumption, OwnerHolder DEF IInv, HolderInv, CallInv, TypeOK,
         WordMatchesHolder, LocalInv, Decrement, Released
  <2>5. sleepers' \subseteq Threads
    BY DEF IInv, TypeOK, Decrement
  <2> QED BY <2>1, <2>2, <2>3, <2>4, <2>5 DEF TypeOK
<1>2. HolderInv'
  <2>1. MutualExclusion'
    BY OwnerHolder, FreshIsFree DEF IInv, HolderInv, CallInv, TypeOK,
         MutualExclusion, WordMatchesHolder, LocalInv, DeadInv, Decrement, Released,
         Fresh
  <2>2. WordMatchesHolder'
    BY SMTT(30), OwnerHolder, TidAssumption DEF IInv, HolderInv, CallInv, TypeOK, Words,
         WordMatchesHolder, LocalInv, DeadInv, Decrement, Released, Fresh, UNLOCKED,
         UNCONTENDED, CONTENDED
  <2>3. WellFormed(word)' \/ word' = DeadWord
    BY <1>0 DEF IInv, HolderInv, CallInv, WellFormed, LocalInv, Decrement,
         Fresh, TypeOK, Words
  <2>4. NormalWord'
    BY <1>0 DEF IInv, HolderInv, CallInv, TypeOK, DeadInv, NormalWord,
         Decrement, Words
  <2> QED BY <2>1, <2>2, <2>3, <2>4 DEF HolderInv
<1>3. DeadInv'
  BY DeadWordFacts, <1>0 DEF IInv, CallInv, DeadInv, TypeOK, Decrement, Fresh,
       HolderInv, Words, WellFormed
<1>4. ASSUME NEW u \in Threads PROVE OpInv(u)'
  BY DEF IInv, CallInv, TypeOK, OpInv, Decrement, Goto, Return
<1>5. ASSUME NEW u \in Threads PROVE LocalInv(u)'
  BY <1>0 DEF IInv, HolderInv, CallInv, TypeOK, LocalInv, Decrement, Goto,
       Return, Released, Words, MutualExclusion
<1> QED BY <1>1, <1>2, <1>3, <1>4, <1>5 DEF IInv, CallInv

(* The loads of the retry loops keep it.                                   *)
LEMMA ReloadStep ==
  ASSUME IInv, NEW t \in Threads, Reload(t)
  PROVE  IInv'
<1>1. TypeOK'
  <2>1. word' \in Words \cup {DeadWord}
    BY DEF IInv, TypeOK, Reload
  <2>2. pc' \in [Threads -> Pcs] /\ op' \in [Threads -> Ops]
    BY DEF IInv, TypeOK, Pcs, Ops, Reload, LoadAndGoto
  <2>3. mval' \in [Threads -> Words]
    BY FreshWords, LiveWord DEF IInv, TypeOK, Reload, LoadAndGoto
  <2>4. held' \in [Threads -> 0 .. MaxCount + 1]
    BY CountAssumption DEF IInv, TypeOK, Reload
  <2>5. sleepers' \subseteq Threads
    BY DEF IInv, TypeOK, Reload
  <2> QED BY <2>1, <2>2, <2>3, <2>4, <2>5 DEF TypeOK
<1>2. HolderInv'
  BY QuietStep DEF Reload
<1>3. DeadInv'
  BY DeadWordFacts DEF IInv, CallInv, DeadInv, TypeOK, Reload, LoadAndGoto
<1>4. ASSUME NEW u \in Threads PROVE OpInv(u)'
  BY DEF IInv, CallInv, TypeOK, OpInv, Reload, LoadAndGoto
<1>5. ASSUME NEW u \in Threads PROVE LocalInv(u)'
  BY TidAssumption DEF IInv, HolderInv, CallInv, TypeOK, WordMatchesHolder,
       WellFormed, LocalInv, DeadInv, OpInv, Reload, LoadAndGoto
<1> QED BY <1>1, <1>2, <1>3, <1>4, <1>5 DEF IInv, CallInv

(* The compare-and-exchange of the fast path and of trylock keeps it.      *)
LEMMA OwnerCasStep ==
  ASSUME IInv, NEW t \in Threads, OwnerCas(t)
  PROVE  IInv'
<1>1. TypeOK'
  <2>1. word' \in Words \cup {DeadWord}
    BY OwnerFieldFacts, CountAssumption, TidAssumption DEF IInv, TypeOK, Words,
         OwnerCas, TryTake, Taken, UNCONTENDED
  <2>2. pc' \in [Threads -> Pcs] /\ op' \in [Threads -> Ops]
    BY DEF IInv, TypeOK, Pcs, Ops, OwnerCas, TryTake, Succeed, Goto, Return
  <2>3. mval' \in [Threads -> Words]
    BY FreshWords, LiveWord DEF IInv, TypeOK, OwnerCas, TryTake, Succeed, Goto,
         Return, NoValue
  <2>4. held' \in [Threads -> 0 .. MaxCount + 1]
    BY CountAssumption, FreshIsFree DEF IInv, CallInv, TypeOK, LocalInv,
         OwnerCas, TryTake, Succeed
  <2>5. sleepers' \subseteq Threads
    BY DEF IInv, TypeOK, OwnerCas
  <2> QED BY <2>1, <2>2, <2>3, <2>4, <2>5 DEF TypeOK
<1>2. HolderInv'
  <2>1. MutualExclusion'
    BY FreshIsFree DEF IInv, HolderInv, CallInv, TypeOK, MutualExclusion,
         WordMatchesHolder, LocalInv, DeadInv, OwnerCas, TryTake, Succeed, Taken,
         Fresh
  <2>2. WordMatchesHolder'
    BY TidAssumption DEF IInv, HolderInv, CallInv, TypeOK, Words,
         WordMatchesHolder, LocalInv, DeadInv, OwnerCas, TryTake, Succeed, Taken,
         Fresh, UNLOCKED, UNCONTENDED, CONTENDED
  <2>3. WellFormed(word)' \/ word' = DeadWord
    BY DEF IInv, HolderInv, CallInv, WellFormed, WordMatchesHolder, LocalInv,
         OwnerCas, TryTake, Taken, Fresh, UNLOCKED, UNCONTENDED, CONTENDED
  <2>4. NormalWord'
    BY DEF IInv, HolderInv, CallInv, TypeOK, WordMatchesHolder, LocalInv,
         DeadInv, NormalWord, OwnerCas, TryTake, Succeed, Taken, Fresh
  <2> QED BY <2>1, <2>2, <2>3, <2>4 DEF HolderInv
<1>3. DeadInv'
  BY DeadWordFacts DEF IInv, CallInv, DeadInv, TypeOK, OwnerCas, TryTake,
       Succeed, Goto, Return, Taken, Fresh
<1>4. ASSUME NEW u \in Threads PROVE OpInv(u)'
  BY DEF IInv, CallInv, TypeOK, OpInv, OwnerCas, TryTake, Succeed, Goto, Return
<1>5. ASSUME NEW u \in Threads PROVE LocalInv(u)'
  BY TidAssumption DEF IInv, HolderInv, CallInv, TypeOK, WordMatchesHolder,
       WellFormed, LocalInv, DeadInv, OpInv, OwnerCas, TryTake, Succeed, Goto,
       Return, Taken, Fresh, UNLOCKED, UNCONTENDED, CONTENDED
<1> QED BY <1>1, <1>2, <1>3, <1>4, <1>5 DEF IInv, CallInv

(* Taking a free mutex in the loop of lock keeps it.                       *)
LEMMA SlowTakeStep ==
  ASSUME IInv, NEW t \in Threads, SlowTake(t)
  PROVE  IInv'
<1>1. TypeOK'
  <2>1. word' \in Words \cup {DeadWord}
    BY TidAssumption DEF IInv, TypeOK, Words, SlowTake, TryTake, Taken, Fresh,
         CONTENDED
  <2>2. pc' \in [Threads -> Pcs] /\ op' \in [Threads -> Ops]
    BY DEF IInv, TypeOK, Pcs, Ops, SlowTake, TryTake, Succeed, Goto, Return
  <2>3. mval' \in [Threads -> Words]
    BY FreshWords, LiveWord DEF IInv, TypeOK, SlowTake, TryTake, Succeed, Goto,
         Return, NoValue
  <2>4. held' \in [Threads -> 0 .. MaxCount + 1]
    BY CountAssumption DEF IInv, HolderInv, CallInv, TypeOK, WordMatchesHolder,
         LocalInv, SlowTake, TryTake, Succeed
  <2>5. sleepers' \subseteq Threads
    BY DEF IInv, TypeOK, SlowTake
  <2> QED BY <2>1, <2>2, <2>3, <2>4, <2>5 DEF TypeOK
<1>2. HolderInv'
  <2>1. MutualExclusion'
    BY FreshIsFree DEF IInv, HolderInv, CallInv, TypeOK, MutualExclusion,
         WordMatchesHolder, LocalInv, DeadInv, SlowTake, TryTake, Succeed, Taken,
         Fresh
  <2>2. WordMatchesHolder'
    BY TidAssumption DEF IInv, HolderInv, CallInv, TypeOK, Words,
         WordMatchesHolder, LocalInv, DeadInv, SlowTake, TryTake, Succeed, Taken,
         Fresh, UNLOCKED, UNCONTENDED, CONTENDED
  <2>3. WellFormed(word)' \/ word' = DeadWord
    BY DEF IInv, HolderInv, CallInv, WellFormed, WordMatchesHolder, LocalInv,
         SlowTake, TryTake, Taken, Fresh, UNLOCKED, UNCONTENDED, CONTENDED
  <2>4. NormalWord'
    BY DEF IInv, HolderInv, CallInv, TypeOK, WordMatchesHolder, LocalInv,
         DeadInv, NormalWord, SlowTake, TryTake, Succeed, Taken, Fresh
  <2> QED BY <2>1, <2>2, <2>3, <2>4 DEF HolderInv
<1>3. DeadInv'
  BY DeadWordFacts DEF IInv, CallInv, DeadInv, TypeOK, SlowTake, TryTake,
       Succeed, Goto, Return, Taken, Fresh
<1>4. ASSUME NEW u \in Threads PROVE OpInv(u)'
  BY DEF IInv, CallInv, TypeOK, OpInv, SlowTake, TryTake, Succeed, Goto, Return
<1>5. ASSUME NEW u \in Threads PROVE LocalInv(u)'
  BY TidAssumption DEF IInv, HolderInv, CallInv, TypeOK, WordMatchesHolder,
       WellFormed, LocalInv, DeadInv, OpInv, SlowTake, TryTake, Succeed, Goto,
       Return, Taken, Fresh, UNLOCKED, UNCONTENDED, CONTENDED
<1> QED BY <1>1, <1>2, <1>3, <1>4, <1>5 DEF IInv, CallInv

(* Marking another thread's mutex contended keeps it.                      *)
LEMMA SlowFlipStep ==
  ASSUME IInv, NEW t \in Threads, SlowFlip(t)
  PROVE  IInv'
<1>0. /\ word' \in Words /\ word' # DeadWord
      /\ word'.type = word.type /\ word'.count = word.count
      /\ word'.owner = word.owner
      /\ word'.state = UNLOCKED <=> word.state = UNLOCKED
      /\ WellFormed(word) => WellFormed(word')
  BY LiveWord, DeadWordFacts DEF SlowFlip, Words, WellFormed, Fresh, UNLOCKED,
       UNCONTENDED, CONTENDED, Goto
<1>1. TypeOK'
  <2>1. word' \in Words \cup {DeadWord}
    BY FreshWords, LiveWord DEF IInv, TypeOK, Words, SlowFlip, Fresh, UNLOCKED,
         UNCONTENDED, CONTENDED
  <2>2. pc' \in [Threads -> Pcs] /\ op' \in [Threads -> Ops]
    BY DEF IInv, TypeOK, Pcs, Ops, SlowFlip, Goto
  <2>3. mval' \in [Threads -> Words]
    BY <1>0 DEF IInv, TypeOK, SlowFlip, Goto, Words, CONTENDED
  <2>4. held' \in [Threads -> 0 .. MaxCount + 1]
    BY CountAssumption DEF IInv, HolderInv, CallInv, TypeOK, WordMatchesHolder,
         LocalInv, SlowFlip
  <2>5. sleepers' \subseteq Threads
    BY DEF IInv, TypeOK, SlowFlip
  <2> QED BY <2>1, <2>2, <2>3, <2>4, <2>5 DEF TypeOK
<1>2. HolderInv'
  <2>1. MutualExclusion'
    BY FreshIsFree DEF IInv, HolderInv, CallInv, TypeOK, MutualExclusion,
         WordMatchesHolder, LocalInv, DeadInv, SlowFlip, Fresh
  <2>2. WordMatchesHolder'
    BY SMTT(30), TidAssumption DEF IInv, HolderInv, CallInv, TypeOK, Words,
         WordMatchesHolder, LocalInv, DeadInv, SlowFlip, Fresh, UNLOCKED,
         UNCONTENDED, CONTENDED
  <2>3. WellFormed(word)' \/ word' = DeadWord
    BY <1>0, LiveWord DEF IInv, HolderInv, WellFormed, Fresh, SlowFlip
  <2>4. NormalWord'
    BY <1>0 DEF IInv, HolderInv, CallInv, TypeOK, DeadInv, NormalWord,
         SlowFlip, Words, MutualExclusion
  <2> QED BY <2>1, <2>2, <2>3, <2>4 DEF HolderInv
<1>3. DeadInv'
  BY DeadWordFacts, <1>0 DEF DeadInv, SlowFlip, Fresh, WellFormed
<1>4. ASSUME NEW u \in Threads PROVE OpInv(u)'
  BY DEF IInv, CallInv, TypeOK, OpInv, SlowFlip, Goto
<1>5. ASSUME NEW u \in Threads PROVE LocalInv(u)'
  <2>1. CASE word = mval[t]
    <3>1. /\ mval' = [mval EXCEPT ![t] = [mval[t] EXCEPT !.state = CONTENDED]]
          /\ pc' = [pc EXCEPT ![t] = "r_wait"] /\ pc[t] = "r_slow"
          /\ UNCHANGED << held, sleepers >>
      BY <2>1 DEF SlowFlip
    <3>2. mval[t] \in Words /\ mval \in [Threads -> Words] /\ pc \in [Threads -> Pcs]
      BY DEF IInv, TypeOK
    <3>3. /\ mval'[t].type = word.type /\ mval'[t].state = CONTENDED /\ pc'[t] = "r_wait"
          /\ u # t => mval'[u] = mval[u] /\ pc'[u] = pc[u]
      BY <2>1, <3>1, <3>2 DEF Words
    <3>4. LocalInv(u) /\ LocalInv(t)
      BY DEF IInv, CallInv
    <3> QED BY <1>0, <3>1, <3>3, <3>4 DEF LocalInv, WellFormed, UNLOCKED, CONTENDED
  <2>2. CASE word # mval[t]
    BY <2>2 DEF IInv, CallInv, TypeOK, LocalInv, SlowFlip, Goto, WellFormed
  <2> QED BY <2>1, <2>2
<1> QED BY <1>1, <1>2, <1>3, <1>4, <1>5 DEF IInv, CallInv

(* The futex wait of the loop of lock keeps it.                            *)
LEMMA SlowWaitStep ==
  ASSUME IInv, NEW t \in Threads, SlowWait(t)
  PROVE  IInv'
<1>1. TypeOK'
  <2>1. word' \in Words \cup {DeadWord}
    BY DEF IInv, TypeOK, SlowWait, FutexWait, Fresh
  <2>2. pc' \in [Threads -> Pcs] /\ op' \in [Threads -> Ops]
    BY DEF IInv, TypeOK, Pcs, Ops, SlowWait, Goto
  <2>3. mval' \in [Threads -> Words]
    BY FreshWords, LiveWord DEF IInv, TypeOK, SlowWait, Goto
  <2>4. held' \in [Threads -> 0 .. MaxCount + 1]
    BY CountAssumption DEF IInv, TypeOK, SlowWait
  <2>5. sleepers' \subseteq Threads
    BY DEF IInv, TypeOK, SlowWait, FutexWait
  <2> QED BY <2>1, <2>2, <2>3, <2>4, <2>5 DEF TypeOK
<1>2. HolderInv'
  BY QuietStep DEF SlowWait
<1>3. DeadInv'
  BY DeadWordFacts DEF IInv, CallInv, DeadInv, TypeOK, SlowWait, FutexWait,
       Goto, Fresh
<1>4. ASSUME NEW u \in Threads PROVE OpInv(u)'
  BY DEF IInv, CallInv, TypeOK, OpInv, SlowWait, Goto
<1>5. ASSUME NEW u \in Threads PROVE LocalInv(u)'
  BY TidAssumption DEF IInv, HolderInv, CallInv, TypeOK, WordMatchesHolder,
       WellFormed, LocalInv, DeadInv, OpInv, SlowWait, FutexWait, Goto, Fresh,
       UNLOCKED, UNCONTENDED, CONTENDED
<1> QED BY <1>1, <1>2, <1>3, <1>4, <1>5 DEF IInv, CallInv

(* The swap that releases a recursive or error-checking mutex keeps it.    *)
LEMMA OwnerSwapStep ==
  ASSUME IInv, NEW t \in Threads, OwnerSwap(t)
  PROVE  IInv'
<1>1. TypeOK'
  <2>1. word' \in Words \cup {DeadWord}
    BY OwnerHolder, FreshWords DEF IInv, TypeOK, Words, OwnerSwap, Fresh,
         UNLOCKED, UNCONTENDED, CONTENDED
  <2>2. pc' \in [Threads -> Pcs] /\ op' \in [Threads -> Ops]
    BY DEF IInv, TypeOK, Pcs, Ops, OwnerSwap, Goto, Return
  <2>3. mval' \in [Threads -> Words]
    BY FreshWords DEF IInv, TypeOK, OwnerSwap, Goto, Return, NoValue
  <2>4. held' \in [Threads -> 0 .. MaxCount + 1]
    BY CountAssumption, OwnerHolder DEF IInv, HolderInv, CallInv, TypeOK,
         WordMatchesHolder, LocalInv, OwnerSwap, Released
  <2>5. sleepers' \subseteq Threads
    BY DEF IInv, TypeOK, OwnerSwap
  <2> QED BY <2>1, <2>2, <2>3, <2>4, <2>5 DEF TypeOK
<1>2. HolderInv'
  <2>1. MutualExclusion'
    BY OwnerHolder, FreshIsFree DEF IInv, HolderInv, CallInv, TypeOK,
         MutualExclusion, WordMatchesHolder, LocalInv, DeadInv, OwnerSwap, Released,
         Fresh
  <2>2. WordMatchesHolder'
    <3>1. held' = [held EXCEPT ![t] = held[t] - 1] /\ held[t] = 1
      BY DEF IInv, CallInv, LocalInv, OwnerSwap, Released
    <3>2. \A u \in Threads : held'[u] = 0
      BY <3>1, OwnerHolder DEF IInv, TypeOK, OwnerSwap
    <3>3. word'.owner = 0 /\ word'.state = UNLOCKED
      BY DEF OwnerSwap, Fresh
    <3> QED BY <3>2, <3>3, TidAssumption DEF WordMatchesHolder
  <2>3. WellFormed(word)' \/ word' = DeadWord
    BY OwnerHolder DEF IInv, HolderInv, CallInv, WellFormed, WordMatchesHolder,
         LocalInv, OwnerSwap, Fresh, UNLOCKED, UNCONTENDED, CONTENDED
  <2>4. NormalWord'
    BY OwnerHolder DEF IInv, HolderInv, CallInv, TypeOK, WordMatchesHolder,
         LocalInv, DeadInv, NormalWord, OwnerSwap, Released, Fresh
  <2> QED BY <2>1, <2>2, <2>3, <2>4 DEF HolderInv
<1>3. DeadInv'
  BY DeadWordFacts DEF IInv, CallInv, DeadInv, TypeOK, OwnerSwap, Goto, Return,
       Released, Fresh
<1>4. ASSUME NEW u \in Threads PROVE OpInv(u)'
  BY DEF IInv, CallInv, TypeOK, OpInv, OwnerSwap, Goto, Return
<1>5. ASSUME NEW u \in Threads PROVE LocalInv(u)'
  BY OwnerHolder, TidAssumption DEF IInv, HolderInv, CallInv, TypeOK,
       WordMatchesHolder, WellFormed, LocalInv, DeadInv, OpInv, OwnerSwap, Goto,
       Return, Released, Fresh, UNLOCKED, UNCONTENDED, CONTENDED
<1> QED BY <1>1, <1>2, <1>3, <1>4, <1>5 DEF IInv, CallInv

(* A signal that ends a futex wait keeps it.                               *)
LEMMA InterruptStep ==
  ASSUME IInv, NEW t \in Threads, Interrupt(t)
  PROVE  IInv'
<1>1. TypeOK'
  <2>1. word' \in Words \cup {DeadWord}
    BY DEF IInv, TypeOK, Interrupt
  <2>2. pc' \in [Threads -> Pcs] /\ op' \in [Threads -> Ops]
    BY DEF IInv, TypeOK, Pcs, Ops, Interrupt
  <2>3. mval' \in [Threads -> Words]
    BY FreshWords, LiveWord DEF IInv, TypeOK, Interrupt
  <2>4. held' \in [Threads -> 0 .. MaxCount + 1]
    BY CountAssumption DEF IInv, TypeOK, Interrupt
  <2>5. sleepers' \subseteq Threads
    BY DEF IInv, TypeOK, Interrupt, FutexInterrupt
  <2> QED BY <2>1, <2>2, <2>3, <2>4, <2>5 DEF TypeOK
<1>2. HolderInv'
  BY QuietStep DEF Interrupt
<1>3. DeadInv'
  BY DeadWordFacts DEF IInv, CallInv, DeadInv, TypeOK, Interrupt
<1>4. ASSUME NEW u \in Threads PROVE OpInv(u)'
  BY DEF IInv, CallInv, TypeOK, OpInv, Interrupt
<1>5. ASSUME NEW u \in Threads PROVE LocalInv(u)'
  BY TidAssumption DEF IInv, HolderInv, CallInv, TypeOK, WordMatchesHolder,
       WellFormed, LocalInv, DeadInv, OpInv, Interrupt, FutexInterrupt
<1> QED BY <1>1, <1>2, <1>3, <1>4, <1>5 DEF IInv, CallInv

(* Initialising a destroyed mutex keeps it.                                *)
LEMMA InitMutexStep ==
  ASSUME IInv, NEW t \in Threads, InitMutex(t)
  PROVE  IInv'
<1>1. TypeOK'
  <2>1. word' \in Words \cup {DeadWord}
    BY FreshWords, TypesAssumption DEF InitMutex
  <2>2. pc' \in [Threads -> Pcs] /\ op' \in [Threads -> Ops]
    BY DEF IInv, TypeOK, Pcs, Ops, InitMutex
  <2>3. mval' \in [Threads -> Words]
    BY FreshWords, LiveWord DEF IInv, TypeOK, InitMutex
  <2>4. held' \in [Threads -> 0 .. MaxCount + 1]
    BY CountAssumption DEF IInv, HolderInv, CallInv, TypeOK, WordMatchesHolder,
         LocalInv, InitMutex
  <2>5. sleepers' \subseteq Threads
    BY DEF IInv, TypeOK, InitMutex
  <2> QED BY <2>1, <2>2, <2>3, <2>4, <2>5 DEF TypeOK
<1>2. HolderInv'
  <2>1. MutualExclusion'
    BY FreshIsFree DEF IInv, HolderInv, CallInv, TypeOK, MutualExclusion,
         WordMatchesHolder, LocalInv, DeadInv, InitMutex, Fresh
  <2>2. WordMatchesHolder'
    BY TidAssumption DEF IInv, HolderInv, CallInv, TypeOK, Words,
         WordMatchesHolder, LocalInv, DeadInv, InitMutex, Fresh, UNLOCKED,
         UNCONTENDED, CONTENDED
  <2>3. WellFormed(word)' \/ word' = DeadWord
    BY DEF IInv, HolderInv, CallInv, WellFormed, WordMatchesHolder, LocalInv,
         InitMutex, Fresh, UNLOCKED, UNCONTENDED, CONTENDED
  <2>4. NormalWord'
    BY DEF IInv, HolderInv, CallInv, TypeOK, WordMatchesHolder, LocalInv,
         DeadInv, NormalWord, InitMutex, Fresh
  <2> QED BY <2>1, <2>2, <2>3, <2>4 DEF HolderInv
<1>3. DeadInv'
  BY DeadWordFacts DEF IInv, CallInv, DeadInv, TypeOK, InitMutex, Fresh
<1>4. ASSUME NEW u \in Threads PROVE OpInv(u)'
  BY DEF IInv, CallInv, TypeOK, OpInv, InitMutex
<1>5. ASSUME NEW u \in Threads PROVE LocalInv(u)'
  BY TidAssumption DEF IInv, HolderInv, CallInv, TypeOK, WordMatchesHolder,
       WellFormed, LocalInv, DeadInv, OpInv, InitMutex, Fresh, UNLOCKED,
       UNCONTENDED, CONTENDED
<1> QED BY <1>1, <1>2, <1>3, <1>4, <1>5 DEF IInv, CallInv

(* The call of lock keeps it.                                              *)
LEMMA CallLockStep ==
  ASSUME IInv, NEW t \in Threads, CallLock(t)
  PROVE  IInv'
<1>1. TypeOK'
  <2>1. word' \in Words \cup {DeadWord}
    BY DEF IInv, TypeOK, CallLock, Fresh
  <2>2. pc' \in [Threads -> Pcs] /\ op' \in [Threads -> Ops]
    BY DEF IInv, TypeOK, Pcs, Ops, CallLock, Call, LockPath
  <2>3. mval' \in [Threads -> Words]
    BY DEF IInv, TypeOK, CallLock, Call, MayLock, Usable
  <2>4. held' \in [Threads -> 0 .. MaxCount + 1]
    BY CountAssumption DEF IInv, TypeOK, CallLock
  <2>5. sleepers' \subseteq Threads
    BY DEF IInv, TypeOK, CallLock
  <2> QED BY <2>1, <2>2, <2>3, <2>4, <2>5 DEF TypeOK
<1>2. HolderInv'
  BY QuietStep DEF CallLock
<1>3. DeadInv'
  BY DeadWordFacts DEF IInv, CallInv, DeadInv, TypeOK, CallLock, Call,
       LockPath, MayLock, Usable, Fresh
<1>4. ASSUME NEW u \in Threads PROVE OpInv(u)'
  BY DEF IInv, CallInv, TypeOK, OpInv, CallLock, Call, LockPath, MayLock,
       Usable
<1>5. ASSUME NEW u \in Threads PROVE LocalInv(u)'
  <2>1. CASE u = t
    <3>1. /\ pc[t] = "idle" /\ pc'[t] = LockPath(t) /\ mval'[t] = word
          /\ UNCHANGED << word, held, sleepers >>
      BY DEF IInv, TypeOK, CallLock, Call
    <3>2. word # DeadWord /\ word \in Words /\ WellFormed(word) /\ t \notin sleepers
      BY <3>1 DEF IInv, TypeOK, HolderInv, CallInv, LocalInv, CallLock, MayLock, Usable
    <3>3. CASE word.type = "normal"
      BY <2>1, <3>1, <3>2, <3>3 DEF LocalInv, CallLock, MayLock, LockPath
    <3>4. CASE word.type # "normal" /\ word.owner = Tid[t]
      <4>1. pc'[t] = "r_inc" /\ held[t] > 0 /\ MayIncrement(word)
        BY <3>1, <3>2, <3>4 DEF CallLock, LockPath, IInv, HolderInv, WordMatchesHolder
      <4> QED BY <2>1, <3>1, <3>2, <3>4, <4>1, CountAssumption
              DEF LocalInv, MayIncrement, Words
    <3>5. CASE word.type # "normal" /\ word.owner # Tid[t]
      <4>1. held[t] = 0
        BY <3>2, <3>5 DEF IInv, TypeOK, HolderInv, WordMatchesHolder
      <4> QED BY <2>1, <3>1, <3>2, <3>5, <4>1 DEF LocalInv, LockPath
    <3> QED BY <3>3, <3>4, <3>5
  <2>2. CASE u # t
    BY <2>2, OtherLocal DEF CallLock
  <2> QED BY <2>1, <2>2
<1> QED BY <1>1, <1>2, <1>3, <1>4, <1>5 DEF IInv, CallInv

(* The call of trylock or of destroy keeps it.                             *)
LEMMA CallTryLockStep ==
  ASSUME IInv, NEW t \in Threads, NEW o \in {"trylock", "destroy"}, CallTryLock(t, o)
  PROVE  IInv'
<1>1. TypeOK'
  <2>1. word' \in Words \cup {DeadWord}
    BY DEF IInv, TypeOK, CallTryLock, Fresh
  <2>2. pc' \in [Threads -> Pcs] /\ op' \in [Threads -> Ops]
    BY DEF IInv, TypeOK, Pcs, Ops, CallTryLock, Call, TryLockPath
  <2>3. mval' \in [Threads -> Words]
    BY DEF IInv, TypeOK, CallTryLock, Call, MayDestroy, Usable
  <2>4. held' \in [Threads -> 0 .. MaxCount + 1]
    BY CountAssumption DEF IInv, TypeOK, CallTryLock
  <2>5. sleepers' \subseteq Threads
    BY DEF IInv, TypeOK, CallTryLock
  <2> QED BY <2>1, <2>2, <2>3, <2>4, <2>5 DEF TypeOK
<1>2. HolderInv'
  BY QuietStep DEF CallTryLock
<1>3. DeadInv'
  BY DeadWordFacts DEF IInv, CallInv, DeadInv, TypeOK, CallTryLock, Call,
       TryLockPath, MayDestroy, Usable, Fresh
<1>4. ASSUME NEW u \in Threads PROVE OpInv(u)'
  BY DEF IInv, CallInv, TypeOK, OpInv, CallTryLock, Call, TryLockPath,
       MayDestroy, Usable, HolderInv, WordMatchesHolder
<1>5. ASSUME NEW u \in Threads PROVE LocalInv(u)'
  <2>1. CASE u = t
    <3>1. /\ pc[t] = "idle" /\ pc'[t] = TryLockPath(t) /\ mval'[t] = word
          /\ UNCHANGED << word, held, sleepers >>
      BY DEF IInv, TypeOK, CallTryLock, Call
    <3>2. word # DeadWord /\ word \in Words /\ WellFormed(word) /\ t \notin sleepers
      BY <3>1 DEF IInv, TypeOK, HolderInv, CallInv, LocalInv, CallTryLock, MayDestroy, Usable
    <3>3. CASE word.type = "normal"
      BY <2>1, <3>1, <3>2, <3>3 DEF LocalInv, CallTryLock, MayDestroy, TryLockPath
    <3>4. CASE word.type # "normal" /\ word.owner = Tid[t]
      <4>1. pc'[t] = "r_inc" /\ held[t] > 0 /\ MayIncrement(word)
        BY <3>1, <3>2, <3>4 DEF CallTryLock, TryLockPath, IInv, HolderInv, WordMatchesHolder
      <4> QED BY <2>1, <3>1, <3>2, <3>4, <4>1, CountAssumption
              DEF LocalInv, MayIncrement, Words
    <3>5. CASE word.type # "normal" /\ word.owner # Tid[t]
      <4>1. held[t] = 0
        BY <3>2, <3>5 DEF IInv, TypeOK, HolderInv, WordMatchesHolder
      <4> QED BY <2>1, <3>1, <3>2, <3>5, <4>1 DEF LocalInv, TryLockPath
    <3> QED BY <3>3, <3>4, <3>5
  <2>2. CASE u # t
    BY <2>2, OtherLocal DEF CallTryLock
  <2> QED BY <2>1, <2>2
<1> QED BY <1>1, <1>2, <1>3, <1>4, <1>5 DEF IInv, CallInv

(* The call of unlock keeps it.                                            *)
LEMMA CallUnlockStep ==
  ASSUME IInv, NEW t \in Threads, CallUnlock(t)
  PROVE  IInv'
<1>1. TypeOK'
  <2>1. word' \in Words \cup {DeadWord}
    BY DEF IInv, TypeOK, CallUnlock, Fresh
  <2>2. pc' \in [Threads -> Pcs] /\ op' \in [Threads -> Ops]
    BY DEF IInv, TypeOK, Pcs, Ops, CallUnlock, Call
  <2>3. mval' \in [Threads -> Words]
    BY DEF IInv, TypeOK, CallUnlock, Call, MayUnlock
  <2>4. held' \in [Threads -> 0 .. MaxCount + 1]
    BY CountAssumption DEF IInv, TypeOK, CallUnlock
  <2>5. sleepers' \subseteq Threads
    BY DEF IInv, TypeOK, CallUnlock
  <2> QED BY <2>1, <2>2, <2>3, <2>4, <2>5 DEF TypeOK
<1>2. HolderInv'
  BY QuietStep DEF CallUnlock
<1>3. DeadInv'
  BY DeadWordFacts DEF IInv, CallInv, DeadInv, TypeOK, CallUnlock, Call,
       MayUnlock, Fresh
<1>4. ASSUME NEW u \in Threads PROVE OpInv(u)'
  BY DEF IInv, CallInv, TypeOK, OpInv, CallUnlock, Call
<1>5. ASSUME NEW u \in Threads PROVE LocalInv(u)'
  BY DEF IInv, HolderInv, CallInv, TypeOK, WordMatchesHolder, LocalInv,
       CallUnlock, Call, MayUnlock, Words, NormalWord
<1> QED BY <1>1, <1>2, <1>3, <1>4, <1>5 DEF IInv, CallInv

-----------------------------------------------------------------------------
(* An initialised mutex satisfies the invariant.                           *)
LEMMA InitInv == ASSUME Init PROVE IInv
<1> USE DEF Init, Fresh, UNLOCKED
<1>1. PICK ty \in Types : word = Fresh(ty)
  OBVIOUS
<1>2. ty \in {"normal", "recursive", "errorcheck"}
  BY TypesAssumption
<1>3. TypeOK
  BY <1>1, <1>2, FreshWords, CountAssumption DEF TypeOK, Pcs, Ops, NoValue
<1>4. HolderInv
  BY <1>1, <1>2, DeadWordFacts, TidAssumption
     DEF HolderInv, MutualExclusion, WordMatchesHolder, WellFormed, NormalWord
<1>5. CallInv
  BY <1>1, DeadWordFacts DEF CallInv, DeadInv, OpInv, LocalInv
<1> QED BY <1>3, <1>4, <1>5 DEF IInv

(* A stuttering step keeps the invariant.                                  *)
LEMMA StutterInv == ASSUME IInv, UNCHANGED vars PROVE IInv'
<1>1. TypeOK'
  BY DEF IInv, TypeOK, vars
<1>2. HolderInv'
  BY QuietStep DEF vars
<1>3. DeadInv'
  BY DEF IInv, CallInv, DeadInv, vars
<1>4. ASSUME NEW u \in Threads PROVE OpInv(u)' /\ LocalInv(u)'
  BY DEF IInv, CallInv, OpInv, LocalInv, vars
<1> QED BY <1>1, <1>2, <1>3, <1>4 DEF IInv, CallInv

(* Every step of every thread keeps the invariant.                         *)
LEMMA NextInv == ASSUME IInv, [Next]_vars PROVE IInv'
<1>1. CASE UNCHANGED vars
  BY <1>1, StutterInv
<1>2. ASSUME NEW t \in Threads, Enter(t) PROVE IInv'
  BY <1>2, CallLockStep, CallUnlockStep, InitMutexStep, CallTryLockStep DEF Enter
<1>3. ASSUME NEW t \in Threads, Inside(t) PROVE IInv'
  BY <1>3, NormalCasStep, NormalTryStep, NormalSwapStep, NormalWaitStep,
     NormalDecStep, NormalStoreStep, WakeStep, DestroyStoreStep, IncrementStep,
     DecrementStep, ReloadStep, OwnerCasStep, SlowTakeStep, SlowFlipStep,
     SlowWaitStep, OwnerSwapStep
     DEF Inside
<1>4. ASSUME NEW t \in Threads, Interrupt(t) PROVE IInv'
  BY <1>4, InterruptStep
<1> QED BY <1>1, <1>2, <1>3, <1>4 DEF Next

(* The inductive invariant holds in every reachable state.                 *)
THEOREM Invariance == Spec => []IInv
<1>1. Init => IInv
  BY InitInv
<1>2. IInv /\ [Next]_vars => IInv'
  BY NextInv
<1> QED BY <1>1, <1>2, PTL DEF Spec

(* The fields of the word, every thread's position, operation and copy of  *)
(* the word, and the number of locks each holds stay in their types: the   *)
(* recursion counter never leaves its field.                               *)
THEOREM TypeCorrect == Spec => []TypeOK
<1>1. IInv => TypeOK
  BY DEF IInv
<1> QED BY <1>1, Invariance, PTL

(* android_pthread_mutex_lock and _trylock never let two threads in.       *)
THEOREM MutexExcludes == Spec => []MutualExclusion
<1>1. IInv => MutualExclusion
  BY DEF IInv, HolderInv
<1> QED BY <1>1, Invariance, PTL

(* The owner and counter fields of the word describe the holder.           *)
THEOREM WordIsTruthful == Spec => []WordMatchesHolder
<1>1. IInv => WordMatchesHolder
  BY DEF IInv, HolderInv
<1> QED BY <1>1, Invariance, PTL

(* Nobody sleeps on a mutex of any type it holds itself.                   *)
THEOREM NeverWaitsForItself == Spec => []NoSelfDeadlock
<1>1. IInv => NoSelfDeadlock
  BY DEF IInv, TypeOK, CallInv, LocalInv, NoSelfDeadlock
<1> QED BY <1>1, Invariance, PTL

(* android_pthread_mutex_destroy never destroys a mutex somebody holds.    *)
THEOREM DestroysOnlyFree == Spec => []DestroyedIsFree
<1>1. IInv => DestroyedIsFree
  BY DEF IInv, CallInv, DeadInv, DestroyedIsFree
<1> QED BY <1>1, Invariance, PTL

(* No call that is still in progress writes the word of a destroyed mutex. *)
THEOREM DestroyedStaysDestroyed == Spec => DestroyIsFinal
<1>1. ASSUME IInv, [Next]_vars, word = DeadWord, word' # word
      PROVE  UNCHANGED pc
  <2>1. PICK t \in Threads : Enter(t) \/ Inside(t) \/ Interrupt(t)
    BY <1>1 DEF Next, vars
  <2>2. pc[t] \in {"idle", "wake"}
    BY <1>1 DEF IInv, CallInv, DeadInv
  <2>3. CASE Enter(t)
    BY <1>1, <2>3 DEF Enter, CallLock, CallUnlock, InitMutex, CallTryLock
  <2>4. CASE Inside(t)
    BY <1>1, <2>2, <2>4
       DEF Inside, NormalCas, NormalTry, NormalSwap, NormalWait, NormalDec,
           NormalStore, Wake, DestroyStore, Increment, Decrement, Reload,
           OwnerCas, SlowTake, SlowFlip, SlowWait, OwnerSwap
  <2>5. CASE Interrupt(t)
    BY <1>1, <2>5 DEF Interrupt
  <2> QED BY <2>1, <2>3, <2>4, <2>5
<1>2. IInv /\ [Next]_vars => [word = DeadWord /\ word' # word => UNCHANGED pc]_vars
  BY <1>1
<1> QED BY <1>2, Invariance, PTL DEF Spec, DestroyIsFinal

(* Every step inside the library leaves a rescuer for the sleepers.        *)
LEMMA RescueInside ==
  ASSUME OneAddressSpace, IInv, SleepersHaveRescuer, NEW t \in Threads, Inside(t)
  PROVE  SleepersHaveRescuer'
<1> USE DEF SleepersHaveRescuer
<1>a. pc \in [Threads -> Pcs] /\ sleepers \subseteq Threads
  BY DEF IInv, TypeOK
<1>b. t \in sleepers => pc[t] \in {"n_swap", "r_slow_ld"}
  BY DEF IInv, CallInv, LocalInv
<1>c. ASSUME NEW u \in Threads, Rescuer(u), u # t,
             sleepers' = sleepers, \A v \in Threads \ {t} : pc'[v] = pc[v]
      PROVE  SleepersHaveRescuer'
  BY <1>c DEF Rescuer
<1>1. CASE NormalCas(t)
  BY <1>1, <1>a, <1>b, <1>c
     DEF NormalCas, TryTake, Succeed, Goto, Return, Rescuer, Fresh, UNLOCKED, CONTENDED
<1>2. CASE NormalTry(t)
  BY <1>2, <1>a, <1>b, <1>c
     DEF NormalTry, TryTake, Succeed, Goto, Return, Rescuer, Fresh, UNLOCKED, CONTENDED
<1>3. CASE NormalSwap(t)
  BY <1>3 DEF NormalSwap, Taken
<1>4. CASE NormalWait(t)
  BY <1>4, <1>a, <1>b, <1>c DEF NormalWait, FutexWait, Goto, Taken, Rescuer
<1>5. CASE NormalDec(t)
  BY <1>5, <1>a, <1>b, <1>c
     DEF NormalDec, Goto, Return, Rescuer, UNCONTENDED, CONTENDED
<1>6. CASE NormalStore(t)
  BY <1>6, <1>a DEF NormalStore, Goto, Rescuer
<1>7. CASE Wake(t)
  <2>1. Wakeable(t) = sleepers
    BY <1>a DEF OneAddressSpace, Wakeable
  <2>2. ASSUME NEW s \in sleepers, sleepers' = sleepers \ {s} PROVE Rescuer(s)'
    <3>1. pc[s] \in {"n_swap", "r_slow_ld"}
      BY <1>a DEF IInv, CallInv, LocalInv
    <3> QED BY <1>7, <1>a, <2>2, <3>1 DEF Wake, Return, Rescuer
  <2> QED BY <1>7, <1>a, <2>1, <2>2 DEF Wake, FutexWakeOne
<1>8. CASE DestroyStore(t)
  <2>1. sleepers = {}
    BY <1>8, <1>a, <1>b DEF DestroyStore, IInv, CallInv, OpInv, LocalInv
  <2> QED BY <1>8, <2>1 DEF DestroyStore
<1>9. CASE Increment(t)
  <2>1. word'.state = word.state
    BY <1>9, OwnerHolder DEF Increment, Words
  <2> QED BY <1>9, <1>a, <1>b, <1>c, <2>1
          DEF Increment, Succeed, Goto, Return, Rescuer
<1>10. CASE Decrement(t)
  <2>1. word'.state = word.state
    BY <1>10, OwnerHolder DEF Decrement, Words
  <2> QED BY <1>10, <1>a, <1>b, <1>c, <2>1 DEF Decrement, Goto, Return, Rescuer
<1>11. CASE Reload(t)
  BY <1>11, <1>a, <1>c DEF Reload, LoadAndGoto, Rescuer
<1>12. CASE OwnerCas(t)
  BY <1>12, <1>a, <1>b, <1>c
     DEF OwnerCas, TryTake, Succeed, Goto, Return, Rescuer, Fresh, UNLOCKED, CONTENDED
<1>13. CASE SlowTake(t)
  BY <1>13, <1>a, <1>b, <1>c
     DEF SlowTake, TryTake, Succeed, Goto, Return, Taken, Rescuer
<1>14. CASE SlowFlip(t)
  <2>1. mval[t] \in Words
    BY DEF IInv, TypeOK
  <2> QED BY <1>14, <1>a, <1>b, <1>c, <2>1 DEF SlowFlip, Goto, Rescuer, Words
<1>15. CASE SlowWait(t)
  <2>1. word = mval[t] => word.state = CONTENDED
    BY <1>15 DEF SlowWait, IInv, TypeOK, CallInv, LocalInv, WellFormed, Words,
                 UNLOCKED, UNCONTENDED, CONTENDED
  <2> QED BY <1>15, <1>a, <1>b, <1>c, <2>1 DEF SlowWait, FutexWait, Goto, Rescuer
<1>16. CASE OwnerSwap(t)
  BY <1>16, <1>a, <1>b, <1>c DEF OwnerSwap, Goto, Return, Rescuer
<1> QED
  BY <1>1, <1>2, <1>3, <1>4, <1>5, <1>6, <1>7, <1>8, <1>9, <1>10, <1>11,
     <1>12, <1>13, <1>14, <1>15, <1>16
     DEF Inside

(* A call that starts, an initialisation and a signal leave a rescuer too. *)
LEMMA RescueOutside ==
  ASSUME IInv, SleepersHaveRescuer, NEW t \in Threads, Enter(t) \/ Interrupt(t)
  PROVE  SleepersHaveRescuer'
<1> USE DEF SleepersHaveRescuer, Rescuer
<1>a. pc \in [Threads -> Pcs] /\ sleepers \subseteq Threads
  BY DEF IInv, TypeOK
<1>1. CASE InitMutex(t)
  BY <1>1, <1>a, DeadWordFacts DEF InitMutex, UNLOCKED, CONTENDED
<1>2. CASE \/ CallLock(t) \/ CallUnlock(t)
           \/ \E o \in {"trylock", "destroy"} : CallTryLock(t, o)
  <2>1. /\ pc[t] = "idle" /\ \A v \in Threads \ {t} : pc'[v] = pc[v]
        /\ UNCHANGED << word, sleepers >>
    BY <1>2, <1>a DEF CallLock, CallUnlock, CallTryLock, Call
  <2> QED BY <2>1
<1>3. CASE Interrupt(t)
  <2>1. pc[t] \in {"n_swap", "r_slow_ld"} /\ t \notin sleepers'
    BY <1>3 DEF Interrupt, FutexInterrupt, IInv, CallInv, LocalInv
  <2> QED BY <1>3, <2>1 DEF Interrupt
<1> QED BY <1>1, <1>2, <1>3 DEF Enter

(* No lost wake-up, whenever a wake reaches every user of the mutex.  The  *)
(* assumption cannot be dropped: with the private flag inverted a process- *)
(* shared mutex loses wake-ups between processes.                          *)
THEOREM NoLostWakeUp == OneAddressSpace => (Spec => []SleepersHaveRescuer)
<1> SUFFICES ASSUME OneAddressSpace PROVE Spec => []SleepersHaveRescuer
  OBVIOUS
<1>1. Init => SleepersHaveRescuer
  BY DEF Init, SleepersHaveRescuer
<1>2. IInv /\ SleepersHaveRescuer /\ [Next]_vars => SleepersHaveRescuer'
  <2>1. CASE UNCHANGED vars
    BY <2>1 DEF vars, SleepersHaveRescuer, Rescuer
  <2>2. CASE Next
    BY <2>2, RescueInside, RescueOutside DEF Next
  <2> QED BY <2>1, <2>2
<1> QED BY <1>1, <1>2, Invariance, PTL DEF Spec

-----------------------------------------------------------------------------
(* What the history variable says of the abstract holder and depth.        *)
HolderFacts ==
  /\ (\A t \in Threads : held[t] = 0) => Holder = NoOwner /\ Depth = 0
  /\ \A t \in Threads : held[t] > 0 =>
       /\ Holder = t /\ Depth = held[t]
       /\ \A u \in Threads \ {t} : held[u] = 0

(* The abstract holder is the one thread that holds the mutex.             *)
LEMMA HolderIsTheOne == IInv => HolderFacts
<1> SUFFICES ASSUME IInv PROVE HolderFacts
  OBVIOUS
<1>1. ASSUME \A t \in Threads : held[t] = 0
      PROVE  Holder = NoOwner /\ Depth = 0
  BY <1>1 DEF Holder, Depth
<1>2. ASSUME NEW t \in Threads, held[t] > 0
      PROVE  /\ Holder = t /\ Depth = held[t]
             /\ \A u \in Threads \ {t} : held[u] = 0
  <2>1. \A u \in Threads : held[u] > 0 => u = t
    BY <1>2 DEF IInv, HolderInv, MutualExclusion
  <2>2. Holder = t
    BY <1>2, <2>1 DEF Holder
  <2>3. t # NoOwner
    BY ThreadsAssumption
  <2>4. \A u \in Threads : held[u] \in 0 .. MaxCount + 1
    BY DEF IInv, TypeOK
  <2> QED BY <2>1, <2>2, <2>3, <2>4, CountAssumption DEF Depth
<1> QED BY <1>1, <1>2 DEF HolderFacts

(* Every step leaves `held` alone, or adds or takes one lock of one thread.*)
LEMMA HeldStep ==
  ASSUME IInv, NEW t \in Threads, Enter(t) \/ Inside(t) \/ Interrupt(t)
  PROVE  \/ held' = held
         \/ held' = [held EXCEPT ![t] = @ + 1]
         \/ held' = [held EXCEPT ![t] = @ - 1] /\ held[t] > 0
<1>1. CASE Enter(t)
  BY <1>1 DEF Enter, CallLock, CallUnlock, InitMutex, CallTryLock
<1>2. CASE Interrupt(t)
  BY <1>2 DEF Interrupt
<1>3. CASE NormalDec(t) \/ NormalStore(t) \/ DestroyStore(t) \/ Decrement(t) \/ OwnerSwap(t)
  <2>1. pc[t] \in {"n_dec", "n_store", "d_store", "r_dec", "r_swap"}
    BY <1>3 DEF NormalDec, NormalStore, DestroyStore, Decrement, OwnerSwap
  <2>2. held[t] > 0
    BY <2>1 DEF IInv, CallInv, LocalInv
  <2> QED BY <1>3, <2>2
          DEF NormalDec, NormalStore, DestroyStore, Decrement, OwnerSwap, Released
<1>4. CASE Inside(t) /\ ~(NormalDec(t) \/ NormalStore(t) \/ DestroyStore(t)
                            \/ Decrement(t) \/ OwnerSwap(t))
  BY <1>4 DEF Inside, NormalCas, NormalTry, NormalSwap, NormalWait, Wake, Increment,
              Reload, OwnerCas, SlowTake, SlowFlip, SlowWait, TryTake, Succeed
<1> QED BY <1>1, <1>2, <1>3, <1>4 DEF Inside

(* The mutex of android_pthread_mutex.c implements the abstract lock: its  *)
(* lock, trylock and unlock are acquisitions, counted re-acquisitions and  *)
(* releases by one holder, at the steps that change `held`.                *)
THEOREM MutexImplementsLock == Spec => ImplementsLock
<1>1. Init => Abstract!Init
  BY InitInv, HolderIsTheOne DEF Init, HolderFacts, Abstract!Init
<1>2. ASSUME IInv, IInv', [Next]_vars
      PROVE  [Abstract!Next]_(Abstract!lockVars)
  <2> USE DEF Abstract!lockVars
  <2>0. HolderFacts /\ HolderFacts'
    BY <1>2, HolderIsTheOne, PTL
  <2>1. CASE held' = held
    BY <2>1 DEF Holder, Depth
  <2>2. CASE held' # held
    <3>1. PICK t \in Threads : Enter(t) \/ Inside(t) \/ Interrupt(t)
      BY <1>2, <2>2 DEF Next, vars
    <3>2. /\ held \in [Threads -> 0 .. MaxCount + 1]
          /\ held' \in [Threads -> 0 .. MaxCount + 1]
      BY <1>2 DEF IInv, TypeOK
    <3>3. CASE held' = [held EXCEPT ![t] = @ + 1]
      <4>1. /\ held'[t] = held[t] + 1
            /\ held[t] \in 0 .. MaxCount + 1 /\ held'[t] \in 0 .. MaxCount + 1
        BY <3>2, <3>3
      <4>2. Holder' = t /\ Depth' = held[t] + 1 /\ \A u \in Threads \ {t} : held'[u] = 0
        BY <2>0, <4>1, CountAssumption DEF HolderFacts
      <4>3. CASE held[t] = 0
        <5>1. Holder = NoOwner
          BY <2>0, <3>2, <3>3, <4>2, <4>3 DEF HolderFacts
        <5> QED BY <4>2, <4>3, <5>1 DEF Abstract!Next, Abstract!Acquire
      <4>4. CASE held[t] > 0
        <5>1. Holder = t /\ Depth = held[t]
          BY <2>0, <4>4 DEF HolderFacts
        <5> QED BY <4>1, <4>2, <5>1, CountAssumption DEF Abstract!Next, Abstract!Reacquire
      <4> QED BY <4>1, <4>3, <4>4, CountAssumption
    <3>4. CASE held' = [held EXCEPT ![t] = @ - 1] /\ held[t] > 0
      <4>1. held'[t] = held[t] - 1 /\ held[t] \in 0 .. MaxCount + 1
        BY <3>2, <3>4
      <4>2. Holder = t /\ Depth = held[t] /\ \A u \in Threads \ {t} : held[u] = 0
        BY <2>0, <3>4 DEF HolderFacts
      <4>3. CASE held[t] = 1
        <5>1. Holder' = NoOwner /\ Depth' = 0
          BY <2>0, <3>2, <3>4, <4>1, <4>2, <4>3 DEF HolderFacts
        <5> QED BY <4>2, <4>3, <5>1 DEF Abstract!Next, Abstract!Release
      <4>4. CASE held[t] > 1
        <5>1. Holder' = t /\ Depth' = held[t] - 1
          BY <2>0, <4>1, <4>4, CountAssumption DEF HolderFacts
        <5> QED BY <4>1, <4>2, <4>4, <5>1, CountAssumption DEF Abstract!Next, Abstract!Release
      <4> QED BY <3>4, <4>1, <4>3, <4>4, CountAssumption
    <3> QED BY <1>2, <2>2, <3>1, <3>3, <3>4, HeldStep
  <2> QED BY <2>1, <2>2
<1> QED BY <1>1, <1>2, Invariance, PTL DEF Spec, ImplementsLock, Abstract!Spec
=============================================================================
