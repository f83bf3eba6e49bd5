----------------------------- MODULE CondProof -----------------------------
(***************************************************************************)
(* Condition variables, for every finite set of threads and every size of  *)
(* the counter that the pulses between two initialisations do not exhaust: *)
(* nobody sleeps while items lie there for which nobody else is awake.     *)
(***************************************************************************)
EXTENDS Cond, FiniteSetTheorems, TLAPS

Pulsing == {"p_flags", "p_load", "p_cas"}
Waiting == {"w_unlock", "w_sleep", "w_lock"}
Points  == {"idle", "held", "unlock", "p_wake"} \cup Pulsing \cup Waiting
Words   == 0 .. 2^Width - 1

(* A put whose exchange is still to come, and the threads that will take   *)
(* an item or wake a sleeper: NobodyForgotten asks for one of them.        *)
ToPulse(t) ==
  \/ pc[t] \in Pulsing
  \/ pc[t] = "unlock" /\ op[t] \in Puts /\ op[t][2] = "after unlock"
Unpulsed == { t \in Threads : ToPulse(t) }
Awake(t) ==
  /\ t \notin sleepers
  /\ ToPulse(t) \/ pc[t] = "p_wake" \/ (op[t] \in Takes /\ pc[t] # "unlock")
Helpers == { t \in Threads : Awake(t) }

(* Where a thread is says which call it is in, and whether it has the      *)
(* mutex.                                                                  *)
HasMutex(t) ==
  \/ pc[t] \in {"held", "unlock", "w_unlock"}
  \/ pc[t] \in Pulsing \cup {"p_wake"} /\ op[t][2] = "before unlock"
Placed(t) ==
  /\ pc[t] = "idle" => op[t] = None
  /\ pc[t] \in {"held", "unlock"} => op[t] \in Puts \cup Takes
  /\ pc[t] \in Waiting => op[t] \in Takes
  /\ pc[t] \in Pulsing \cup {"p_wake"} => op[t] \in Puts
  /\ HasMutex(t) => holder = t
PlaceInv ==
  /\ pc \in [Threads -> Points]
  /\ \A t \in Threads : Placed(t)
  /\ value = DeadCond => Quiet

(* What a pulse has read: the shared bit never changes, and the exchange   *)
(* compares with a value of the counter.                                   *)
ReadInv ==
  /\ old \in [Threads -> Words] /\ flags \in [Threads -> {0, 1}]
  /\ \A t \in Threads : pc[t] \in {"p_load", "p_cas"} => flags[t] = value % 2

(* Each put so far has moved the counter on or is about to.                *)
CountInv ==
  /\ items <= pulses
  /\ \A t \in Threads : pc[t] = "held" /\ op[t] \in Puts => pulses < MaxPulses
  /\ value # DeadCond => pulses = PulsesTo(value) + Cardinality(Unpulsed)

(* For a thread about to sleep on the value it read the counter has not    *)
(* come back to that value: if it is still there, every put since then is  *)
(* one whose pulse is to come.                                             *)
WaitInv ==
  \A t \in Threads : pc[t] \in {"w_unlock", "w_sleep"} =>
    /\ PulsesTo(old[t]) <= PulsesTo(value)
    /\ old[t] = value => items <= Cardinality(Unpulsed)

(* While somebody sleeps, each item has a helper of its own.               *)
SleepInv == sleepers # {} => items <= Cardinality(Helpers)

IInv == TypeOK /\ PlaceInv /\ ReadInv /\ CountInv /\ WaitInv /\ SleepInv
-----------------------------------------------------------------------------
(* The calls: a put is no take, and none is neither.                       *)
LEMMA Kinds ==
  /\ \A o \in Puts : o \notin Takes /\ o[2] \in {"before unlock", "after unlock"}
  /\ None \notin Puts \cup Takes
<1>1. \A o \in Puts : o[1] \in {"signal", "broadcast"} /\ o[2] \in {"before unlock", "after unlock"}
  BY DEF Puts
<1>2. \A o \in Takes : o[1] \in {"wait", "timedwait"}
  <2>1. \A o \in Takes : o = << "wait", "" >> \/ o = << "timedwait", "" >>
    BY DEF Takes
  <2>2. << "wait", "" >>[1] = "wait" /\ << "timedwait", "" >>[1] = "timedwait"
    OBVIOUS
  <2> QED BY <2>1, <2>2
<1>3. None[1] = ""
  BY DEF None
<1> QED BY <1>1, <1>2, <1>3

(* Both sets that the invariant counts are finite.                         *)
LEMMA Finite ==
  ASSUME CondAssumption
  PROVE  /\ IsFiniteSet(Unpulsed) /\ IsFiniteSet(Helpers)
         /\ Cardinality(Unpulsed) \in Nat /\ Cardinality(Helpers) \in Nat
<1>1. Unpulsed \in SUBSET Threads /\ Helpers \in SUBSET Threads
  BY DEF Unpulsed, Helpers
<1>2. IsFiniteSet(Unpulsed) /\ IsFiniteSet(Helpers)
  BY <1>1, FS_Subset DEF CondAssumption
<1> QED BY <1>2, FS_CardinalityType

(* The same in the next state, as the steps need it.                       *)
LEMMA FiniteNext ==
  ASSUME CondAssumption
  PROVE  /\ IsFiniteSet(Unpulsed') /\ IsFiniteSet(Helpers')
         /\ Cardinality(Unpulsed') \in Nat /\ Cardinality(Helpers') \in Nat
<1>1. Unpulsed' \in SUBSET Threads /\ Helpers' \in SUBSET Threads
  BY DEF Unpulsed, Helpers
<1>2. IsFiniteSet(Unpulsed') /\ IsFiniteSet(Helpers')
  BY <1>1, FS_Subset DEF CondAssumption
<1> QED BY <1>2, FS_CardinalityType

(* Arithmetic of the counter: a value is twice a number plus the shared    *)
(* bit, and a pulse takes one off the number unless the bound is reached.  *)
LEMMA Halves ==
  ASSUME NEW v \in Int
  PROVE  v = 2 * (v \div 2) + (v % 2) /\ v % 2 \in {0, 1} /\ v \div 2 \in Int
OBVIOUS

(* What the exchange does to the two parts of a value.                     *)
LEMMA Parts ==
  ASSUME NEW c \in Int, NEW f \in {0, 1}
  PROVE  /\ (2 * c + f - 2) \div 2 = c - 1
         /\ (2 * c + f) % 2 = f /\ (2 * c + f) \div 2 = c
OBVIOUS

(* A value that fits in the word is kept by the arithmetic of the word.    *)
LEMMA Small == ASSUME NEW M \in Nat, NEW x \in 0 .. M - 1 PROVE x % M = x
OBVIOUS

(* The first pulse goes from zero to the top of the word.                  *)
LEMMA MinusTwo == ASSUME NEW M \in Nat, M >= 2 PROVE (-2) % M = M - 2
OBVIOUS

(* One pulse more: as long as the bound is kept the counter does not wrap, *)
(* the shared bit stays, and the value is not the mark of a destroyed one. *)
LEMMA PulseMoves ==
  ASSUME CondAssumption, NEW v \in Words, NEW n \in Nat,
         n < MaxPulses, PulsesTo(v) <= n
  PROVE  /\ Pulsed(v, v % 2) \in Words /\ Pulsed(v, v % 2) % 2 = v % 2
         /\ PulsesTo(Pulsed(v, v % 2)) = PulsesTo(v) + 1
         /\ Pulsed(v, v % 2) # DeadCond
<1> DEFINE c == v \div 2
           f == v % 2
           M == 2^Width
<1>1. M \in Nat /\ M = 2 * Half /\ MaxPulses < Half /\ MaxPulses \in Nat
  BY DEF CondAssumption
<1>2. Half \in Int
  BY <1>1 DEF Half
<1>3. v \in Int /\ 0 <= v /\ v < M
  BY <1>1 DEF Words
<1>4. v = 2 * c + f /\ f \in {0, 1} /\ c \in Int
  BY <1>3, Halves
<1>5. 0 <= c /\ c < Half
  <2> HIDE DEF c, f, M
  <2> QED BY <1>1, <1>2, <1>3, <1>4
<1>6. (v - 2) \div 2 = c - 1
  <2>1. (2 * c + f - 2) \div 2 = c - 1
    BY <1>4, Parts
  <2> QED BY <1>4, <2>1
<1>7. CASE c = 0
  <2>1. (((v - 2) \div 2) * 2) % M = M - 2
    <3>1. M >= 2
      BY <1>1, <1>2
    <3>2. ((v - 2) \div 2) * 2 = -2
      BY <1>6, <1>7
    <3> HIDE DEF M
    <3> QED BY <1>1, <3>1, <3>2, MinusTwo
  <2>2. Pulsed(v, f) = 2 * (Half - 1) + f
    <3>1. Pulsed(v, f) = (M - 2) + f
      BY <2>1 DEF Pulsed
    <3> HIDE DEF M, f
    <3> QED BY <1>1, <1>2, <1>4, <3>1
  <2>3. Pulsed(v, f) % 2 = f /\ Pulsed(v, f) \div 2 = Half - 1
    <3> HIDE DEF f
    <3> QED BY <1>2, <1>4, <2>2, Parts
  <2>4. Pulsed(v, f) \in Words
    <3> HIDE DEF M, f
    <3>1. Pulsed(v, f) \in 0 .. M - 1
      BY <1>1, <1>2, <1>4, <1>5, <2>2
    <3> QED BY <3>1 DEF Words, M
  <2>5. Half - 1 # 0 /\ PulsesTo(v) = 0
    BY <1>1, <1>2, <1>7 DEF PulsesTo
  <2>6. PulsesTo(Pulsed(v, f)) = 1
    <3> HIDE DEF f
    <3> QED BY <1>2, <2>3, <2>5 DEF PulsesTo
  <2>7. Pulsed(v, f) # DeadCond
    <3> HIDE DEF f
    <3> QED BY <1>1, <2>4, <2>6 DEF CondAssumption, Words
  <2> QED BY <2>3, <2>4, <2>5, <2>6, <2>7
<1>8. CASE c > 0
  <2>1. PulsesTo(v) = Half - c
    BY <1>5, <1>8 DEF PulsesTo
  <2>2. c >= 2
    <3> HIDE DEF c
    <3> QED BY <1>1, <1>2, <1>4, <2>1
  <2>3. (((v - 2) \div 2) * 2) % M = (c - 1) * 2
    <3>1. (c - 1) * 2 \in 0 .. M - 1
      <4> HIDE DEF M, c
      <4> QED BY <1>1, <1>2, <1>4, <1>5, <1>8
    <3> HIDE DEF M, c
    <3> QED BY <1>1, <1>6, <3>1, Small
  <2>4. Pulsed(v, f) = 2 * (c - 1) + f
    <3>1. Pulsed(v, f) = (c - 1) * 2 + f
      BY <2>3 DEF Pulsed
    <3> HIDE DEF c, f
    <3> QED BY <1>4, <3>1
  <2>5. Pulsed(v, f) % 2 = f /\ Pulsed(v, f) \div 2 = c - 1
    <3>1. c - 1 \in Int
      BY <1>4
    <3> HIDE DEF f, c
    <3> QED BY <1>4, <2>4, <3>1, Parts
  <2>6. Pulsed(v, f) \in Words
    <3> HIDE DEF M, f, c
    <3>1. Pulsed(v, f) \in 0 .. M - 1
      BY <1>1, <1>2, <1>4, <1>5, <1>8, <2>4
    <3> QED BY <3>1 DEF Words, M
  <2>7. PulsesTo(Pulsed(v, f)) = PulsesTo(v) + 1
    <3> HIDE DEF f, c
    <3> QED BY <1>2, <1>4, <2>1, <2>2, <2>5 DEF PulsesTo
  <2>8. Pulsed(v, f) # DeadCond
    <3>1. PulsesTo(Pulsed(v, f)) <= MaxPulses
      <4> HIDE DEF f, c
      <4> QED BY <1>1, <1>2, <1>4, <2>1, <2>7
    <3> HIDE DEF f
    <3> QED BY <2>6, <3>1 DEF CondAssumption, Words
  <2> QED BY <2>5, <2>6, <2>7, <2>8
<1> QED BY <1>5, <1>4, <1>7, <1>8

(* At first everybody is outside, and no pulse has been.                   *)
LEMMA InitIInv == CondAssumption /\ Init => IInv
<1> SUFFICES ASSUME CondAssumption, Init PROVE IInv
  OBVIOUS
<1> USE DEF Init
<1>1. 0 \in Words /\ PulsesTo(0) = 0 /\ 0 # DeadCond
  <2>1. 2^Width \in Nat /\ 2^Width = 2 * Half /\ MaxPulses \in Nat /\ MaxPulses < Half
    BY DEF CondAssumption
  <2>2. 0 \in Words
    BY <2>1 DEF Words, Half
  <2>3. PulsesTo(0) = 0
    BY DEF PulsesTo
  <2> QED BY <2>1, <2>2, <2>3 DEF CondAssumption, Words
<1>2. TypeOK
  <2>1. MaxPulses \in Nat
    BY DEF CondAssumption
  <2> QED BY <1>1, <2>1 DEF TypeOK, Words, Attrs
<1>3. PlaceInv
  BY <1>1 DEF PlaceInv, Placed, Points, Pulsing, Waiting, HasMutex
<1>4. Unpulsed = {} /\ Cardinality(Unpulsed) = 0
  <2>1. Unpulsed = {}
    BY DEF Unpulsed, ToPulse, Pulsing
  <2> QED BY <2>1, FS_EmptySet
<1>5. ReadInv
  BY <1>1 DEF ReadInv
<1>6. CountInv
  BY <1>1, <1>4 DEF CountInv
<1>7. WaitInv /\ SleepInv
  BY DEF WaitInv, SleepInv
<1> QED BY <1>2, <1>3, <1>5, <1>6, <1>7 DEF IInv

(* The calls are constants.                                                *)
LEMMA Fixed == Puts' = Puts /\ Takes' = Takes /\ None' = None /\ Words' = Words
BY DEF Puts, Takes, None, Words

(* Nothing that is counted changes, nobody reads but what is there while   *)
(* the mailbox is empty, and the helpers of the sleepers suffice.          *)
LEMMA CountsSame ==
  ASSUME CondAssumption, IInv,
         UNCHANGED << value, items, pulses >>, Unpulsed' = Unpulsed,
         \A u \in Threads : pc'[u] = "held" /\ op'[u] \in Puts => pulses < MaxPulses,
         \A u \in Threads : pc'[u] \in {"w_unlock", "w_sleep"} =>
           \/ pc[u] \in {"w_unlock", "w_sleep"} /\ old'[u] = old[u]
           \/ items = 0 /\ old'[u] = value,
         value \in Words \/ \A u \in Threads : pc'[u] \notin {"w_unlock", "w_sleep"},
         sleepers' # {} => items <= Cardinality(Helpers')
  PROVE  CountInv' /\ WaitInv' /\ SleepInv'
<1> USE DEF IInv
<1>1. CountInv'
  BY Fixed DEF CountInv, PulsesTo, Half
<1>2. WaitInv'
  <2>1. SUFFICES ASSUME NEW u \in Threads, pc'[u] \in {"w_unlock", "w_sleep"}
                 PROVE  /\ PulsesTo(old'[u]) <= PulsesTo(value)
                        /\ old'[u] = value => items <= Cardinality(Unpulsed)
    BY DEF WaitInv, PulsesTo, Half
  <2>2. CASE pc[u] \in {"w_unlock", "w_sleep"} /\ old'[u] = old[u]
    BY <2>2 DEF WaitInv
  <2>3. CASE items = 0 /\ old'[u] = value
    <3>1. PulsesTo(value) \in Int
      <4>1. 2^Width \in Nat /\ 2^Width = 2 * Half
        BY DEF CondAssumption
      <4>2. Half \in Int /\ value \in Int
        BY <2>1, <4>1 DEF Half, Words
      <4> QED BY <4>2 DEF PulsesTo
    <3> QED BY <2>3, <3>1, Finite
  <2> QED BY <2>1, <2>2, <2>3
<1>3. SleepInv'
  BY DEF SleepInv
<1> QED BY <1>1, <1>2, <1>3

(* Helpers that are joined by others suffice as before.                    *)
LEMMA HelpersGrow ==
  ASSUME CondAssumption, IInv, Helpers \subseteq Helpers', sleepers' \subseteq sleepers,
         sleepers' # {}
  PROVE  items <= Cardinality(Helpers')
<1>1. Cardinality(Helpers) <= Cardinality(Helpers')
  BY FiniteNext, FS_Subset
<1>2. items <= Cardinality(Helpers) /\ items \in Int
  BY DEF IInv, SleepInv, TypeOK, CondAssumption
<1> QED BY <1>1, <1>2, Finite, FiniteNext

(* One thread moves: what is known of the places of the others stays.      *)
LEMMA PlaceStep ==
  ASSUME CondAssumption, PlaceInv, NEW t \in Threads, value' # DeadCond,
         pc' \in [Threads -> Points], Placed(t)',
         \A u \in Threads : u # t => pc'[u] = pc[u] /\ op'[u] = op[u],
         holder' = holder \/ holder = NoOwner \/ holder = t
  PROVE  PlaceInv'
<1>1. ASSUME NEW u \in Threads, u # t PROVE Placed(u)'
  <2>1. pc'[u] = pc[u] /\ op'[u] = op[u] /\ Placed(u)
    BY <1>1 DEF PlaceInv
  <2>2. HasMutex(u)' => holder = u /\ holder # NoOwner
    BY <2>1 DEF HasMutex, Placed, CondAssumption, Pulsing
  <2>3. HasMutex(u)' => holder' = u
    BY <1>1, <2>2
  <2> QED BY <2>1, <2>3, Fixed DEF Placed, Waiting, Pulsing
<1> QED BY <1>1 DEF PlaceInv, Points, Pulsing, Waiting

(* The client locks the mutex, and gives it back.                          *)
LEMMA LockStep ==
  ASSUME CondAssumption, IInv, NEW t \in Threads,
         (\E o \in Puts \cup Takes : CallLock(t, o)) \/ Unlock(t)
  PROVE  IInv'
<1> USE DEF IInv
<1>1. CASE \E o \in Puts \cup Takes : CallLock(t, o)
  <2>1. PICK o \in Puts \cup Takes : CallLock(t, o)
    BY <1>1
  <2>2. /\ pc[t] = "idle" /\ holder = NoOwner /\ value # DeadCond
        /\ o \in Puts => pulses < MaxPulses
        /\ holder' = t /\ pc' = [pc EXCEPT ![t] = "held"] /\ op' = [op EXCEPT ![t] = o]
        /\ UNCHANGED << value, attr, sleepers, items, old, flags, pulses >>
    BY <2>1 DEF CallLock
  <2>3. pc'[t] = "held" /\ op'[t] = o /\ op[t] = None
    BY <2>2 DEF TypeOK, PlaceInv, Placed
  <2>4. \A u \in Threads : u # t => pc'[u] = pc[u] /\ op'[u] = op[u]
    BY <2>2 DEF TypeOK, PlaceInv
  <2>5. TypeOK'
    <3>1. op' \in [Threads -> Puts \cup Takes \cup {None}]
      BY <2>2 DEF TypeOK
    <3>2. sleepers \subseteq { u \in Threads : pc'[u] = "w_lock" }
      BY <2>2, <2>4 DEF TypeOK
    <3> QED BY <2>2, <3>1, <3>2, Fixed DEF TypeOK, Attrs
  <2>6. PlaceInv'
    <3>1. pc' \in [Threads -> Points]
      BY <2>2 DEF PlaceInv, Points
    <3>2. Placed(t)'
      BY <2>2, <2>3, Fixed DEF Placed, Waiting, Pulsing
    <3> QED BY <2>2, <2>4, <3>1, <3>2, PlaceStep
  <2>7. ReadInv'
    BY <2>2, <2>3, <2>4, Fixed DEF ReadInv
  <2>8. Unpulsed' = Unpulsed
    <3>1. \A u \in Threads : ToPulse(u)' <=> ToPulse(u)
      BY <2>2, <2>3, <2>4, Fixed DEF ToPulse, Pulsing
    <3> QED BY <3>1 DEF Unpulsed
  <2>9. Helpers \subseteq Helpers'
    <3>1. \A u \in Threads : Awake(u) => Awake(u)'
      BY <2>2, <2>3, <2>4, Fixed, Kinds DEF Awake, ToPulse, Pulsing
    <3> QED BY <3>1 DEF Helpers
  <2>10. \A u \in Threads : pc'[u] = "held" /\ op'[u] \in Puts => pulses < MaxPulses
    BY <2>2, <2>3, <2>4 DEF CountInv
  <2>11. \A u \in Threads : pc'[u] \in {"w_unlock", "w_sleep"} =>
           pc[u] \in {"w_unlock", "w_sleep"} /\ old'[u] = old[u]
    BY <2>2, <2>3, <2>4
  <2>12. value \in Words
    BY <2>2 DEF TypeOK, Words
  <2> QED BY <2>2, <2>5, <2>6, <2>7, <2>8, <2>9, <2>10, <2>11, <2>12,
             CountsSame, HelpersGrow
<1>2. CASE Unlock(t)
  <2>1. /\ pc[t] = "unlock" /\ holder = t /\ holder' = NoOwner
        /\ UNCHANGED << value, attr, sleepers, items, pulses >>
    BY <1>2 DEF Unlock
  <2>2. /\ pc' = [pc EXCEPT ![t] = IF op[t] \in Puts /\ op[t][2] = "after unlock"
                                   THEN "p_flags" ELSE "idle"]
        /\ op' = [op EXCEPT ![t] = IF op[t] \in Puts /\ op[t][2] = "after unlock"
                                   THEN op[t] ELSE None]
    BY <1>2 DEF Unlock, Goto, Back, TypeOK
  <2>3. \A u \in Threads : u # t =>
          pc'[u] = pc[u] /\ op'[u] = op[u] /\ old'[u] = old[u] /\ flags'[u] = flags[u]
    BY <1>2, <2>2 DEF Unlock, Goto, Back, TypeOK, PlaceInv, ReadInv
  <2>4. \/ /\ op[t] \in Puts /\ op[t][2] = "after unlock"
           /\ pc'[t] = "p_flags" /\ op'[t] = op[t]
        \/ /\ ~(op[t] \in Puts /\ op[t][2] = "after unlock")
           /\ pc'[t] = "idle" /\ op'[t] = None
    BY <2>2 DEF TypeOK, PlaceInv
  <2>5. old' \in [Threads -> Words] /\ flags' \in [Threads -> {0, 1}]
    <3>1. 0 \in Words
      BY DEF Words, CondAssumption, Half
    <3> QED BY <1>2, <3>1 DEF Unlock, Goto, Back, ReadInv
  <2>6. value # DeadCond
    BY <2>1 DEF PlaceInv, Quiet
  <2>7. TypeOK'
    <3>1. op' \in [Threads -> Puts \cup Takes \cup {None}]
      BY <2>2 DEF TypeOK
    <3>2. sleepers \subseteq { u \in Threads : pc'[u] = "w_lock" }
      BY <2>1, <2>3 DEF TypeOK
    <3> QED BY <2>1, <3>1, <3>2, Fixed DEF TypeOK, Attrs
  <2>8. PlaceInv'
    <3>1. pc' \in [Threads -> Points]
      BY <2>2 DEF PlaceInv, Points, Pulsing
    <3>2. Placed(t)'
      BY <2>1, <2>4, Fixed DEF Placed, Waiting, Pulsing, HasMutex
    <3> QED BY <2>1, <2>3, <2>6, <3>1, <3>2, PlaceStep
  <2>9. ReadInv'
    BY <2>1, <2>3, <2>4, <2>5, Fixed DEF ReadInv
  <2>10. Unpulsed' = Unpulsed
    <3>1. \A u \in Threads : ToPulse(u)' <=> ToPulse(u)
      BY <2>1, <2>3, <2>4, Fixed DEF ToPulse, Pulsing
    <3> QED BY <3>1 DEF Unpulsed
  <2>11. Helpers \subseteq Helpers'
    <3>1. \A u \in Threads : Awake(u) => Awake(u)'
      BY <2>1, <2>3, <2>4, Fixed, Kinds DEF Awake, ToPulse, Pulsing
    <3> QED BY <3>1 DEF Helpers
  <2>12. \A u \in Threads : pc'[u] = "held" /\ op'[u] \in Puts => pulses < MaxPulses
    BY <2>3, <2>4 DEF CountInv
  <2>13. \A u \in Threads : pc'[u] \in {"w_unlock", "w_sleep"} =>
           pc[u] \in {"w_unlock", "w_sleep"} /\ old'[u] = old[u]
    BY <2>3, <2>4
  <2>14. value \in Words
    BY <2>6 DEF TypeOK, Words
  <2> QED BY <2>1, <2>7, <2>8, <2>9, <2>10, <2>11, <2>12, <2>13, <2>14,
             CountsSame, HelpersGrow
<1> QED BY <1>1, <1>2

(* A step that keeps its call: types, places and reads, for what it does   *)
(* to the thread's own place and locals.                                   *)
LEMMA SameCall ==
  ASSUME CondAssumption, IInv, NEW t \in Threads, NEW l \in Points, pc[t] # "idle",
         pc' = [pc EXCEPT ![t] = l], UNCHANGED << value, attr, op >>,
         sleepers' \subseteq { u \in Threads : pc'[u] = "w_lock" },
         items' \in 0 .. MaxPulses, pulses' \in 0 .. MaxPulses,
         holder' \in Threads \cup {NoOwner},
         holder' = holder \/ holder = NoOwner \/ holder = t,
         l = "idle" => op[t] = None, l \in {"held", "unlock"} => op[t] \in Puts \cup Takes,
         l \in Waiting => op[t] \in Takes, l \in Pulsing \cup {"p_wake"} => op[t] \in Puts,
         HasMutex(t)' => holder' = t,
         \A u \in Threads : u # t => old'[u] = old[u] /\ flags'[u] = flags[u],
         old' \in [Threads -> Words], flags' \in [Threads -> {0, 1}],
         l \in {"p_load", "p_cas"} => flags'[t] = value % 2
  PROVE  /\ TypeOK' /\ PlaceInv' /\ ReadInv' /\ value \in Words /\ pc'[t] = l
         /\ \A u \in Threads : u # t => pc'[u] = pc[u]
<1> USE DEF IInv
<1>1. /\ pc'[t] = l /\ \A u \in Threads : u # t => pc'[u] = pc[u]
      /\ pc' \in [Threads -> Points]
  BY DEF PlaceInv
<1>2. value # DeadCond
  BY DEF PlaceInv, Quiet
<1>3. TypeOK'
  BY Fixed DEF TypeOK, Attrs
<1>4. Placed(t)'
  BY <1>1, Fixed DEF Placed, Waiting, Pulsing
<1>5. PlaceInv'
  BY <1>1, <1>2, <1>4, PlaceStep
<1>6. ReadInv'
  BY <1>1, Fixed DEF ReadInv
<1> QED BY <1>1, <1>2, <1>3, <1>5, <1>6 DEF TypeOK, Words

(* A waiter from its look into the mailbox to the lock it takes again: its *)
(* sleep is what the invariant is for.                                     *)
LEMMA WaitStep ==
  ASSUME CondAssumption, IInv, NEW t \in Threads,
         \/ WaitBegin(t) \/ WaitExpired(t) \/ WaitUnlock(t) \/ WaitSleep(t) \/ WaitLock(t)
  PROVE  IInv'
<1> USE DEF IInv
<1> DEFINE l == IF WaitBegin(t) THEN "w_unlock" ELSE IF WaitExpired(t) THEN "unlock"
                ELSE IF WaitUnlock(t) THEN "w_sleep" ELSE IF WaitSleep(t) THEN "w_lock"
                ELSE "held"
<1>1. /\ pc' = [pc EXCEPT ![t] = l] /\ UNCHANGED << value, attr, op, items, pulses, flags >>
      /\ pc[t] \in {"held", "w_unlock", "w_sleep", "w_lock"}
      /\ op[t] \in Takes
  BY DEF WaitBegin, WaitExpired, WaitUnlock, WaitSleep, WaitLock, Goto, PlaceInv,
         Placed, Waiting, Takes
<1>2. l \in {"w_unlock", "w_sleep", "w_lock", "held", "unlock"}
  OBVIOUS
<1>3. old' \in [Threads -> Words] /\ \A u \in Threads : u # t => old'[u] = old[u]
  <2>1. value \in Words /\ 0 \in Words
    BY <1>1 DEF PlaceInv, Quiet, TypeOK, Words, CondAssumption, Half
  <2> QED BY <2>1 DEF ReadInv, WaitBegin, WaitExpired, WaitUnlock, WaitSleep, WaitLock,
             Goto
<1>4. t \notin sleepers
  BY DEF TypeOK, WaitBegin, WaitExpired, WaitUnlock, WaitSleep, WaitLock
<1>5. /\ holder' \in Threads \cup {NoOwner}
      /\ holder' = holder \/ holder = NoOwner \/ holder = t
  BY DEF WaitBegin, WaitExpired, WaitUnlock, WaitSleep, WaitLock, TypeOK, PlaceInv,
         Placed, HasMutex
<1>6. HasMutex(t)' => holder' = t
  <2>1. pc'[t] = l
    BY <1>1 DEF PlaceInv
  <2>2. CASE WaitBegin(t) \/ WaitExpired(t)
    <3>1. pc[t] = "held" /\ holder' = holder
      BY <2>2 DEF WaitBegin, WaitExpired
    <3> QED BY <3>1 DEF PlaceInv, Placed, HasMutex
  <2>3. CASE WaitUnlock(t) \/ WaitSleep(t)
    <3>1. pc'[t] \in {"w_sleep", "w_lock"}
      BY <2>3 DEF WaitUnlock, WaitSleep, Goto, PlaceInv
    <3> QED BY <3>1 DEF HasMutex, Pulsing
  <2>4. CASE WaitLock(t)
    BY <2>4 DEF WaitLock
  <2> QED BY <2>2, <2>3, <2>4
<1>7. /\ sleepers' \subseteq { u \in Threads : pc'[u] = "w_lock" }
      /\ sleepers' = sleepers \/ (sleepers' = sleepers \cup {t} /\ WaitSleep(t) /\ value = old[t])
  <2>1. \A u \in Threads : u # t => pc'[u] = pc[u]
    BY <1>1 DEF PlaceInv
  <2>2. sleepers' = sleepers \/ (sleepers' = sleepers \cup {t} /\ WaitSleep(t) /\ value = old[t])
    BY DEF WaitBegin, WaitExpired, WaitUnlock, WaitSleep, WaitLock, F!FutexWait
  <2>3. WaitSleep(t) => pc'[t] = "w_lock"
    BY DEF WaitSleep, Goto, PlaceInv
  <2> QED BY <1>4, <2>1, <2>2, <2>3 DEF TypeOK
<1>8. /\ TypeOK' /\ PlaceInv' /\ ReadInv' /\ value \in Words /\ pc'[t] = l
      /\ \A u \in Threads : u # t => pc'[u] = pc[u]
  <2>1. l \in Points /\ l # "idle" /\ l \notin Pulsing \cup {"p_wake"}
    BY <1>2 DEF Points, Waiting, Pulsing
  <2>2. items' \in 0 .. MaxPulses /\ pulses' \in 0 .. MaxPulses /\ flags' \in [Threads -> {0, 1}]
    BY <1>1 DEF TypeOK, ReadInv
  <2> HIDE DEF l
  <2> QED BY <1>1, <1>3, <1>5, <1>6, <1>7, <2>1, <2>2, SameCall DEF Pulsing
<1>9. Unpulsed' = Unpulsed
  <2>1. \A u \in Threads : ToPulse(u)' <=> ToPulse(u)
    BY <1>1, <1>2, <1>8, Fixed, Kinds DEF ToPulse, Pulsing
  <2> QED BY <2>1 DEF Unpulsed
<1>10. sleepers' # {} => items <= Cardinality(Helpers')
  <2>1. CASE WaitExpired(t)
    <3>1. items = 0
      BY <2>1 DEF WaitExpired
    <3> QED BY <3>1, FiniteNext
  <2>2. CASE sleepers' = sleepers /\ ~WaitExpired(t)
    <3>1. \A u \in Threads : Awake(u) => Awake(u)'
      BY <2>2, <1>1, <1>2, <1>8, Fixed, Kinds DEF Awake, ToPulse, Pulsing
    <3>2. Helpers \subseteq Helpers'
      BY <3>1 DEF Helpers
    <3> QED BY <3>2, <2>2, HelpersGrow
  <2>3. CASE sleepers' = sleepers \cup {t} /\ WaitSleep(t) /\ value = old[t]
    <3>1. items <= Cardinality(Unpulsed)
      BY <2>3 DEF WaitSleep, WaitInv
    <3>2. Unpulsed \subseteq Helpers'
      <4>1. \A u \in Threads : ToPulse(u) => u \notin sleepers'
        BY <2>3, <1>1 DEF ToPulse, Pulsing, TypeOK, WaitSleep
      <4>2. \A u \in Threads : ToPulse(u) => Awake(u)'
        BY <4>1, <1>1, <1>8, <2>3, Fixed, Kinds DEF Awake, ToPulse, Pulsing, WaitSleep
      <4> QED BY <4>2 DEF Helpers, Unpulsed
    <3>3. Cardinality(Unpulsed) <= Cardinality(Helpers')
      BY <3>2, FiniteNext, FS_Subset
    <3> QED BY <3>1, <3>3, Finite, FiniteNext DEF TypeOK, CondAssumption
  <2> QED BY <1>7, <2>1, <2>2, <2>3
<1>11. \A u \in Threads : pc'[u] = "held" /\ op'[u] \in Puts => pulses < MaxPulses
  BY <1>1, <1>8, Kinds DEF CountInv
<1>12. \A u \in Threads : pc'[u] \in {"w_unlock", "w_sleep"} =>
           \/ pc[u] \in {"w_unlock", "w_sleep"} /\ old'[u] = old[u]
           \/ items = 0 /\ old'[u] = value
  <2>1. SUFFICES ASSUME pc'[t] \in {"w_unlock", "w_sleep"}
                 PROVE  \/ pc[t] \in {"w_unlock", "w_sleep"} /\ old'[t] = old[t]
                        \/ items = 0 /\ old'[t] = value
    BY <1>3, <1>8
  <2>2. WaitBegin(t) \/ WaitUnlock(t)
    BY <2>1, <1>8
  <2> QED BY <2>2 DEF WaitBegin, WaitUnlock, Goto, ReadInv
<1> QED BY <1>1, <1>8, <1>9, <1>10, <1>11, <1>12, CountsSame

(* A handler or the time-out ends a sleep: one helper more.                *)
LEMMA InterruptStep ==
  ASSUME CondAssumption, IInv, NEW t \in Threads, Interrupt(t)
  PROVE  IInv'
<1> USE DEF IInv
<1>1. /\ UNCHANGED << value, attr, holder, items, pc, op, old, flags, pulses >>
      /\ sleepers' = sleepers \ {t}
  BY DEF Interrupt, calls, F!FutexInterrupt
<1>2. TypeOK' /\ PlaceInv' /\ ReadInv'
  <2>1. \A u \in Threads : Placed(u)'
    BY <1>1, Fixed DEF PlaceInv, Placed, HasMutex, Waiting, Pulsing
  <2> QED BY <1>1, <2>1, Fixed
      DEF TypeOK, Attrs, PlaceInv, Points, Waiting, Pulsing, Quiet, ReadInv
<1>3. Unpulsed' = Unpulsed
  BY <1>1, Fixed DEF Unpulsed, ToPulse, Pulsing
<1>4. Helpers \subseteq Helpers'
  BY <1>1, Fixed DEF Helpers, Awake, ToPulse, Pulsing
<1>5. value \in Words \/ \A u \in Threads : pc'[u] \notin {"w_unlock", "w_sleep"}
  BY <1>1 DEF TypeOK, Words, PlaceInv, Quiet
<1>6. sleepers' # {} => items <= Cardinality(Helpers')
  BY <1>1, <1>4, HelpersGrow
<1>7. \A u \in Threads : pc'[u] = "held" /\ op'[u] \in Puts => pulses < MaxPulses
  BY <1>1 DEF CountInv
<1> QED BY <1>1, <1>2, <1>3, <1>5, <1>6, <1>7, CountsSame

(* A pulse up to its exchange: it reads the bit and the counter, and reads *)
(* again when another pulse was faster.                                    *)
LEMMA PulseReadStep ==
  ASSUME CondAssumption, IInv, NEW t \in Threads,
         \/ PulseFlags(t) \/ PulseLoad(t) \/ (PulseCas(t) /\ value # old[t])
  PROVE  IInv'
<1> USE DEF IInv
<1>1. PICK l \in {"p_load", "p_cas"} :
        /\ pc' = [pc EXCEPT ![t] = l] /\ pc[t] \in Pulsing
        /\ UNCHANGED << value, attr, sleepers, holder, items, op, pulses >>
  BY DEF PulseFlags, PulseLoad, PulseCas, Goto, Pulsing
<1>2. value \in Words /\ value % 2 \in {0, 1}
  <2>1. value \in Words /\ value \in Int
    BY <1>1 DEF PlaceInv, Quiet, TypeOK, Words, CondAssumption, Pulsing
  <2> QED BY <2>1, Halves
<1>3. /\ old' \in [Threads -> Words] /\ flags' \in [Threads -> {0, 1}]
      /\ \A u \in Threads : u # t => old'[u] = old[u] /\ flags'[u] = flags[u]
      /\ flags'[t] = value % 2
  BY <1>2 DEF PulseFlags, PulseLoad, PulseCas, Goto, ReadInv
<1>4. op[t] \in Puts
  BY <1>1 DEF PlaceInv, Placed
<1>5. HasMutex(t)' => holder' = t
  <2>1. pc'[t] \in Pulsing
    BY <1>1 DEF PlaceInv, Pulsing
  <2>2. HasMutex(t)' => HasMutex(t)
    BY <1>1, <2>1 DEF HasMutex, Pulsing
  <2> QED BY <1>1, <2>2 DEF PlaceInv, Placed
<1>6. sleepers' \subseteq { u \in Threads : pc'[u] = "w_lock" }
  BY <1>1 DEF TypeOK, PlaceInv, Pulsing
<1>7. /\ TypeOK' /\ PlaceInv' /\ ReadInv' /\ value \in Words /\ pc'[t] = l
      /\ \A u \in Threads : u # t => pc'[u] = pc[u]
  <2>1. l \in Points /\ pc[t] # "idle" /\ l \notin {"idle", "held", "unlock"} \cup Waiting
    BY <1>1 DEF Points, Waiting, Pulsing
  <2>2. /\ items' \in 0 .. MaxPulses /\ pulses' \in 0 .. MaxPulses
        /\ holder' \in Threads \cup {NoOwner}
    BY <1>1 DEF TypeOK
  <2> QED BY <1>1, <1>3, <1>4, <1>5, <1>6, <2>1, <2>2, SameCall
<1>8. Unpulsed' = Unpulsed
  <2>1. \A u \in Threads : ToPulse(u)' <=> ToPulse(u)
    BY <1>1, <1>7, Fixed DEF ToPulse, Pulsing
  <2> QED BY <2>1 DEF Unpulsed
<1>9. Helpers \subseteq Helpers'
  <2>1. \A u \in Threads : Awake(u) => Awake(u)'
    BY <1>1, <1>7, Fixed DEF Awake, ToPulse, Pulsing
  <2> QED BY <2>1 DEF Helpers
<1>10. \A u \in Threads : pc'[u] = "held" /\ op'[u] \in Puts => pulses < MaxPulses
  BY <1>1, <1>7 DEF CountInv
<1>11. \A u \in Threads : pc'[u] \in {"w_unlock", "w_sleep"} =>
         pc[u] \in {"w_unlock", "w_sleep"} /\ old'[u] = old[u]
  BY <1>1, <1>3, <1>7
<1>12. sleepers' # {} => items <= Cardinality(Helpers')
  BY <1>1, <1>9, HelpersGrow
<1> QED BY <1>1, <1>7, <1>8, <1>10, <1>11, <1>12, CountsSame

(* The exchange succeeds: the counter moves on by one and one pulse less   *)
(* is to come, so no waiter finds the value it read.                       *)
LEMMA PulseCasStep ==
  ASSUME CondAssumption, IInv, NEW t \in Threads, PulseCas(t), value = old[t]
  PROVE  IInv'
<1> USE DEF IInv
<1>1. /\ pc[t] = "p_cas" /\ pc' = [pc EXCEPT ![t] = "p_wake"]
      /\ value' = Pulsed(value, flags[t])
      /\ UNCHANGED << attr, sleepers, holder, items, op, old, flags, pulses >>
  BY DEF PulseCas, Goto
<1>2. flags[t] = value % 2 /\ value # DeadCond /\ value \in Words /\ op[t] \in Puts
  <2>1. flags[t] = value % 2
    BY <1>1 DEF ReadInv
  <2>2. value # DeadCond
    BY <1>1 DEF PlaceInv, Quiet
  <2>3. op[t] \in Puts
    BY <1>1 DEF PlaceInv, Placed, Pulsing
  <2> QED BY <2>1, <2>2, <2>3 DEF TypeOK, Words
<1>3. pc'[t] = "p_wake" /\ \A u \in Threads : u # t => pc'[u] = pc[u]
  BY <1>1 DEF PlaceInv
<1>4. t \in Unpulsed /\ Unpulsed' = Unpulsed \ {t}
  <2>1. ToPulse(t) /\ ~ToPulse(t)'
    BY <1>1, <1>3 DEF ToPulse, Pulsing
  <2>2. \A u \in Threads : u # t => (ToPulse(u)' <=> ToPulse(u))
    BY <1>1, <1>3, Fixed DEF ToPulse, Pulsing
  <2> QED BY <2>1, <2>2 DEF Unpulsed
<1>5. Cardinality(Unpulsed') = Cardinality(Unpulsed) - 1 /\ Cardinality(Unpulsed') \in Nat
  BY <1>4, Finite, FiniteNext, FS_RemoveElement
<1>6. pulses = PulsesTo(value) + Cardinality(Unpulsed) /\ pulses \in Nat /\ pulses <= MaxPulses
  BY <1>2 DEF CountInv, TypeOK, CondAssumption
<1>7. PulsesTo(value) \in Int
  <2>1. Half \in Int /\ value \in Int
    BY <1>2 DEF CondAssumption, Half, Words
  <2> QED BY <2>1 DEF PulsesTo
<1>8. /\ value' \in Words /\ value' % 2 = value % 2 /\ value' # DeadCond
      /\ PulsesTo(value') = PulsesTo(value) + 1
  <2> DEFINE n == pulses - 1
  <2>1. n \in Nat /\ n < MaxPulses /\ PulsesTo(value) <= n
    <3>1. MaxPulses \in Nat /\ Cardinality(Unpulsed) \in Nat /\ Cardinality(Unpulsed) >= 1
      BY <1>5, Finite DEF CondAssumption
    <3>2. pulses - 1 >= PulsesTo(value)
      BY <1>6, <1>7, <3>1
    <3>3. PulsesTo(value) >= 0
      <4>1. Half \in Int /\ 2^Width = 2 * Half /\ value \in Int /\ value < 2 * Half
        BY <1>2 DEF CondAssumption, Half, Words
      <4>2. value = 2 * (value \div 2) + (value % 2) /\ value \div 2 \in Int
            /\ value % 2 \in {0, 1}
        BY <4>1, Halves
      <4>3. value \div 2 < Half
        BY <4>1, <4>2
      <4> QED BY <4>1, <4>2, <4>3 DEF PulsesTo
    <3> QED BY <1>6, <1>7, <3>1, <3>2, <3>3
  <2> HIDE DEF n
  <2> QED BY <1>1, <1>2, <2>1, PulseMoves
<1>9. TypeOK' /\ PlaceInv' /\ ReadInv'
  <2>1. TypeOK'
    BY <1>1, <1>3, <1>8, Fixed DEF TypeOK, Words, Attrs
  <2>2. PlaceInv'
    <3>1. pc' \in [Threads -> Points]
      BY <1>1 DEF PlaceInv, Points
    <3>2. HasMutex(t)' => HasMutex(t)
      BY <1>1, <1>3 DEF HasMutex, Pulsing
    <3>3. Placed(t)'
      BY <1>1, <1>2, <1>3, <3>2, Fixed DEF PlaceInv, Placed, Waiting
    <3> QED BY <1>1, <1>3, <1>8, <3>1, <3>3, PlaceStep
  <2>3. ReadInv'
    BY <1>1, <1>3, <1>8, Fixed DEF ReadInv
  <2> QED BY <2>1, <2>2, <2>3
<1>10. CountInv'
  <2>1. items' <= pulses' /\ pulses' = PulsesTo(value') + Cardinality(Unpulsed')
    BY <1>1, <1>5, <1>6, <1>7, <1>8, Finite DEF CountInv
  <2> QED BY <1>1, <1>3, <2>1, Fixed DEF CountInv, PulsesTo, Half
<1>11. WaitInv'
  <2>1. SUFFICES ASSUME NEW u \in Threads, pc'[u] \in {"w_unlock", "w_sleep"}
                 PROVE  PulsesTo(old[u]) <= PulsesTo(value') /\ old[u] # value'
    BY <1>1 DEF WaitInv, PulsesTo, Half
  <2>2. PulsesTo(old[u]) <= PulsesTo(value)
    BY <1>3, <2>1 DEF WaitInv
  <2>3. PulsesTo(old[u]) \in Int
    <3>1. Half \in Int /\ old[u] \in Int
      BY DEF CondAssumption, Half, Words, ReadInv
    <3> QED BY <3>1 DEF PulsesTo
  <2>4. PulsesTo(old[u]) < PulsesTo(value')
    BY <1>7, <1>8, <2>2, <2>3
  <2> QED BY <1>7, <1>8, <2>3, <2>4
<1>12. SleepInv'
  <2>1. Helpers \subseteq Helpers'
    <3>1. \A u \in Threads : Awake(u) => Awake(u)'
      BY <1>1, <1>3, Fixed DEF Awake, ToPulse, Pulsing
    <3> QED BY <3>1 DEF Helpers
  <2> QED BY <1>1, <2>1, HelpersGrow DEF SleepInv
<1> QED BY <1>9, <1>10, <1>11, <1>12

(* The wake that ends a pulse: the thread stops being a helper, and the    *)
(* sleeper it wakes becomes one.                                           *)
LEMMA PulseWakeStep ==
  ASSUME CondAssumption, IInv, NEW t \in Threads, PulseWake(t)
  PROVE  IInv'
<1> USE DEF IInv
<1>1. /\ pc[t] = "p_wake" /\ op[t] \in Puts /\ t \notin sleepers
      /\ UNCHANGED << value, attr, holder, items, pulses >>
      /\ value # DeadCond /\ value \in Words
  <2>1. pc[t] = "p_wake" /\ UNCHANGED << value, attr, holder, items, pulses >>
    BY DEF PulseWake
  <2>2. value # DeadCond
    BY <2>1 DEF PlaceInv, Quiet
  <2>3. op[t] \in Puts
    BY <2>1 DEF PlaceInv, Placed
  <2> QED BY <2>1, <2>2, <2>3 DEF TypeOK, Words
<1>2. \/ /\ op[t][2] = "after unlock"
         /\ pc' = [pc EXCEPT ![t] = "idle"] /\ op' = [op EXCEPT ![t] = None]
         /\ old' = [old EXCEPT ![t] = 0] /\ flags' = [flags EXCEPT ![t] = 0]
      \/ /\ op[t][2] = "before unlock"
         /\ pc' = [pc EXCEPT ![t] = "unlock"] /\ UNCHANGED << op, old, flags >>
  <2>1. op[t][2] \in {"before unlock", "after unlock"}
    BY <1>1, Kinds
  <2> QED BY <2>1 DEF PulseWake, Back, Goto
<1>3. /\ \A u \in Threads : u # t =>
           pc'[u] = pc[u] /\ op'[u] = op[u] /\ old'[u] = old[u] /\ flags'[u] = flags[u]
      /\ \/ pc'[t] = "idle" /\ op'[t] = None
         \/ pc'[t] = "unlock" /\ op'[t] = op[t] /\ op[t][2] = "before unlock"
  BY ZenonT(60), <1>2 DEF PlaceInv, ReadInv, TypeOK
<1>4. sleepers' = {} \/ \E s \in sleepers : sleepers' = sleepers \ {s}
  <2>1. F!Wakeable(t) = sleepers
    BY DEF F!Wakeable, F!SameKey
  <2>2. F!FutexWakeAll(t) \/ F!FutexWakeOne(t)
    BY DEF PulseWake
  <2>3. F!FutexWakeAll(t) => sleepers' = {}
    BY <2>1 DEF F!FutexWakeAll
  <2>4. F!FutexWakeOne(t) => sleepers' = {} \/ \E s \in sleepers : sleepers' = sleepers \ {s}
    BY <2>1 DEF F!FutexWakeOne
  <2> QED BY <2>2, <2>3, <2>4
<1>5. TypeOK'
  <2>1. op' \in [Threads -> Puts \cup Takes \cup {None}]
    BY <1>2 DEF TypeOK
  <2>2. sleepers' \subseteq { u \in Threads : pc'[u] = "w_lock" }
    BY <1>1, <1>3, <1>4 DEF TypeOK
  <2> QED BY <1>1, <2>1, <2>2, Fixed DEF TypeOK, Attrs
<1>6. PlaceInv'
  <2>1. pc' \in [Threads -> Points]
    BY <1>2 DEF PlaceInv, Points
  <2>2. HasMutex(t)' => HasMutex(t)
    BY <1>1, <1>3, Kinds DEF HasMutex, Pulsing
  <2>3. Placed(t)'
    BY <1>1, <1>3, <2>2, Fixed DEF PlaceInv, Placed, Waiting, Pulsing
  <2> QED BY <1>1, <1>3, <2>1, <2>3, PlaceStep
<1>7. ReadInv'
  <2>1. 0 \in Words
    BY DEF Words, CondAssumption, Half
  <2>2. old' \in [Threads -> Words] /\ flags' \in [Threads -> {0, 1}]
    BY <1>2, <2>1 DEF ReadInv
  <2>3. \A u \in Threads : pc'[u] \in {"p_load", "p_cas"} => flags'[u] = value % 2
    BY <1>3 DEF ReadInv
  <2> QED BY <1>1, <2>2, <2>3, Fixed DEF ReadInv
<1>8. Unpulsed' = Unpulsed
  <2>1. \A u \in Threads : ToPulse(u)' <=> ToPulse(u)
    BY <1>1, <1>3, Fixed, Kinds DEF ToPulse, Pulsing
  <2> QED BY <2>1 DEF Unpulsed
<1>9. sleepers' # {} => items <= Cardinality(Helpers')
  <2>1. SUFFICES ASSUME sleepers' # {} PROVE items <= Cardinality(Helpers')
    OBVIOUS
  <2>2. PICK s \in sleepers : sleepers' = sleepers \ {s}
    BY <1>4, <2>1
  <2>3. s \in Threads /\ pc[s] = "w_lock" /\ op[s] \in Takes /\ s # t
    <3>1. s \in Threads /\ pc[s] = "w_lock"
      BY DEF TypeOK
    <3> QED BY <1>1, <3>1 DEF PlaceInv, Placed, Waiting
  <2>4. t \in Helpers /\ s \notin Helpers
    BY <1>1 DEF Helpers, Awake
  <2>5. Helpers' = (Helpers \ {t}) \cup {s}
    <3>1. ~Awake(t)'
      BY <1>1, <1>3, Fixed, Kinds DEF Awake, ToPulse, Pulsing
    <3>2. Awake(s)'
      BY <1>3, <2>2, <2>3, Fixed DEF Awake
    <3>3. \A u \in Threads : u # t /\ u # s => (Awake(u)' <=> Awake(u))
      BY <1>3, <2>2, Fixed DEF Awake, ToPulse, Pulsing
    <3> QED BY <2>3, <2>4, <3>1, <3>2, <3>3 DEF Helpers
  <2>6. /\ IsFiniteSet(Helpers \ {t}) /\ Cardinality(Helpers \ {t}) = Cardinality(Helpers) - 1
        /\ s \notin Helpers \ {t}
    BY <2>4, Finite, FS_RemoveElement
  <2>7. Cardinality(Helpers') = Cardinality(Helpers \ {t}) + 1
    BY <2>5, <2>6, FS_AddElement
  <2>8. items <= Cardinality(Helpers)
    BY DEF SleepInv
  <2> QED BY <2>6, <2>7, <2>8, Finite
<1>10. \A u \in Threads : pc'[u] = "held" /\ op'[u] \in Puts => pulses < MaxPulses
  BY <1>3 DEF CountInv
<1>11. \A u \in Threads : pc'[u] \in {"w_unlock", "w_sleep"} =>
         pc[u] \in {"w_unlock", "w_sleep"} /\ old'[u] = old[u]
  BY <1>3
<1> QED BY <1>1, <1>5, <1>6, <1>7, <1>8, <1>9, <1>10, <1>11, CountsSame

(* An item more needs a helper more: the thread that puts it.              *)
LEMMA PutStep ==
  ASSUME CondAssumption, IInv, NEW t \in Threads, Put(t)
  PROVE  IInv'
<1> USE DEF IInv
<1>1. /\ pc[t] = "held" /\ op[t] \in Puts /\ items' = items + 1 /\ pulses' = pulses + 1
      /\ UNCHANGED << value, attr, sleepers, holder, op, old, flags >>
  BY DEF Put, Goto
<1>2. PICK l \in {"unlock", "p_flags"} :
        /\ pc' = [pc EXCEPT ![t] = l]
        /\ l = "unlock" => op[t][2] = "after unlock"
  BY DEF Put, Goto
<1>3. pulses < MaxPulses /\ pulses \in Nat /\ items <= pulses /\ items \in Nat /\ MaxPulses \in Nat
  BY <1>1 DEF CountInv, TypeOK, CondAssumption
<1>4. HasMutex(t)' => holder' = t
  BY <1>1 DEF PlaceInv, Placed, HasMutex
<1>5. /\ TypeOK' /\ PlaceInv' /\ ReadInv' /\ value \in Words /\ pc'[t] = l
      /\ \A u \in Threads : u # t => pc'[u] = pc[u]
  <2>1. l \in Points /\ l \notin {"idle", "p_load", "p_cas", "held"} \cup Waiting
    BY DEF Points, Waiting, Pulsing
  <2>2. items' \in 0 .. MaxPulses /\ pulses' \in 0 .. MaxPulses
    BY <1>1, <1>3
  <2>3. sleepers' \subseteq { u \in Threads : pc'[u] = "w_lock" }
    BY <1>1, <1>2 DEF TypeOK, PlaceInv
  <2>4. holder' \in Threads \cup {NoOwner}
    BY <1>1 DEF TypeOK
  <2>5. old' \in [Threads -> Words] /\ flags' \in [Threads -> {0, 1}]
    BY <1>1 DEF ReadInv
  <2> QED BY <1>1, <1>2, <1>4, <2>1, <2>2, <2>3, <2>4, <2>5, SameCall
<1>6. t \notin Unpulsed /\ Unpulsed' = Unpulsed \cup {t}
  <2>1. ~ToPulse(t) /\ ToPulse(t)'
    BY <1>1, <1>2, <1>5, Fixed DEF ToPulse, Pulsing
  <2>2. \A u \in Threads : u # t => (ToPulse(u)' <=> ToPulse(u))
    BY <1>1, <1>5, Fixed DEF ToPulse, Pulsing
  <2> QED BY <2>1, <2>2 DEF Unpulsed
<1>7. t \notin Helpers /\ Helpers' = Helpers \cup {t}
  <2>1. t \notin sleepers
    BY <1>1 DEF TypeOK
  <2>2. ~Awake(t) /\ Awake(t)'
    BY <1>1, <1>2, <1>5, <2>1, Fixed, Kinds DEF Awake, ToPulse, Pulsing
  <2>3. \A u \in Threads : u # t => (Awake(u)' <=> Awake(u))
    BY <1>1, <1>5, Fixed DEF Awake, ToPulse, Pulsing
  <2> QED BY <2>2, <2>3 DEF Helpers
<1>8. /\ Cardinality(Unpulsed') = Cardinality(Unpulsed) + 1
      /\ Cardinality(Helpers') = Cardinality(Helpers) + 1
  BY <1>6, <1>7, Finite, FS_AddElement
<1>9. CountInv'
  <2>1. value # DeadCond
    BY <1>1 DEF PlaceInv, Quiet
  <2>2. PulsesTo(value) \in Int
    <3>1. Half \in Int /\ value \in Int
      BY <1>5 DEF CondAssumption, Half, Words
    <3> QED BY <3>1 DEF PulsesTo
  <2>3. items' <= pulses' /\ pulses' = PulsesTo(value) + Cardinality(Unpulsed')
    BY <1>1, <1>3, <1>8, <2>1, <2>2, Finite DEF CountInv
  <2>4. ASSUME NEW u \in Threads, pc'[u] = "held", op'[u] \in Puts PROVE FALSE
    <3>1. u # t /\ pc[u] = "held"
      BY <1>5, <2>4
    <3> QED BY <1>1, <3>1 DEF PlaceInv, Placed, HasMutex
  <2> QED BY <1>1, <2>3, <2>4, Fixed DEF CountInv, PulsesTo, Half
<1>10. WaitInv'
  <2>1. SUFFICES ASSUME NEW u \in Threads, pc'[u] \in {"w_unlock", "w_sleep"}
                 PROVE  /\ PulsesTo(old[u]) <= PulsesTo(value)
                        /\ old[u] = value => items' <= Cardinality(Unpulsed')
    BY <1>1 DEF WaitInv, PulsesTo, Half
  <2>2. pc[u] \in {"w_unlock", "w_sleep"}
    BY <1>5, <2>1
  <2> QED BY <1>1, <1>3, <1>8, <2>2, Finite DEF WaitInv
<1>11. SleepInv'
  BY <1>1, <1>3, <1>8, Finite DEF SleepInv
<1> QED BY <1>5, <1>9, <1>10, <1>11

(* An item less, and a helper less: the thread that takes it.              *)
LEMMA TakeStep ==
  ASSUME CondAssumption, IInv, NEW t \in Threads, Take(t)
  PROVE  IInv'
<1> USE DEF IInv
<1>1. /\ pc[t] = "held" /\ op[t] \in Takes /\ items > 0 /\ items' = items - 1
      /\ pc' = [pc EXCEPT ![t] = "unlock"]
      /\ UNCHANGED << value, attr, sleepers, holder, op, old, flags, pulses >>
  BY DEF Take, Goto
<1>2. pulses \in Nat /\ items <= pulses /\ items \in Nat /\ MaxPulses \in Nat /\ pulses <= MaxPulses
  BY DEF CountInv, TypeOK, CondAssumption
<1>3. HasMutex(t)' => holder' = t
  BY <1>1 DEF PlaceInv, Placed, HasMutex
<1>4. /\ TypeOK' /\ PlaceInv' /\ ReadInv' /\ value \in Words /\ pc'[t] = "unlock"
      /\ \A u \in Threads : u # t => pc'[u] = pc[u]
  <2>1. "unlock" \in Points /\ "unlock" \notin Waiting \cup Pulsing
    BY DEF Points, Waiting, Pulsing
  <2>2. items' \in 0 .. MaxPulses /\ pulses' \in 0 .. MaxPulses
    BY <1>1, <1>2
  <2>3. sleepers' \subseteq { u \in Threads : pc'[u] = "w_lock" }
    BY <1>1 DEF TypeOK, PlaceInv
  <2>4. holder' \in Threads \cup {NoOwner}
    BY <1>1 DEF TypeOK
  <2>5. old' \in [Threads -> Words] /\ flags' \in [Threads -> {0, 1}]
    BY <1>1 DEF ReadInv
  <2> QED BY <1>1, <1>3, <2>1, <2>2, <2>3, <2>4, <2>5, SameCall
<1>5. Unpulsed' = Unpulsed
  <2>1. \A u \in Threads : ToPulse(u)' <=> ToPulse(u)
    BY <1>1, <1>4, Fixed, Kinds DEF ToPulse, Pulsing
  <2> QED BY <2>1 DEF Unpulsed
<1>6. t \in Helpers /\ Helpers' = Helpers \ {t}
  <2>1. t \notin sleepers
    BY <1>1 DEF TypeOK
  <2>2. Awake(t) /\ ~Awake(t)'
    BY <1>1, <1>4, <2>1, Fixed, Kinds DEF Awake, ToPulse, Pulsing
  <2>3. \A u \in Threads : u # t => (Awake(u)' <=> Awake(u))
    BY <1>1, <1>4, Fixed DEF Awake, ToPulse, Pulsing
  <2> QED BY <2>2, <2>3 DEF Helpers
<1>7. Cardinality(Helpers') = Cardinality(Helpers) - 1
  BY <1>6, Finite, FS_RemoveElement
<1>8. CountInv'
  <2>1. items' <= pulses'
    BY <1>1, <1>2
  <2>2. \A u \in Threads : pc'[u] = "held" /\ op'[u] \in Puts => pulses < MaxPulses
    BY <1>1, <1>4 DEF CountInv
  <2> QED BY <1>1, <1>5, <2>1, <2>2, Fixed DEF CountInv, PulsesTo, Half
<1>9. WaitInv'
  <2>1. SUFFICES ASSUME NEW u \in Threads, pc'[u] \in {"w_unlock", "w_sleep"}
                 PROVE  /\ PulsesTo(old[u]) <= PulsesTo(value)
                        /\ old[u] = value => items' <= Cardinality(Unpulsed')
    BY <1>1 DEF WaitInv, PulsesTo, Half
  <2>2. pc[u] \in {"w_unlock", "w_sleep"}
    BY <1>4, <2>1
  <2> QED BY <1>1, <1>2, <1>5, <2>2, Finite DEF WaitInv
<1>10. SleepInv'
  BY <1>1, <1>2, <1>7, Finite DEF SleepInv
<1> QED BY <1>4, <1>8, <1>9, <1>10

(* Destroying and initialising happens while nobody is inside.             *)
LEMMA ManageStep ==
  ASSUME CondAssumption, IInv, Manage
  PROVE  IInv'
<1> USE DEF IInv
<1>1. /\ Quiet /\ UNCHANGED << sleepers, holder, calls >> /\ UNCHANGED << pc, op, old, flags >>
      /\ attr' \in Attrs
      /\ ((items' = items /\ pulses' = pulses) \/ (items' = 0 /\ pulses' = 0))
      /\ (value' = DeadCond \/ (value' \in {0, 1} /\ pulses' = 0))
  <2>1. CASE \E a \in Attrs : SetAttr(a)
    BY <2>1 DEF SetAttr, calls
  <2>2. CASE DestroyCond
    BY <2>2 DEF DestroyCond, calls, TypeOK
  <2>3. CASE InitCond
    <3>1. value' \in {0, 1} /\ pulses' = 0 /\ items' = 0 /\ value = DeadCond
      BY <2>3 DEF InitCond
    <3>2. UNCHANGED << attr, sleepers, holder, pc, op, old, flags >> /\ Quiet
      BY <2>3 DEF InitCond, calls
    <3> QED BY <3>1, <3>2 DEF TypeOK, calls
  <2> QED BY <2>1, <2>2, <2>3 DEF Manage
<1>2. \A u \in Threads : pc[u] = "idle" /\ pc'[u] = "idle"
  BY <1>1 DEF Quiet
<1>3. Half \in Int /\ 2^Width = 2 * Half /\ 2^Width \in Nat /\ MaxPulses \in Nat /\ MaxPulses < Half
  BY DEF CondAssumption, Half
<1>4. \A v \in {0, 1} : v \in Words /\ PulsesTo(v) = 0
  BY <1>3 DEF Words, PulsesTo
<1>5. TypeOK'
  <2>1. value' \in 0 .. 2^Width - 1 \cup {DeadCond}
    BY <1>1, <1>4 DEF Words, TypeOK
  <2>2. items' \in 0 .. MaxPulses /\ pulses' \in 0 .. MaxPulses
    BY <1>1, <1>3 DEF TypeOK
  <2> QED BY <1>1, <2>1, <2>2, Fixed DEF TypeOK, Attrs
<1>6. PlaceInv' /\ ReadInv'
  <2>1. \A u \in Threads : Placed(u)'
    BY <1>1, Fixed DEF PlaceInv, Placed, HasMutex, Waiting, Pulsing
  <2> QED BY <1>1, <1>2, <2>1, Fixed
      DEF PlaceInv, Points, Waiting, Pulsing, Quiet, ReadInv
<1>7. Unpulsed' = {} /\ Cardinality(Unpulsed') = 0
  <2>1. Unpulsed' = {}
    BY <1>2 DEF Unpulsed, ToPulse, Pulsing
  <2> QED BY <2>1, FS_EmptySet
<1>8. CountInv'
  <2>1. items' <= pulses'
    BY <1>1, <1>3 DEF CountInv, TypeOK
  <2>2. value' # DeadCond => pulses' = 0 /\ PulsesTo(value') = 0
    BY <1>1, <1>4
  <2> QED BY <1>2, <1>7, <2>1, <2>2 DEF CountInv, PulsesTo, Half
<1>9. WaitInv' /\ SleepInv'
  <2>1. sleepers' = {}
    BY <1>1, <1>2 DEF TypeOK
  <2> QED BY <1>2, <2>1 DEF WaitInv, SleepInv
<1> QED BY <1>5, <1>6, <1>8, <1>9

(* A step that changes nothing.                                            *)
LEMMA StutterStep ==
  ASSUME CondAssumption, IInv, UNCHANGED vars
  PROVE  IInv'
<1> USE DEF IInv
<1>1. UNCHANGED << value, attr, sleepers, holder, items, pc, op, old, flags, pulses >>
  BY DEF vars, calls
<1>2. TypeOK'
  BY <1>1, Fixed DEF TypeOK, Attrs
<1>3. PlaceInv' /\ ReadInv'
  <2>1. \A u \in Threads : Placed(u)'
    BY <1>1, Fixed DEF PlaceInv, Placed, HasMutex, Waiting, Pulsing
  <2>2. pc' \in [Threads -> Points'] /\ (value' = DeadCond => Quiet')
    BY <1>1 DEF PlaceInv, Points, Waiting, Pulsing, Quiet
  <2> QED BY <1>1, <2>1, <2>2, Fixed DEF PlaceInv, ReadInv
<1>4. Unpulsed' = Unpulsed /\ Helpers' = Helpers
  BY <1>1, Fixed DEF Unpulsed, ToPulse, Helpers, Awake, Pulsing
<1>5. CountInv' /\ WaitInv' /\ SleepInv'
  BY <1>1, <1>4, Fixed DEF CountInv, WaitInv, SleepInv, PulsesTo, Half
<1> QED BY <1>2, <1>3, <1>5

(* Every step keeps the invariant.                                         *)
LEMMA NextIInv ==
  ASSUME CondAssumption, IInv, [Next]_vars
  PROVE  IInv'
<1>1. CASE Manage
  BY <1>1, ManageStep
<1>2. CASE \E t \in Threads : \/ \E o \in Puts \cup Takes : CallLock(t, o)
                              \/ WaitExpired(t) \/ Interrupt(t) \/ Inside(t)
  <2>1. PICK t \in Threads : \/ \E o \in Puts \cup Takes : CallLock(t, o)
                             \/ WaitExpired(t) \/ Interrupt(t) \/ Inside(t)
    BY <1>2
  <2>2. CASE (\E o \in Puts \cup Takes : CallLock(t, o)) \/ Unlock(t)
    BY <2>2, LockStep
  <2>3. CASE Put(t) \/ Take(t)
    BY <2>3, PutStep, TakeStep
  <2>4. CASE \/ WaitBegin(t) \/ WaitExpired(t) \/ WaitUnlock(t) \/ WaitSleep(t)
             \/ WaitLock(t)
    BY <2>4, WaitStep
  <2>5. CASE Interrupt(t)
    BY <2>5, InterruptStep
  <2>6. CASE PulseFlags(t) \/ PulseLoad(t) \/ PulseCas(t)
    <3>1. CASE PulseCas(t) /\ value = old[t]
      BY <3>1, PulseCasStep
    <3>2. CASE ~(PulseCas(t) /\ value = old[t])
      BY <2>6, <3>2, PulseReadStep
    <3> QED BY <3>1, <3>2
  <2>7. CASE PulseWake(t)
    BY <2>7, PulseWakeStep
  <2> QED BY <2>1, <2>2, <2>3, <2>4, <2>5, <2>6, <2>7 DEF Inside
<1>3. CASE UNCHANGED vars
  BY <1>3, StutterStep
<1> QED BY <1>1, <1>2, <1>3 DEF Next

(* The invariant: as many items as there are threads awake for them, as    *)
(* long as somebody sleeps, and a counter that tells how many pulses there *)
(* were.                                                                   *)
THEOREM Invariance == ASSUME CondAssumption PROVE Spec => []IInv
<1>1. Init => IInv
  BY InitIInv
<1>2. IInv /\ [Next]_vars => IInv'
  BY NextIInv
<1> QED BY <1>1, <1>2, PTL DEF Spec

(* Types: the counter stays in its word, the sleepers are waiters.         *)
THEOREM TypeCorrect == ASSUME CondAssumption PROVE Spec => []TypeOK
<1>1. IInv => TypeOK
  BY DEF IInv
<1> QED BY <1>1, Invariance, PTL

(* A helper for each item is more than one for all of them.                *)
LEMMA HelperThere == ASSUME CondAssumption, IInv PROVE NobodyForgotten
<1> SUFFICES ASSUME sleepers # {}, items > 0
             PROVE  \E t \in Threads \ sleepers :
                      \/ pc[t] \in {"p_flags", "p_load", "p_cas", "p_wake"}
                      \/ pc[t] = "unlock" /\ op[t] \in Puts /\ op[t][2] = "after unlock"
                      \/ op[t] \in Takes /\ pc[t] # "unlock"
  BY DEF NobodyForgotten
<1>1. items <= Cardinality(Helpers) /\ items \in Nat
  BY DEF IInv, SleepInv, TypeOK, CondAssumption
<1>2. Helpers # {}
  BY <1>1, FS_EmptySet
<1>3. PICK t \in Threads : Awake(t)
  BY <1>2 DEF Helpers
<1> QED BY <1>3 DEF Awake, ToPulse, Pulsing

(* Between the unlock of a waiter and its futex call, and everywhere else: *)
(* a thread sleeps over an item only while somebody is awake who will take *)
(* the item or wake a sleeper.                                             *)
THEOREM NoOneForgotten == ASSUME CondAssumption PROVE Spec => []NobodyForgotten
<1>1. IInv => NobodyForgotten
  BY HelperThere
<1> QED BY <1>1, Invariance, PTL
=============================================================================
