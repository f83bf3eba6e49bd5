--------------------------- MODULE ServicesProof ---------------------------
(***************************************************************************)
(* The services of Services.tla, for every value of the constants.  Each   *)
(* service has an inductive invariant of its own, and a step of the whole  *)
(* is a step of one service that leaves the others alone (StepOfEach).     *)
(* The invariants of condition variables and of thread records are those   *)
(* of CondProof and ThreadLifeProof, carried over by SameCond and          *)
(* SameThreads; those of the Windows futex, the exit handlers, the keys    *)
(* and the hooks are here, because they speak of the variables that        *)
(* Services gives these modules.                                           *)
(***************************************************************************)
EXTENDS Services, SequenceTheorems, FiniteSetTheorems, WellFoundedInduction,
        TLAPS

-----------------------------------------------------------------------------
(* Numbers and lists.                                                      *)

(* A set of numbers that is not empty has a least one.                     *)
LEMMA LeastNumber ==
  ASSUME NEW S \in SUBSET Nat, S # {}
  PROVE  \E m \in S : \A n \in S : m <= n
<1>1. PICK m \in S : \A n \in S : ~(<< n, m >> \in OpToRel(<, Nat))
  BY NatLessThanWellFounded, WFMin
<1>2. \A n \in S : n < m => << n, m >> \in OpToRel(<, Nat)
  BY DEF OpToRel
<1>3. ASSUME NEW n \in S PROVE m <= n
  <2>1. ~(n < m) /\ n \in Nat /\ m \in Nat
    BY <1>1, <1>2
  <2> QED BY <2>1
<1> QED BY <1>3

(* One element in front.                                                   *)
LEMMA Pushed ==
  ASSUME NEW S, NEW s \in Seq(S), NEW e \in S
  PROVE  /\ << e >> \o s \in Seq(S) /\ Len(<< e >> \o s) = Len(s) + 1
         /\ (<< e >> \o s)[1] = e
         /\ \A i \in 1 .. Len(s) : (<< e >> \o s)[i + 1] = s[i]
         /\ \A i \in 2 .. Len(s) + 1 : (<< e >> \o s)[i] = s[i - 1]
<1>1. << e >> \in Seq(S) /\ Len(<< e >>) = 1 /\ << e >>[1] = e
  OBVIOUS
<1> QED BY <1>1, ConcatProperties, LenProperties

(* One element taken out: what RemoveAt of the community modules returns.  *)
Without(s, k) == SubSeq(s, 1, k - 1) \o SubSeq(s, k + 1, Len(s))
LEMMA TakenOut ==
  ASSUME NEW S, NEW s \in Seq(S), NEW k \in 1 .. Len(s)
  PROVE  /\ Without(s, k) \in Seq(S) /\ Len(Without(s, k)) = Len(s) - 1
         /\ \A i \in 1 .. Len(s) - 1 :
              Without(s, k)[i] = IF i < k THEN s[i] ELSE s[i + 1]
<1> DEFINE r == Without(s, k)
           a == SubSeq(s, 1, k - 1)
           b == SubSeq(s, k + 1, Len(s))
<1>1. Len(s) \in Nat /\ \A i \in 1 .. Len(s) : s[i] \in S
  BY LenProperties, ElementOfSeq
<1>2. a \in Seq(S) /\ Len(a) = k - 1 /\ \A i \in 1 .. k - 1 : a[i] = s[i]
  BY <1>1, SubSeqProperties
<1>3. /\ b \in Seq(S) /\ Len(b) = Len(s) - k
      /\ \A i \in 1 .. Len(s) - k : b[i] = s[k + i]
  BY <1>1, SubSeqProperties
<1> HIDE DEF a, b
<1>4. /\ a \o b \in Seq(S) /\ Len(a \o b) = Len(a) + Len(b)
      /\ \A i \in 1 .. Len(a) + Len(b) :
           (a \o b)[i] = IF i <= Len(a) THEN a[i] ELSE b[i - Len(a)]
  BY <1>2, <1>3, ConcatProperties
<1>5. r = a \o b
  BY DEF a, b, Without
<1> HIDE DEF r
<1>6. Len(a) + Len(b) = Len(s) - 1
  BY <1>1, <1>2, <1>3
<1>7. ASSUME NEW i \in 1 .. Len(s) - 1 PROVE r[i] = IF i < k THEN s[i] ELSE s[i + 1]
  <2>1. CASE i < k
    <3>1. i \in 1 .. k - 1 /\ i <= Len(a)
      BY <1>1, <1>2, <2>1
    <3>2. (a \o b)[i] = a[i]
      BY <1>4, <1>6, <3>1
    <3> QED BY <1>2, <1>5, <2>1, <3>1, <3>2
  <2>2. CASE ~(i < k)
    <3>1. i - Len(a) = i - k + 1 /\ i - k + 1 \in 1 .. Len(s) - k
      BY SMTT(20), <1>1, <1>2, <2>2
    <3>2. b[i - k + 1] = s[k + (i - k + 1)]
      BY <1>3, <3>1
    <3>3. k + (i - k + 1) = i + 1 /\ ~(i <= Len(a))
      BY <1>1, <1>2, <2>2
    <3>4. (a \o b)[i] = b[i - Len(a)]
      BY <1>4, <1>6, <3>3
    <3> QED BY <1>5, <2>2, <3>1, <3>2, <3>3, <3>4
  <2> QED BY <2>1, <2>2
<1> QED BY <1>4, <1>5, <1>6, <1>7 DEF r

(* What is left stands at places of its own, and nothing else is lost.     *)
Past(i, k) == IF i < k THEN i ELSE i + 1
LEMMA TakenOutPlaces ==
  ASSUME NEW S, NEW s \in Seq(S), NEW k \in 1 .. Len(s)
  PROVE  /\ Len(Without(s, k)) \in Nat
         /\ \A i \in 1 .. Len(Without(s, k)) :
              Past(i, k) \in 1 .. Len(s) /\ Past(i, k) # k /\ Without(s, k)[i] = s[Past(i, k)]
         /\ \A i, j \in 1 .. Len(Without(s, k)) :
              /\ Past(i, k) = Past(j, k) => i = j
              /\ i < j => Past(i, k) < Past(j, k)
         /\ \A j \in 1 .. Len(s) :
              j # k => \E i \in 1 .. Len(Without(s, k)) : Without(s, k)[i] = s[j]
<1> DEFINE r == Without(s, k)
<1>1. /\ Len(r) = Len(s) - 1 /\ Len(s) \in Nat
      /\ \A i \in 1 .. Len(s) - 1 : r[i] = IF i < k THEN s[i] ELSE s[i + 1]
  BY TakenOut, LenProperties
<1> HIDE DEF r
<1>2. Len(r) \in Nat
  BY <1>1
<1>3. ASSUME NEW i \in 1 .. Len(r)
      PROVE  Past(i, k) \in 1 .. Len(s) /\ Past(i, k) # k /\ r[i] = s[Past(i, k)]
  BY <1>1 DEF Past
<1>4. ASSUME NEW i \in 1 .. Len(r), NEW j \in 1 .. Len(r)
      PROVE  /\ Past(i, k) = Past(j, k) => i = j
             /\ i < j => Past(i, k) < Past(j, k)
  BY <1>1 DEF Past
<1>5. ASSUME NEW j \in 1 .. Len(s), j # k PROVE \E i \in 1 .. Len(r) : r[i] = s[j]
  <2>1. CASE j < k
    <3>1. j \in 1 .. Len(r) /\ r[j] = s[j]
      BY <1>1, <2>1
    <3> QED BY <3>1
  <2>2. CASE k < j
    <3>1. j - 1 \in 1 .. Len(r) /\ ~(j - 1 < k) /\ (j - 1) + 1 = j
      BY <1>1, <2>2
    <3>2. r[j - 1] = s[(j - 1) + 1]
      BY <1>1, <3>1
    <3> QED BY <3>1, <3>2
  <2> QED BY <1>1, <1>5, <2>1, <2>2
<1> QED BY <1>2, <1>3, <1>4, <1>5 DEF r

CoP == INSTANCE CondProof WITH pc <- condPc, op <- condOp
ThP == INSTANCE ThreadLifeProof WITH Threads <- FewThreads, pc <- lifePc

(* The specification that the theorems of ThreadLifeProof are about is the *)
(* one that Services composes.                                             *)
LEMMA SameThreads ==
  /\ Th!Init => ThP!Init
  /\ Th!Next => ThP!Next
  /\ UNCHANGED lifeVars => UNCHANGED ThP!vars
  /\ ThP!IdsExact => Th!IdsExact
  /\ ThP!RecordsSafe => Th!RecordsSafe
  /\ ThP!TypeOK => Th!TypeOK
  /\ ThP!IdsAssumption
<1>1. Th!Init => ThP!Init
  BY DEF Th!Init, ThP!Init, Th!Ids, ThP!Ids
<1>2. ASSUME Th!Next PROVE ThP!Next
  <2>1. PICK t \in FewThreads :
               \/ \E d \in BOOLEAN : Th!Create(t, d)
               \/ Th!CreateFails(t) \/ Th!CallJoin(t) \/ Th!CallDetach(t)
               \/ Th!Wrapper(t) \/ Th!Caller(t)
    BY <1>2 DEF Th!Next
  <2>2. \A d \in BOOLEAN : Th!Create(t, d) => ThP!Create(t, d)
    BY DEF Th!Create, ThP!Create, Th!Goto, ThP!Goto
  <2>3. /\ Th!CreateFails(t) => ThP!CreateFails(t)
        /\ Th!CallJoin(t) => ThP!CallJoin(t)
        /\ Th!CallDetach(t) => ThP!CallDetach(t)
    BY SMTT(20) DEF Th!CreateFails, Th!CallJoin, Th!CallDetach, Th!MayCall, Th!ids, Th!record,
         ThP!CreateFails, ThP!CallJoin, ThP!CallDetach, ThP!MayCall, ThP!ids, ThP!record
  <2>4. Th!Wrapper(t) => ThP!Wrapper(t)
    BY DEF Th!Wrapper, Th!Scan, Th!Alloc, Th!Nap, Th!Got, Th!Setup, Th!SetupFails,
         Th!Release, Th!WrapperEnd, Th!Free, Th!Goto, Th!ids, Th!record, Th!WordOf, Th!Ids,
         ThP!Wrapper, ThP!Scan, ThP!Alloc, ThP!Nap, ThP!Got, ThP!Setup, ThP!SetupFails,
         ThP!Release, ThP!WrapperEnd, ThP!Free, ThP!Goto, ThP!ids, ThP!record, ThP!WordOf,
         ThP!Ids
  <2>5. Th!Caller(t) => ThP!Caller(t)
    BY DEF Th!Caller, Th!JoinFlag, Th!JoinCas, Th!JoinWait, Th!JoinFree, Th!DetachFlag,
         Th!DetachCas, Th!Free, Th!Close, Th!ids, Th!record,
         ThP!Caller, ThP!JoinFlag, ThP!JoinCas, ThP!JoinWait, ThP!JoinFree, ThP!DetachFlag,
         ThP!DetachCas, ThP!Free, ThP!Close, ThP!ids, ThP!record
  <2> QED BY <2>1, <2>2, <2>3, <2>4, <2>5 DEF ThP!Next
<1>3. UNCHANGED lifeVars => UNCHANGED ThP!vars
  BY DEF lifeVars, ThP!vars, ThP!ids, ThP!record
<1>4. ThP!IdsExact => Th!IdsExact
  BY DEF ThP!IdsExact, Th!IdsExact, Th!Holding, ThP!Holding, Th!Ids, ThP!Ids
<1>5. ThP!RecordsSafe => Th!RecordsSafe
  BY DEF ThP!RecordsSafe, Th!RecordsSafe
<1>6. ThP!TypeOK => Th!TypeOK
  BY DEF ThP!TypeOK, Th!TypeOK, Th!Ids, ThP!Ids
<1>7. ThP!IdsAssumption
  BY ThreadLifeAssumption DEF ThP!IdsAssumption, Th!IdsAssumption
<1> QED BY <1>1, <1>2, <1>3, <1>4, <1>5, <1>6, <1>7

(* The same for condition variables.                                       *)
LEMMA SameCond ==
  /\ Co!Init => CoP!Init
  /\ Co!Next => CoP!Next
  /\ UNCHANGED condVars => UNCHANGED CoP!vars
  /\ CoP!NobodyForgotten => Co!NobodyForgotten
  /\ CoP!TypeOK => Co!TypeOK
  /\ CoP!CondAssumption
<1>1. Co!Init => CoP!Init
  BY DEF Co!Init, CoP!Init, Co!None, CoP!None
<1>2. ASSUME Co!Next PROVE CoP!Next
  <2>1. Co!Manage => CoP!Manage
    BY DEF Co!Manage, Co!SetAttr, Co!DestroyCond, Co!InitCond, Co!Quiet, Co!Attrs, Co!calls,
         CoP!Manage, CoP!SetAttr, CoP!DestroyCond, CoP!InitCond, CoP!Quiet, CoP!Attrs,
         CoP!calls
  <2>2. /\ Co!Puts = CoP!Puts /\ Co!Takes = CoP!Takes /\ Co!None = CoP!None
    BY DEF Co!Puts, Co!Takes, Co!None, CoP!Puts, CoP!Takes, CoP!None
  <2>3. ASSUME NEW t \in Threads
        PROVE  /\ \A o \in Co!Puts \cup Co!Takes : Co!CallLock(t, o) => CoP!CallLock(t, o)
               /\ Co!WaitExpired(t) => CoP!WaitExpired(t)
               /\ Co!Interrupt(t) => CoP!Interrupt(t)
    BY <2>2 DEF Co!CallLock, Co!WaitExpired, Co!Interrupt, Co!F!FutexInterrupt, Co!Goto,
         Co!calls, CoP!CallLock, CoP!WaitExpired, CoP!Interrupt, CoP!F!FutexInterrupt,
         CoP!Goto, CoP!calls
  <2>4. ASSUME NEW t \in Threads
        PROVE  Co!Unlock(t) \/ Co!Put(t) \/ Co!Take(t) =>
               CoP!Unlock(t) \/ CoP!Put(t) \/ CoP!Take(t)
    BY <2>2 DEF Co!Unlock, Co!Put, Co!Take, Co!Goto, Co!Back,
         CoP!Unlock, CoP!Put, CoP!Take, CoP!Goto, CoP!Back
  <2>5. ASSUME NEW t \in Threads
        PROVE  /\ Co!WaitBegin(t) => CoP!WaitBegin(t)
               /\ Co!WaitUnlock(t) => CoP!WaitUnlock(t)
               /\ Co!WaitSleep(t) => CoP!WaitSleep(t)
               /\ Co!WaitLock(t) => CoP!WaitLock(t)
    BY <2>2 DEF Co!WaitBegin, Co!WaitUnlock, Co!WaitSleep, Co!WaitLock, Co!Goto,
         Co!F!FutexWait, CoP!WaitBegin, CoP!WaitUnlock, CoP!WaitSleep, CoP!WaitLock,
         CoP!Goto, CoP!F!FutexWait
  <2>6. ASSUME NEW t \in Threads
        PROVE  /\ Co!PulseFlags(t) => CoP!PulseFlags(t)
               /\ Co!PulseLoad(t) => CoP!PulseLoad(t)
               /\ Co!PulseCas(t) => CoP!PulseCas(t)
               /\ Co!PulseWake(t) => CoP!PulseWake(t)
    BY <2>2 DEF Co!PulseFlags, Co!PulseLoad, Co!PulseCas, Co!PulseWake, Co!Pulsed, Co!Goto,
         Co!Back, Co!F!FutexWakeAll, Co!F!FutexWakeOne, Co!F!Wakeable, Co!F!SameKey, CoP!PulseFlags,
         CoP!PulseLoad, CoP!PulseCas, CoP!PulseWake, CoP!Pulsed, CoP!Goto, CoP!Back,
         CoP!F!FutexWakeAll, CoP!F!FutexWakeOne, CoP!F!Wakeable, CoP!F!SameKey
  <2>7. ASSUME NEW t \in Threads PROVE Co!Inside(t) => CoP!Inside(t)
    BY <2>4, <2>5, <2>6 DEF Co!Inside, CoP!Inside
  <2> QED BY <1>2, <2>1, <2>2, <2>3, <2>7 DEF Co!Next, CoP!Next
<1>3. UNCHANGED condVars => UNCHANGED CoP!vars
  BY DEF condVars, CoP!vars, CoP!calls
<1>4. CoP!NobodyForgotten => Co!NobodyForgotten
  BY DEF CoP!NobodyForgotten, Co!NobodyForgotten, Co!Puts, Co!Takes, CoP!Puts, CoP!Takes
<1>5. CoP!TypeOK => Co!TypeOK
  BY DEF CoP!TypeOK, Co!TypeOK, Co!Puts, Co!Takes, Co!None, Co!Attrs,
       CoP!Puts, CoP!Takes, CoP!None, CoP!Attrs
<1>6. CoP!CondAssumption
  <2>1. CoP!Half = Co!Half
    BY DEF CoP!Half, Co!Half
  <2>2. \A v \in 0 .. 2^Width - 1 : CoP!PulsesTo(v) = Co!PulsesTo(v)
    BY <2>1 DEF CoP!PulsesTo, Co!PulsesTo
  <2>3. /\ NoOwner \notin Threads /\ CoP!IsFiniteSet(Threads)
        /\ 2^Width \in Nat /\ 2^Width = 2 * CoP!Half
        /\ MaxPulses \in Nat /\ MaxPulses < CoP!Half
    BY CounterAssumption, <2>1, Zenon DEF Co!CondAssumption, Co!IsFiniteSet,
         CoP!IsFiniteSet
  <2>4. \A v \in 0 .. 2^Width - 1 : CoP!PulsesTo(v) <= MaxPulses => v # DeadCond
    BY CounterAssumption, <2>2, Zenon DEF Co!CondAssumption
  <2> QED BY <2>3, <2>4, Zenon DEF CoP!CondAssumption
<1> QED BY <1>1, <1>2, <1>3, <1>4, <1>5, <1>6

-----------------------------------------------------------------------------
(* What a step of all the services is for one of them: a step of its own,  *)
(* or none.                                                                *)
LEMMA StepOfEach ==
  ASSUME [Next]_vars
  PROVE  /\ Co!Next \/ UNCHANGED condVars
         /\ Th!Next \/ UNCHANGED lifeVars
         /\ Fu!Next \/ UNCHANGED futexVars
         /\ At!Next \/ UNCHANGED exitVars
         /\ Ke!Next \/ UNCHANGED keyVars
         /\ Ho!Next \/ UNCHANGED hookVars
BY DEF Next, CondNext, ThreadsNext, FutexNext, ExitNext, KeysNext, HooksNext, vars

(* Thread identifiers and records, among the other services.               *)
LEMMA ThreadSpec == Spec => ThP!Spec
<1>1. Init => ThP!Init
  BY SameThreads DEF Init
<1>2. [Next]_vars => [ThP!Next]_(ThP!vars)
  BY StepOfEach, SameThreads
<1> QED BY <1>1, <1>2, PTL DEF Spec, ThP!Spec

(* Condition variables, among the other services.                          *)
LEMMA CondSpec == Spec => CoP!Spec
<1>1. Init => CoP!Init
  BY SameCond DEF Init
<1>2. [Next]_vars => [CoP!Next]_(CoP!vars)
  BY StepOfEach, SameCond
<1> QED BY <1>1, <1>2, PTL DEF Spec, CoP!Spec

(* The bits of the identifiers are exactly those of the threads between    *)
(* acquire and release, the main thread's and the leaked ones.             *)
THEOREM ServicesIds == Spec => []ThreadIdsExact
<1>1. ThP!Spec => []ThP!IdsExact
  BY SameThreads, ThP!IdentifiersExact
<1>2. ThP!IdsExact => ThreadIdsExact
  BY SameThreads DEF ThreadIdsExact
<1> QED BY <1>1, <1>2, ThreadSpec, PTL

(* Thread records are freed once, are there for a join and gone after it.  *)
THEOREM ServicesRecords == Spec => []ThreadRecordsSafe
<1>1. ThP!Spec => []ThP!RecordsSafe
  BY ThP!RecordsNeverFreedTwice
<1>2. ThP!RecordsSafe => ThreadRecordsSafe
  BY SameThreads DEF ThreadRecordsSafe
<1> QED BY <1>1, <1>2, ThreadSpec, PTL

(* Nobody sleeps on a condition variable over an item for which nobody     *)
(* else is awake.                                                          *)
THEOREM ServicesCond == Spec => []CondNobodyForgotten
<1>1. CoP!Spec => []CoP!NobodyForgotten
  BY SameCond, CoP!NoOneForgotten
<1>2. CoP!NobodyForgotten => CondNobodyForgotten
  BY SameCond DEF CondNobodyForgotten
<1> QED BY <1>1, <1>2, CondSpec, PTL

-----------------------------------------------------------------------------
(* Exit handlers.  The list is in the reverse order of registration, each  *)
(* entry with its library; a registration that is not in it has been run;  *)
(* the list only changes under the lock, and a frame keeps what its        *)
(* finalisation asked for.                                                 *)
Entry   == [id : At!Handlers, dso : Dsos]
RunOf   == [id : At!Handlers, finalising : Dsos \cup {AnyDso}]
ExitPoints == {"idle", "push", "nested push", "restart", "scan", "handler"}

ExitTypes ==
  /\ arr \in Seq(Entry) /\ registered \in Seq(Dsos) /\ Len(registered) <= MaxHandlers
  /\ exitLock \in FewThreads \cup {NoOwner} /\ exitPc \in [FewThreads -> ExitPoints]
  /\ dso \in [FewThreads -> Dsos \cup {AnyDso}]
  /\ runs \in [At!Handlers -> {0, 1}] /\ running \in [FewThreads -> Seq(RunOf)]
ExitPlaces ==
  \A t \in FewThreads :
    /\ exitPc[t] \in {"push", "nested push", "scan"} => exitLock = t
    /\ exitPc[t] \in {"push", "nested push"} =>
         dso[t] \in Dsos /\ Len(registered) < MaxHandlers
    /\ exitPc[t] \in {"handler", "nested push"} => running[t] # << >>
Ordered ==
  /\ \A i \in 1 .. Len(arr) :
       arr[i].id <= Len(registered) /\ arr[i].dso = registered[arr[i].id]
  /\ \A i, j \in 1 .. Len(arr) : i < j => arr[i].id > arr[j].id
Listed(h) == \E i \in 1 .. Len(arr) : arr[i].id = h
RunOnce ==
  \A h \in At!Handlers : runs[h] = IF h <= Len(registered) /\ ~Listed(h) THEN 1 ELSE 0
FrameOK(f) == f.id <= Len(registered) /\ f.finalising \in {AnyDso, registered[f.id]}
FramesOK == \A t \in FewThreads : \A k \in 1 .. Len(running[t]) : FrameOK(running[t][k])

ExitInv == ExitTypes /\ ExitPlaces /\ Ordered /\ RunOnce /\ FramesOK

(* Nothing is registered at first.                                         *)
LEMMA InitExitInv == At!Init => ExitInv
<1> SUFFICES ASSUME At!Init PROVE ExitInv
  OBVIOUS
<1> USE HandlersAssumption DEF At!Init, At!ExitAssumption
<1>1. ExitTypes
  BY DEF ExitTypes, ExitPoints, At!Handlers
<1>2. ExitPlaces /\ Ordered /\ FramesOK
  BY DEF ExitPlaces, Ordered, FramesOK
<1>3. RunOnce
  BY DEF RunOnce, At!Handlers
<1> QED BY <1>1, <1>2, <1>3 DEF ExitInv

(* Steps that neither change the list nor run a handler.                   *)
LEMMA ExitMoves ==
  ASSUME ExitInv, NEW t \in FewThreads,
         \/ \E d \in Dsos : At!CallAtexit(t, d)
         \/ \E d \in Dsos \cup {AnyDso} : At!CallFinalize(t, d) \/ At!NestedFinalize(t, d)
         \/ At!FinalizeLock(t) \/ At!HandlerReturns(t)
  PROVE  ExitInv'
<1> USE DEF ExitInv
<1>1. UNCHANGED << arr, registered, runs >>
  BY DEF At!CallAtexit, At!CallFinalize, At!NestedFinalize, At!FinalizeLock,
         At!HandlerReturns
<1>2. Ordered' /\ RunOnce'
  BY <1>1 DEF Ordered, RunOnce, Listed
<1>3. CASE \E d \in Dsos : At!CallAtexit(t, d)
  <2>1. PICK d \in Dsos : At!CallAtexit(t, d)
    BY <1>3
  <2>2. /\ exitPc[t] \in {"idle", "handler"} /\ exitLock = NoOwner /\ exitLock' = t
        /\ Len(registered) < MaxHandlers /\ dso' = [dso EXCEPT ![t] = d]
        /\ exitPc' = [exitPc EXCEPT ![t] = IF exitPc[t] = "idle" THEN "push" ELSE "nested push"]
        /\ UNCHANGED running
    BY <2>1 DEF At!CallAtexit, At!Goto
  <2>3. ExitTypes'
    BY <1>1, <2>2 DEF ExitTypes, ExitPoints
  <2>4. ExitPlaces'
    BY <1>1, <2>2, HandlersAssumption DEF ExitPlaces, ExitTypes, At!ExitAssumption
  <2> QED BY <1>1, <1>2, <2>2, <2>3, <2>4 DEF FramesOK, FrameOK
<1>4. CASE \E d \in Dsos \cup {AnyDso} : At!CallFinalize(t, d) \/ At!NestedFinalize(t, d)
  <2>1. PICK d \in Dsos \cup {AnyDso} : At!CallFinalize(t, d) \/ At!NestedFinalize(t, d)
    BY <1>4
  <2>2. /\ UNCHANGED << exitLock, running >> /\ dso' = [dso EXCEPT ![t] = d]
        /\ exitPc' = [exitPc EXCEPT ![t] = "restart"]
    BY <2>1 DEF At!CallFinalize, At!NestedFinalize, At!Goto
  <2>3. ExitTypes'
    BY <1>1, <2>2 DEF ExitTypes, ExitPoints
  <2>4. ExitPlaces'
    BY <1>1, <2>2 DEF ExitPlaces, ExitTypes
  <2> QED BY <1>1, <1>2, <2>2, <2>3, <2>4 DEF FramesOK, FrameOK
<1>5. CASE At!FinalizeLock(t)
  <2>1. /\ exitLock = NoOwner /\ exitLock' = t /\ UNCHANGED << dso, running >>
        /\ exitPc' = [exitPc EXCEPT ![t] = "scan"]
    BY <1>5 DEF At!FinalizeLock, At!Goto
  <2>2. ExitTypes'
    BY <1>1, <2>1 DEF ExitTypes, ExitPoints
  <2>3. ExitPlaces'
    BY <1>1, <2>1, HandlersAssumption DEF ExitPlaces, ExitTypes, At!ExitAssumption
  <2> QED BY <1>1, <1>2, <2>1, <2>2, <2>3 DEF FramesOK, FrameOK
<1>6. CASE At!HandlerReturns(t)
  <2>1. /\ exitPc[t] = "handler" /\ UNCHANGED exitLock
        /\ dso' = [dso EXCEPT ![t] = running[t][1].finalising]
        /\ running' = [running EXCEPT ![t] = Tail(@)]
        /\ exitPc' = [exitPc EXCEPT ![t] = "restart"]
    BY <1>6 DEF At!HandlerReturns, At!Goto
  <2>2. running[t] \in Seq(RunOf) /\ running[t] # << >>
    BY <2>1 DEF ExitTypes, ExitPlaces
  <2>3. /\ Len(running[t]) \in Nat \ {0} /\ Tail(running[t]) \in Seq(RunOf)
        /\ Len(Tail(running[t])) = Len(running[t]) - 1
        /\ \A k \in 1 .. Len(Tail(running[t])) : Tail(running[t])[k] = running[t][k + 1]
    BY <2>2, HeadTailProperties, EmptySeq
  <2>4. running[t][1] \in RunOf
    BY <2>2, <2>3, ElementOfSeq
  <2>5. ExitTypes'
    BY <1>1, <2>1, <2>3, <2>4 DEF ExitTypes, ExitPoints, RunOf
  <2>6. ExitPlaces'
    BY <1>1, <2>1 DEF ExitPlaces, ExitTypes
  <2>7. \A k \in 1 .. Len(Tail(running[t])) : FrameOK(Tail(running[t])[k])
    BY SMTT(20), <2>3 DEF FramesOK
  <2>8. FramesOK'
    BY <1>1, <2>1, <2>7 DEF FramesOK, FrameOK, ExitTypes
  <2> QED BY <1>1, <1>2, <2>5, <2>6, <2>8
<1> QED BY <1>3, <1>4, <1>5, <1>6

(* __cxa_atexit puts the handler at the head of the list.                  *)
LEMMA ExitPush ==
  ASSUME ExitInv, NEW t \in FewThreads, At!Push(t)
  PROVE  ExitInv'
<1> USE DEF ExitInv
<1>A. registered \in Seq(Dsos) /\ arr \in Seq(Entry) /\ Len(registered) \in Nat
  BY LenProperties DEF ExitTypes
<1>B. PICK n \in Nat : n = Len(registered)
  BY <1>A
<1> DEFINE e == [id |-> n + 1, dso |-> dso[t]]
<1>1. /\ exitPc[t] \in {"push", "nested push"} /\ exitLock' = NoOwner
      /\ arr' = << e >> \o arr /\ registered' = Append(registered, dso[t])
      /\ UNCHANGED << running, runs >>
  BY <1>B DEF At!Push
<1>2. n \in Nat /\ MaxHandlers \in Nat /\ n < MaxHandlers /\ dso[t] \in Dsos
  BY <1>1, <1>B, HandlersAssumption DEF ExitTypes, ExitPlaces, At!ExitAssumption
<1>3. n + 1 \in At!Handlers /\ e \in Entry /\ e.id = n + 1 /\ e.dso = dso[t]
  BY <1>2 DEF At!Handlers, Entry
<1> HIDE DEF e
<1>4. /\ registered' \in Seq(Dsos) /\ Len(registered') = n + 1
      /\ registered'[n + 1] = dso[t] /\ \A h \in 1 .. n : registered'[h] = registered[h]
  <2> DEFINE r == Append(registered, dso[t])
  <2>1. /\ r \in Seq(Dsos) /\ Len(r) = n + 1
        /\ \A h \in 1 .. n : r[h] = registered[h]
        /\ r[n + 1] = dso[t]
    BY <1>2, <1>A, <1>B, AppendProperties
  <2>2. registered' = r
    BY <1>1
  <2> HIDE DEF r
  <2> QED BY <2>1, <2>2
<1>5. Len(arr) \in Nat /\ \A i \in 1 .. Len(arr) : arr[i] \in Entry
  BY LenProperties, ElementOfSeq DEF ExitTypes
<1>6. /\ arr' \in Seq(Entry) /\ Len(arr') = Len(arr) + 1 /\ arr'[1] = e
      /\ \A i \in 1 .. Len(arr) : arr'[i + 1] = arr[i]
      /\ \A i \in 2 .. Len(arr) + 1 : arr'[i] = arr[i - 1]
  <2> DEFINE r == << e >> \o arr
  <2>1. /\ r \in Seq(Entry) /\ Len(r) = Len(arr) + 1 /\ r[1] = e
        /\ \A i \in 1 .. Len(arr) : r[i + 1] = arr[i]
        /\ \A i \in 2 .. Len(arr) + 1 : r[i] = arr[i - 1]
    BY <1>3, <1>A, Pushed
  <2>2. arr' = r
    BY <1>1
  <2> HIDE DEF r
  <2> QED BY <2>1, <2>2
<1>7. /\ exitPc' \in [FewThreads -> ExitPoints] /\ dso' \in [FewThreads -> Dsos \cup {AnyDso}]
      /\ \A u \in FewThreads : u # t => exitPc'[u] = exitPc[u] /\ dso'[u] = dso[u]
      /\ exitPc'[t] \in {"idle", "handler"}
      /\ exitPc'[t] = "handler" => running[t] # << >>
  <2>1. CASE exitPc[t] = "push"
    BY <2>1 DEF At!Push, At!Goto, ExitTypes, ExitPoints
  <2>2. CASE exitPc[t] = "nested push"
    <3>1. running[t] \in Seq(RunOf) /\ running[t] # << >>
      BY <2>2 DEF ExitTypes, ExitPlaces
    <3>2. running[t][1] \in RunOf
      BY <3>1, EmptySeq, ElementOfSeq
    <3>3. /\ exitPc' = [exitPc EXCEPT ![t] = "handler"]
          /\ dso' = [dso EXCEPT ![t] = running[t][1].finalising]
      BY <2>2 DEF At!Push, At!Goto
    <3> QED BY <3>1, <3>2, <3>3 DEF ExitTypes, ExitPoints, RunOf
  <2> QED BY <1>1, <2>1, <2>2
<1>8. ExitTypes'
  <2>1. Len(registered') <= MaxHandlers
    BY <1>2, <1>4
  <2>2. /\ runs' \in [At!Handlers -> {0, 1}] /\ running' \in [FewThreads -> Seq(RunOf)]
        /\ exitLock' \in FewThreads \cup {NoOwner}
    BY <1>1 DEF ExitTypes
  <2> QED BY <1>4, <1>6, <1>7, <2>1, <2>2 DEF ExitTypes
<1>9. ExitPlaces'
  <2>1. \A u \in FewThreads : u # t => exitPc[u] \notin {"push", "nested push", "scan"}
    BY <1>1 DEF ExitPlaces
  <2> QED BY <1>1, <1>7, <2>1 DEF ExitPlaces
<1>10. \A i \in 1 .. Len(arr) : arr[i].id \in 1 .. n
  BY <1>2, <1>5, <1>B DEF Ordered, Entry, At!Handlers
<1>11. Ordered'
  <2>1. ASSUME NEW i \in 1 .. Len(arr')
        PROVE  arr'[i].id <= Len(registered') /\ arr'[i].dso = registered'[arr'[i].id]
    <3>1. CASE i = 1
      BY <1>2, <1>3, <1>4, <1>6, <3>1
    <3>2. CASE i # 1
      <4>1. i - 1 \in 1 .. Len(arr) /\ i \in 2 .. Len(arr) + 1
        BY <1>5, <1>6, <3>2
      <4>2. arr'[i] = arr[i - 1] /\ arr[i - 1].id \in 1 .. n
        BY <1>6, <1>10, <4>1
      <4> QED BY SMTT(20), <1>2, <1>4, <1>B, <4>1, <4>2 DEF Ordered
    <3> QED BY <3>1, <3>2
  <2>2. ASSUME NEW i \in 1 .. Len(arr'), NEW j \in 1 .. Len(arr'), i < j
        PROVE  arr'[i].id > arr'[j].id
    <3>1. j - 1 \in 1 .. Len(arr) /\ j \in 2 .. Len(arr) + 1 /\ i \in Int /\ j \in Int
      BY <1>5, <1>6, <2>2
    <3>2. arr'[j] = arr[j - 1] /\ arr[j - 1].id \in 1 .. n
      BY <1>6, <1>10, <3>1
    <3>3. CASE i = 1
      BY <1>2, <1>3, <1>6, <3>2, <3>3
    <3>4. CASE i # 1
      <4>1. i - 1 \in 1 .. Len(arr) /\ i \in 2 .. Len(arr) + 1 /\ i - 1 < j - 1
        BY <1>5, <1>6, <2>2, <3>1, <3>4
      <4> QED BY <1>6, <3>1, <3>2, <4>1 DEF Ordered
    <3> QED BY <3>3, <3>4
  <2> QED BY <2>1, <2>2 DEF Ordered
<1>12. \A h \in At!Handlers : Listed(h)' <=> Listed(h) \/ h = n + 1
  <2>1. Listed(n + 1)'
    <3>1. 1 \in 1 .. Len(arr')
      BY <1>5, <1>6
    <3> QED BY <1>3, <1>6, <3>1 DEF Listed
  <2>2. ASSUME NEW h \in At!Handlers, Listed(h) PROVE Listed(h)'
    <3>1. PICK i \in 1 .. Len(arr) : arr[i].id = h
      BY <2>2 DEF Listed
    <3>2. i + 1 \in 1 .. Len(arr') /\ arr'[i + 1] = arr[i]
      BY <1>5, <1>6
    <3> QED BY <3>1, <3>2 DEF Listed
  <2>3. ASSUME NEW h \in At!Handlers, Listed(h)', h # n + 1 PROVE Listed(h)
    <3>1. PICK i \in 1 .. Len(arr') : arr'[i].id = h
      BY <2>3 DEF Listed
    <3>2. i # 1
      BY <1>3, <1>6, <2>3, <3>1
    <3>3. i - 1 \in 1 .. Len(arr) /\ i \in 2 .. Len(arr) + 1
      BY <1>5, <1>6, <3>2
    <3> QED BY <1>6, <3>1, <3>3 DEF Listed
  <2> QED BY <2>1, <2>2, <2>3
<1>13. RunOnce'
  <2>1. \A h \in At!Handlers : h \in Nat
    BY DEF At!Handlers
  <2>2. \A h \in At!Handlers : h <= Len(registered') /\ ~Listed(h)' <=> h <= n /\ ~Listed(h)
    BY <1>2, <1>4, <1>12, <2>1
  <2> QED BY <1>1, <1>B, <2>2 DEF RunOnce
<1>14. FramesOK'
  <2>1. ASSUME NEW u \in FewThreads, NEW k \in 1 .. Len(running[u])
        PROVE  FrameOK(running[u][k])'
    <3>1. running[u][k] \in RunOf
      BY ElementOfSeq DEF ExitTypes
    <3>2. running[u][k].id \in 1 .. n
      BY <1>2, <1>B, <3>1 DEF FramesOK, FrameOK, RunOf, At!Handlers
    <3>3. /\ registered'[running[u][k].id] = registered[running[u][k].id]
          /\ running[u][k].id <= Len(registered')
      BY <1>2, <1>4, <3>2
    <3>4. running[u][k].finalising \in {AnyDso, registered[running[u][k].id]}
      BY DEF FramesOK, FrameOK
    <3> QED BY <1>1, <3>3, <3>4 DEF FrameOK
  <2> QED BY <1>1, <2>1 DEF FramesOK
<1> QED BY <1>8, <1>9, <1>11, <1>13, <1>14

(* __cxa_finalize takes the first handler that matches out of the list and *)
(* runs it, or comes to the end of the list and returns.                   *)
LEMMA ExitScan ==
  ASSUME ExitInv, NEW t \in FewThreads, At!FinalizeScan(t)
  PROVE  ExitInv'
<1> USE DEF ExitInv
<1>A. /\ arr \in Seq(Entry) /\ Len(arr) \in Nat /\ registered \in Seq(Dsos)
      /\ \A i \in 1 .. Len(arr) : arr[i] \in Entry
  BY LenProperties, ElementOfSeq DEF ExitTypes
<1>B. PICK n \in Nat : n = Len(registered)
  BY LenProperties, <1>A
<1>1. /\ exitPc[t] = "scan" /\ exitLock' = NoOwner /\ registered' = registered
  BY DEF At!FinalizeScan
<1>2. \A u \in FewThreads : u # t => exitPc[u] \notin {"push", "nested push", "scan"}
  BY <1>1 DEF ExitPlaces
<1>3. running[t] \in Seq(RunOf)
  BY DEF ExitTypes
<1>4. CASE At!Candidates(dso[t]) = {}
  <2>1. /\ UNCHANGED << arr, running, runs >>
        /\ exitPc' = [exitPc EXCEPT ![t] = IF running[t] = << >> THEN "idle" ELSE "handler"]
        /\ dso' = [dso EXCEPT ![t] = IF running[t] = << >> THEN AnyDso
                                     ELSE running[t][1].finalising]
    BY <1>4 DEF At!FinalizeScan, At!Goto
  <2>2. running[t] # << >> => running[t][1] \in RunOf
    BY <1>3, EmptySeq, ElementOfSeq
  <2>3. ExitTypes'
    <3>1. dso' \in [FewThreads -> Dsos \cup {AnyDso}] /\ exitPc' \in [FewThreads -> ExitPoints]
      BY <2>1, <2>2 DEF ExitTypes, ExitPoints, RunOf
    <3> QED BY <1>1, <2>1, <3>1 DEF ExitTypes
  <2>4. ExitPlaces'
    BY <1>1, <1>2, <2>1 DEF ExitPlaces, ExitTypes
  <2>5. Ordered' /\ RunOnce' /\ FramesOK'
    BY <1>1, <2>1 DEF Ordered, RunOnce, Listed, FramesOK, FrameOK
  <2> QED BY <2>3, <2>4, <2>5
<1>5. CASE At!Candidates(dso[t]) # {}
  <2>1. PICK k \in At!Candidates(dso[t]) : k = At!First(At!Candidates(dso[t]))
    <3>1. At!Candidates(dso[t]) \in SUBSET Nat
      BY <1>A DEF At!Candidates
    <3> QED BY <1>5, <3>1, LeastNumber DEF At!First
  <2>2. /\ k \in 1 .. Len(arr) /\ At!Matches(dso[t], arr[k])
    BY DEF At!Candidates
  <2>A. PICK h \in At!Handlers : h = arr[k].id
    BY SMTT(20), <1>A, <2>2 DEF Entry
  <2> DEFINE f == [id |-> h, finalising |-> dso[t]]
             r == At!RemoveAt(arr, k)
             s == << f >> \o running[t]
  <2>3. /\ arr' = r /\ runs' = [runs EXCEPT ![h] = @ + 1]
        /\ running' = [running EXCEPT ![t] = s] /\ UNCHANGED dso
        /\ exitPc' = [exitPc EXCEPT ![t] = "handler"]
    BY <1>5, <2>1, <2>A DEF At!FinalizeScan, At!Goto
  <2>4. h \in At!Handlers /\ h \in Nat /\ h <= n /\ arr[k].dso = registered[h]
    BY <1>A, <1>B, <2>2, <2>A DEF Ordered, Entry, At!Handlers
  <2>5. f \in RunOf /\ FrameOK(f)
    BY <1>B, <2>2, <2>4 DEF RunOf, ExitTypes, FrameOK, At!Matches
  <2> HIDE DEF f
  <2>6. /\ r \in Seq(Entry) /\ Len(r) = Len(arr) - 1
        /\ \A i \in 1 .. Len(arr) - 1 : r[i] = IF i < k THEN arr[i] ELSE arr[i + 1]
    <3>1. r = Without(arr, k)
      BY DEF At!RemoveAt, Without
    <3> HIDE DEF r
    <3> QED BY <1>A, <2>2, <3>1, TakenOut
  <2>7. /\ s \in Seq(RunOf) /\ Len(s) = Len(running[t]) + 1 /\ s[1] = f
        /\ \A i \in 2 .. Len(running[t]) + 1 : s[i] = running[t][i - 1]
    BY SMTT(20), <1>3, <2>5, Pushed
  <2>8. s # << >> /\ Len(running[t]) \in Nat
    BY <1>3, <2>7, LenProperties
  <2> HIDE DEF r, s
  <2>9. Listed(h) /\ ~Listed(h)'
    <3>1. \A i \in 1 .. Len(arr) : i # k => arr[i].id # h
      <4>1. \A i \in 1 .. Len(arr) : arr[i].id \in Nat
        BY <1>A DEF Entry, At!Handlers
      <4>2. ASSUME NEW i \in 1 .. Len(arr), i # k PROVE arr[i].id # h
        <5>1. i < k \/ k < i
          BY <1>A, <2>2, <4>2
        <5>2. arr[i].id > h \/ h > arr[i].id
          BY SMTT(20), <2>2, <2>A, <5>1 DEF Ordered
        <5> QED BY <2>4, <4>1, <5>2
      <4> QED BY <4>2
    <3>2. ASSUME NEW i \in 1 .. Len(r) PROVE r[i].id # h
      <4>1. i \in 1 .. Len(arr) - 1 /\ i \in 1 .. Len(arr) /\ i + 1 \in 1 .. Len(arr)
        BY SMTT(20), <1>A, <2>6
      <4> QED BY <2>2, <2>6, <2>A, <3>1, <4>1
    <3> QED BY <2>2, <2>3, <2>A, <3>2 DEF Listed
  <2>10. \A g \in At!Handlers : g # h => (Listed(g)' <=> Listed(g))
    <3>1. ASSUME NEW g \in At!Handlers, NEW i \in 1 .. Len(arr), arr[i].id = g, g # h
          PROVE  \E j \in 1 .. Len(r) : r[j].id = g
      <4>1. i # k
        BY <2>A, <3>1
      <4>2. CASE i < k
        <5>1. i \in 1 .. Len(arr) - 1
          BY <1>A, <2>2, <4>2
        <5> QED BY <2>6, <3>1, <4>2, <5>1
      <4>3. CASE k < i
        <5>1. i - 1 \in 1 .. Len(arr) - 1 /\ ~(i - 1 < k) /\ (i - 1) + 1 = i
          BY <1>A, <2>2, <4>3
        <5>2. r[i - 1] = arr[(i - 1) + 1]
          BY <2>6, <5>1
        <5> QED BY <2>6, <3>1, <5>1, <5>2
      <4> QED BY <1>A, <2>2, <4>1, <4>2, <4>3
    <3>2. ASSUME NEW g \in At!Handlers, NEW i \in 1 .. Len(r), r[i].id = g
          PROVE  \E j \in 1 .. Len(arr) : arr[j].id = g
      <4>1. i \in 1 .. Len(arr) - 1 /\ i \in 1 .. Len(arr) /\ i + 1 \in 1 .. Len(arr)
        BY <1>A, <2>6
      <4> QED BY <2>6, <3>2, <4>1
    <3> QED BY <2>3, <3>1, <3>2 DEF Listed
  <2>11. runs[h] = 0
    BY <2>4, <2>9 DEF RunOnce
  <2>12. runs' \in [At!Handlers -> {0, 1}] /\ runs'[h] = 1
         /\ \A g \in At!Handlers : g # h => runs'[g] = runs[g]
    BY <2>3, <2>4, <2>11 DEF ExitTypes
  <2>13. ExitTypes'
    <3>1. /\ exitPc' \in [FewThreads -> ExitPoints]
          /\ running' \in [FewThreads -> Seq(RunOf)] /\ arr' \in Seq(Entry)
      BY <2>3, <2>6, <2>7 DEF ExitTypes, ExitPoints
    <3> QED BY SMTT(20), <1>1, <2>3, <2>12, <3>1 DEF ExitTypes
  <2>14. ExitPlaces'
    BY <1>1, <1>2, <2>3, <2>8 DEF ExitPlaces, ExitTypes
  <2>15. Ordered'
    <3>1. ASSUME NEW i \in 1 .. Len(r) PROVE r[i].id <= n /\ r[i].dso = registered[r[i].id]
      <4>1. i \in 1 .. Len(arr) - 1 /\ i \in 1 .. Len(arr) /\ i + 1 \in 1 .. Len(arr)
        BY <1>A, <2>6
      <4> QED BY <1>B, <2>6, <4>1 DEF Ordered
    <3>2. ASSUME NEW i \in 1 .. Len(r), NEW j \in 1 .. Len(r), i < j
          PROVE  r[i].id > r[j].id
      <4>1. /\ i \in 1 .. Len(arr) - 1 /\ i \in 1 .. Len(arr) /\ i + 1 \in 1 .. Len(arr)
            /\ j \in 1 .. Len(arr) - 1 /\ j \in 1 .. Len(arr) /\ j + 1 \in 1 .. Len(arr)
            /\ i + 1 < j + 1 /\ i < j + 1
        BY <1>A, <2>6, <3>2
      <4>2. /\ r[i] = IF i < k THEN arr[i] ELSE arr[i + 1]
            /\ r[j] = IF j < k THEN arr[j] ELSE arr[j + 1]
        BY <2>6, <4>1
      <4>3. ~(i < k) => ~(j < k)
        BY SMTT(20), <2>2, <3>2, <4>1
      <4> QED BY <3>2, <4>1, <4>2, <4>3 DEF Ordered
    <3> QED BY <1>1, <1>B, <2>3, <3>1, <3>2 DEF Ordered
  <2>16. RunOnce'
    <3>1. \A g \in At!Handlers : g # h => runs'[g] = IF g <= Len(registered') /\ ~Listed(g)' THEN 1 ELSE 0
      BY <1>1, <2>10, <2>12 DEF RunOnce
    <3>2. runs'[h] = IF h <= Len(registered') /\ ~Listed(h)' THEN 1 ELSE 0
      BY <1>1, <1>B, <2>4, <2>9, <2>12
    <3> QED BY <3>1, <3>2 DEF RunOnce
  <2>17. FramesOK'
    <3>1. ASSUME NEW i \in 1 .. Len(s) PROVE FrameOK(s[i])
      <4>1. CASE i = 1
        BY <2>5, <2>7, <4>1
      <4>2. CASE i # 1
        <5>1. i \in 2 .. Len(running[t]) + 1 /\ i - 1 \in 1 .. Len(running[t])
          BY <2>7, <2>8, <4>2
        <5> QED BY <2>7, <5>1 DEF FramesOK
      <4> QED BY <4>1, <4>2
    <3> QED BY ZenonT(30), <1>1, <2>3, <3>1 DEF FramesOK, FrameOK, ExitTypes
  <2> QED BY <2>13, <2>14, <2>15, <2>16, <2>17
<1> QED BY <1>4, <1>5

(* Each registration is pending or has been run once, whoever registers    *)
(* and finalises meanwhile, and from inside whatever handler.              *)
LEMMA ExitInvOnce == ExitInv => At!HandlersOnce
<1> SUFFICES ASSUME ExitInv PROVE At!HandlersOnce
  OBVIOUS
<1>1. /\ Len(registered) \in Nat /\ Len(registered) <= MaxHandlers /\ MaxHandlers \in Nat
      /\ \A i \in 1 .. Len(arr) : arr[i] \in Entry
  BY SMTT(20), LenProperties, ElementOfSeq, HandlersAssumption DEF ExitInv, ExitTypes, At!ExitAssumption
<1>2. ASSUME NEW h \in 1 .. Len(registered)
      PROVE  h \in At!Handlers /\
             ((\E i \in 1 .. Len(arr) : arr[i] = [id |-> h, dso |-> registered[h]]) <=> Listed(h))
  <2>1. \A i \in 1 .. Len(arr) : arr[i].id = h => arr[i] = [id |-> h, dso |-> registered[h]]
    BY <1>1 DEF ExitInv, Ordered, Entry
  <2>2. h \in At!Handlers
    BY <1>1 DEF At!Handlers
  <2> QED BY <2>1, <2>2 DEF Listed
<1>3. \A h \in 1 .. Len(registered) :
        runs[h] = IF \E i \in 1 .. Len(arr) : arr[i] = [id |-> h, dso |-> registered[h]]
                  THEN 0 ELSE 1
  BY <1>1, <1>2 DEF ExitInv, RunOnce
<1> QED BY <1>3 DEF ExitInv, Ordered, FramesOK, FrameOK, At!HandlersOnce

(* Exit handlers, among the other services: the invariant.                 *)
LEMMA ExitInvariance == Spec => []ExitInv
<1>1. Init => ExitInv
  BY InitExitInv DEF Init
<1>2. ExitInv /\ [Next]_vars => ExitInv'
  <2> SUFFICES ASSUME ExitInv, [Next]_vars PROVE ExitInv'
    OBVIOUS
  <2>1. CASE At!Next
    BY <2>1, ExitMoves, ExitPush, ExitScan DEF At!Next, At!Inside
  <2>2. CASE UNCHANGED exitVars
    BY <2>2 DEF exitVars, ExitInv, ExitTypes, ExitPlaces, Ordered, RunOnce, Listed, FramesOK,
         FrameOK
  <2> QED BY <2>1, <2>2, StepOfEach
<1> QED BY <1>1, <1>2, PTL DEF Spec

(* Every exit handler is pending once or has been run once, and the list   *)
(* is in the reverse order of registration.                                *)
THEOREM ServicesExit == Spec => []ExitHandlersOnce
<1>1. ExitInv => ExitHandlersOnce
  BY ExitInvOnce DEF ExitHandlersOnce
<1> QED BY <1>1, ExitInvariance, PTL

-----------------------------------------------------------------------------
(* Thread-specific keys.  A key is allocated at one index at most and has  *)
(* one node at most, everywhere.  At an index that no create got while a   *)
(* delete stood between the host's call and the list (it is quiet), there  *)
(* is one node at most: the one of the key that the index is allocated to, *)
(* or the one that the delete under way is about to remove.                *)
Node == [index : Indexes, key : Ke!Keys]
Called == [index : Indexes, key : Ke!Keys, of : Ke!Keys]
KeyPoints == {"run", "push", "remove", "destroy", "destructor", "ended"}

KeyTypes ==
  /\ created \in 0 .. MaxKeys /\ keyAt \in [Indexes -> 0 .. created]
  /\ nodes \in Seq(Node) /\ keyMtx \in FewThreads \cup {NoOwner}
  /\ values \in [FewThreads -> [Indexes -> 0 .. MaxKeys]]
  /\ keyPc \in [FewThreads -> KeyPoints] /\ index \in [FewThreads -> Indexes \cup {0}]
  /\ called \subseteq Called /\ overtaken \subseteq Indexes
KeyPlaces ==
  /\ \A t \in FewThreads :
       /\ keyPc[t] = "push" => /\ index[t] \in Indexes /\ keyAt[index[t]] # 0
                               /\ \A m \in 1 .. Len(nodes) : nodes[m].key # keyAt[index[t]]
       /\ keyPc[t] = "remove" => index[t] \in Indexes
  /\ \A t, u \in FewThreads :
       keyPc[t] = "push" /\ keyPc[u] = "push" /\ index[t] = index[u] => t = u
NodeKeys ==
  /\ \A m \in 1 .. Len(nodes) : nodes[m].key <= created
  /\ \A m, n \in 1 .. Len(nodes) : nodes[m].key = nodes[n].key => m = n
OwnIndex == \A i, j \in Indexes : keyAt[i] = keyAt[j] /\ keyAt[i] # 0 => i = j
Removes(t, i) == keyPc[t] = "remove" /\ index[t] = i
Quiet(i) ==
  /\ \A m \in 1 .. Len(nodes) : nodes[m].index = i =>
       keyAt[i] = nodes[m].key \/ \E t \in FewThreads : Removes(t, i)
  /\ \A m, n \in 1 .. Len(nodes) : nodes[m].index = i /\ nodes[n].index = i => m = n
  /\ \A t, u \in FewThreads : Removes(t, i) /\ Removes(u, i) => t = u
  /\ \A t \in FewThreads : Removes(t, i) => keyAt[i] = 0
  /\ \A t \in FewThreads : keyPc[t] = "push" /\ index[t] = i =>
       \A m \in 1 .. Len(nodes) : nodes[m].index # i
QuietIndexes == \A i \in Indexes : i \notin overtaken => Quiet(i)
OwnValue == \A t \in FewThreads : \A i \in Indexes : values[t][i] \in {0, keyAt[i]}
OwnCalled == \A c \in called : c.index \notin overtaken => c.key = c.of

KeyInv ==
  /\ KeyTypes /\ KeyPlaces /\ NodeKeys /\ OwnIndex /\ QuietIndexes /\ OwnValue /\ OwnCalled

(* No key at first.                                                        *)
LEMMA InitKeyInv == Ke!Init => KeyInv
<1> SUFFICES ASSUME Ke!Init PROVE KeyInv
  OBVIOUS
<1> USE BoundOnKeys DEF Ke!Init, Ke!KeysAssumption
<1>1. KeyTypes
  BY DEF KeyTypes, KeyPoints
<1>2. Len(nodes) = 0
  BY EmptySeq
<1>3. KeyPlaces /\ NodeKeys /\ OwnIndex /\ OwnValue /\ OwnCalled
  BY <1>2 DEF KeyPlaces, NodeKeys, OwnIndex, OwnValue, OwnCalled
<1>4. QuietIndexes
  BY <1>2 DEF QuietIndexes, Quiet, Removes
<1> QED BY <1>1, <1>3, <1>4 DEF KeyInv

(* The nodes of the list, by their places.                                 *)
LEMMA KeyNodes ==
  ASSUME KeyTypes
  PROVE  /\ Len(nodes) \in Nat /\ nodes \in Seq(Node)
         /\ \A m \in 1 .. Len(nodes) : /\ nodes[m] \in Node /\ nodes[m].index \in Indexes
                                       /\ nodes[m].key \in 1 .. MaxKeys /\ nodes[m].key # 0
<1>1. nodes \in Seq(Node)
  BY DEF KeyTypes
<1>2. Len(nodes) \in Nat /\ \A m \in 1 .. Len(nodes) : nodes[m] \in Node
  BY <1>1, LenProperties, ElementOfSeq
<1>3. \A n \in Node : n.index \in Indexes /\ n.key \in 1 .. MaxKeys /\ n.key # 0
  BY BoundOnKeys DEF Node, Ke!Keys, Ke!KeysAssumption
<1> QED BY <1>1, <1>2, <1>3

(* Nobody has a value at an index that is allocated or freed.              *)
LEMMA KeyCleared ==
  ASSUME KeyInv, NEW i \in Indexes, values' = Ke!Cleared(i),
         \A j \in Indexes : j # i => keyAt'[j] = keyAt[j]
  PROVE  values' \in [FewThreads -> [Indexes -> 0 .. MaxKeys]] /\ OwnValue'
<1>1. 0 \in 0 .. MaxKeys
  BY BoundOnKeys DEF Ke!KeysAssumption
<1>2. values' = [t \in FewThreads |-> [values[t] EXCEPT ![i] = 0]]
  BY Zenon DEF Ke!Cleared
<1>3. values \in [FewThreads -> [Indexes -> 0 .. MaxKeys]]
  BY DEF KeyInv, KeyTypes
<1>4. /\ values' \in [FewThreads -> [Indexes -> 0 .. MaxKeys]]
      /\ \A u \in FewThreads :
           values'[u][i] = 0 /\ \A j \in Indexes : j # i => values'[u][j] = values[u][j]
  BY <1>1, <1>2, <1>3
<1> QED BY <1>4 DEF KeyInv, OwnValue

(* pthread_key_create: a new key at an index that was free; the index is   *)
(* overtaken if a delete has yet to look for its node.                     *)
LEMMA KeyCreates ==
  ASSUME KeyInv, NEW t \in FewThreads, NEW i \in Indexes, NEW d \in BOOLEAN,
         Ke!KeyCreate(t, i, d)
  PROVE  KeyInv'
<1> USE DEF KeyInv
<1>1. /\ keyPc[t] \in {"run", "destructor"} /\ keyAt[i] = 0 /\ created < MaxKeys
      /\ created' = created + 1 /\ keyAt' = [keyAt EXCEPT ![i] = created + 1]
      /\ values' = Ke!Cleared(i) /\ UNCHANGED << nodes, keyMtx, called >>
      /\ \/ keyPc' = [keyPc EXCEPT ![t] = "push"] /\ index' = [index EXCEPT ![t] = i]
         \/ UNCHANGED << keyPc, index >>
  BY DEF Ke!KeyCreate, Ke!Goto, Ke!Runs
<1>2. /\ created \in Nat /\ MaxKeys \in Nat /\ created + 1 \in 0 .. MaxKeys
      /\ keyAt' \in [Indexes -> 0 .. created + 1]
      /\ \A j \in Indexes : j # i => keyAt'[j] = keyAt[j] /\ keyAt[j] \in 0 .. created
      /\ keyAt'[i] = created + 1 /\ keyAt'[i] # 0
  BY <1>1, BoundOnKeys DEF Ke!KeysAssumption, KeyTypes
<1>3. /\ overtaken' \subseteq Indexes /\ overtaken \subseteq overtaken'
      /\ \A j \in Indexes : j \notin overtaken' => j \notin overtaken
      /\ i \notin overtaken' => \A u \in FewThreads : ~Removes(u, i)
  <2>1. overtaken' = IF Ke!Deleting(i) THEN overtaken \cup {i} ELSE overtaken
    BY DEF Ke!KeyCreate
  <2> QED BY <2>1, Zenon DEF KeyTypes, Ke!Deleting, Removes
<1>4. /\ keyPc' \in [FewThreads -> KeyPoints] /\ index' \in [FewThreads -> Indexes \cup {0}]
      /\ \A u \in FewThreads : u # t => keyPc'[u] = keyPc[u] /\ index'[u] = index[u]
      /\ \/ keyPc'[t] = "push" /\ index'[t] = i
         \/ keyPc'[t] \in {"run", "destructor"}
  BY <1>1 DEF KeyTypes, KeyPoints
<1>5. /\ Len(nodes) \in Nat
      /\ \A m \in 1 .. Len(nodes) : /\ nodes[m].index \in Indexes /\ nodes[m].key # 0
                                    /\ nodes[m].key \in Nat /\ nodes[m].key <= created
  BY KeyNodes, BoundOnKeys DEF NodeKeys, Ke!KeysAssumption
<1>6. \A u \in FewThreads, j \in Indexes : keyPc'[u] = "remove" /\ index'[u] = j <=> Removes(u, j)
  BY <1>1, <1>4 DEF Removes
<1>7. KeyTypes' /\ OwnValue'
  <2>1. values' \in [FewThreads -> [Indexes -> 0 .. MaxKeys]] /\ OwnValue'
    BY <1>1, <1>2, KeyCleared
  <2> QED BY <1>1, <1>2, <1>3, <1>4, <2>1 DEF KeyTypes
<1>8. NodeKeys'
  BY <1>1, <1>2, <1>5 DEF NodeKeys
<1>9. OwnIndex'
  BY <1>2 DEF OwnIndex
<1>10. OwnCalled'
  BY <1>1, <1>3 DEF OwnCalled, KeyTypes, Called
<1>11. \A u \in FewThreads : u # t /\ keyPc[u] = "push" =>
         /\ index[u] \in Indexes /\ keyAt[index[u]] # 0 /\ index[u] # i
         /\ keyAt'[index[u]] = keyAt[index[u]]
         /\ \A m \in 1 .. Len(nodes) : nodes[m].key # keyAt[index[u]]
  BY <1>1, <1>2 DEF KeyPlaces
<1>12. KeyPlaces'
  <2>1. ASSUME NEW u \in FewThreads, keyPc'[u] = "push"
        PROVE  /\ index'[u] \in Indexes /\ keyAt'[index'[u]] # 0
               /\ \A m \in 1 .. Len(nodes) : nodes[m].key # keyAt'[index'[u]]
    <3>1. CASE u = t
      BY <1>2, <1>4, <1>5, <2>1, <3>1
    <3>2. CASE u # t
      BY <1>4, <1>11, <2>1, <3>2
    <3> QED BY <3>1, <3>2
  <2>2. ASSUME NEW u \in FewThreads, keyPc'[u] = "remove" PROVE index'[u] \in Indexes
    BY <1>4, <2>2 DEF KeyPlaces
  <2>3. ASSUME NEW u \in FewThreads, NEW v \in FewThreads,
               keyPc'[u] = "push", keyPc'[v] = "push", index'[u] = index'[v]
        PROVE  u = v
    <3>1. CASE u # t /\ v # t
      BY <1>4, <2>3, <3>1 DEF KeyPlaces
    <3>2. CASE u = t \/ v = t
      BY <1>4, <1>11, <2>3, <3>2
    <3> QED BY <3>1, <3>2
  <2> QED BY <1>1, <2>1, <2>2, <2>3 DEF KeyPlaces
<1>13. ASSUME NEW j \in Indexes, j \notin overtaken' PROVE Quiet(j)'
  <2>1. Quiet(j)
    BY <1>3, <1>13 DEF QuietIndexes
  <2>2. \A u, v \in FewThreads : Removes(u, j)' /\ Removes(v, j)' => u = v
    BY <1>6, <2>1 DEF Quiet, Removes
  <2>3. CASE j # i
    <3>1. \A u \in FewThreads : keyPc'[u] = "push" /\ index'[u] = j =>
                                  keyPc[u] = "push" /\ index[u] = j
      BY <1>4, <2>3
    <3>2. keyAt'[j] = keyAt[j]
      BY <1>2, <2>3
    <3> QED BY <1>1, <1>6, <2>1, <2>2, <3>1, <3>2 DEF Quiet, Removes
  <2>4. CASE j = i
    <3>1. \A u \in FewThreads : ~Removes(u, i)
      BY <1>3, <1>13, <2>4
    <3>2. \A m \in 1 .. Len(nodes) : nodes[m].index # i
      BY <1>1, <1>5, <2>1, <2>4, <3>1 DEF Quiet
    <3> QED BY <1>1, <1>6, <2>2, <2>4, <3>1, <3>2 DEF Quiet, Removes
  <2> QED BY <2>3, <2>4
<1>14. QuietIndexes'
  BY <1>13 DEF QuietIndexes
<1> QED BY <1>7, <1>8, <1>9, <1>10, <1>12, <1>14

(* pthread_key_delete: one key less.                                       *)
LEMMA KeyDeletes ==
  ASSUME KeyInv, NEW t \in FewThreads, NEW i \in Indexes, Ke!KeyDelete(t, i)
  PROVE  KeyInv'
<1> USE DEF KeyInv
<1>1. /\ keyPc[t] \in {"run", "destructor"} /\ keyAt[i] # 0
      /\ \A u \in FewThreads : ~(keyPc[u] = "push" /\ index[u] = i)
      /\ keyAt' = [keyAt EXCEPT ![i] = 0] /\ values' = Ke!Cleared(i)
      /\ keyPc' = [keyPc EXCEPT ![t] = "remove"] /\ index' = [index EXCEPT ![t] = i]
      /\ UNCHANGED << created, nodes, keyMtx, called, overtaken >>
  BY DEF Ke!KeyDelete, Ke!Goto, Ke!Runs, Ke!Known
<1>2. /\ keyAt' \in [Indexes -> 0 .. created] /\ keyAt'[i] = 0
      /\ \A j \in Indexes : j # i => keyAt'[j] = keyAt[j]
  BY <1>1, BoundOnKeys DEF Ke!KeysAssumption, KeyTypes
<1>3. /\ keyPc' \in [FewThreads -> KeyPoints] /\ index' \in [FewThreads -> Indexes \cup {0}]
      /\ \A u \in FewThreads : u # t => keyPc'[u] = keyPc[u] /\ index'[u] = index[u]
      /\ keyPc'[t] = "remove" /\ index'[t] = i
  BY <1>1 DEF KeyTypes, KeyPoints
<1>4. KeyTypes' /\ OwnValue'
  <2>1. values' \in [FewThreads -> [Indexes -> 0 .. MaxKeys]] /\ OwnValue'
    BY <1>1, <1>2, KeyCleared
  <2> QED BY <1>1, <1>2, <1>3, <2>1 DEF KeyTypes
<1>5. NodeKeys' /\ OwnIndex' /\ OwnCalled'
  BY <1>1, <1>2 DEF NodeKeys, OwnIndex, OwnCalled
<1>6. KeyPlaces'
  <2>1. \A u \in FewThreads : keyPc'[u] = "push" =>
          /\ u # t /\ keyPc[u] = "push" /\ index'[u] = index[u]
          /\ index[u] \in Indexes /\ index[u] # i
          /\ keyAt'[index[u]] = keyAt[index[u]]
    BY <1>1, <1>2, <1>3 DEF KeyPlaces
  <2> QED BY <1>1, <1>3, <2>1 DEF KeyPlaces
<1>7. ASSUME NEW j \in Indexes, j \notin overtaken PROVE Quiet(j)'
  <2>1. Quiet(j)
    BY <1>7 DEF QuietIndexes
  <2>2. \A u \in FewThreads : keyPc'[u] = "push" /\ index'[u] = j =>
                                keyPc[u] = "push" /\ index[u] = j
    BY <1>3
  <2>3. CASE j = i
    <3>1. \A u \in FewThreads : ~Removes(u, i)
      BY <1>1, <2>1, <2>3 DEF Quiet
    <3>2. \A u \in FewThreads : Removes(u, i)' <=> u = t
      BY <1>3, <3>1 DEF Removes
    <3> QED BY <1>1, <1>2, <2>1, <2>2, <2>3, <3>2 DEF Quiet
  <2>4. CASE j # i
    <3>1. \A u \in FewThreads : Removes(u, j)' <=> Removes(u, j)
      BY <1>1, <1>3, <2>4 DEF Removes
    <3>2. keyAt'[j] = keyAt[j]
      BY <1>2, <2>4
    <3> QED BY <1>1, <2>1, <2>2, <3>1, <3>2 DEF Quiet
  <2> QED BY <2>3, <2>4
<1>8. QuietIndexes'
  BY <1>1, <1>7 DEF QuietIndexes
<1> QED BY <1>4, <1>5, <1>6, <1>8

(* The node of a new key goes to the head of the list.                     *)
LEMMA KeyPush ==
  ASSUME KeyInv, NEW t \in FewThreads, Ke!PushDestructor(t)
  PROVE  KeyInv'
<1> USE DEF KeyInv
<1> DEFINE e == [index |-> index[t], key |-> keyAt[index[t]]]
           r == << e >> \o nodes
<1>1. /\ keyPc[t] = "push" /\ nodes' = r
      /\ \E p \in {"run", "destructor"} : keyPc' = [keyPc EXCEPT ![t] = p]
      /\ index' = [index EXCEPT ![t] = 0]
      /\ UNCHANGED << keyAt, created, values, keyMtx, called, overtaken >>
  BY DEF Ke!PushDestructor, Ke!Back, Ke!Goto
<1>2. /\ nodes \in Seq(Node) /\ Len(nodes) \in Nat
      /\ \A m \in 1 .. Len(nodes) : nodes[m] \in Node
  BY KeyNodes
<1>3. /\ index[t] \in Indexes /\ keyAt[index[t]] \in Ke!Keys /\ keyAt[index[t]] <= created
      /\ \A m \in 1 .. Len(nodes) : nodes[m].key # keyAt[index[t]]
  <2>1. /\ index[t] \in Indexes /\ keyAt[index[t]] # 0
        /\ \A m \in 1 .. Len(nodes) : nodes[m].key # keyAt[index[t]]
    BY <1>1 DEF KeyPlaces
  <2>2. PICK c \in Nat : c = created /\ c <= MaxKeys
    BY BoundOnKeys DEF KeyTypes, Ke!KeysAssumption
  <2>3. keyAt[index[t]] \in 0 .. c
    BY <2>1, <2>2 DEF KeyTypes
  <2>4. keyAt[index[t]] \in 1 .. MaxKeys /\ keyAt[index[t]] <= created
    BY <2>1, <2>2, <2>3, BoundOnKeys DEF Ke!KeysAssumption
  <2> QED BY <2>1, <2>4 DEF Ke!Keys
<1>4. e \in Node /\ e.index = index[t] /\ e.key = keyAt[index[t]]
  BY <1>3 DEF Node
<1> HIDE DEF e
<1>5. /\ r \in Seq(Node) /\ Len(r) = Len(nodes) + 1 /\ r[1] = e
      /\ \A m \in 2 .. Len(nodes) + 1 : r[m] = nodes[m - 1]
  BY <1>2, <1>4, Pushed
<1> HIDE DEF r
<1>6. /\ keyPc' \in [FewThreads -> KeyPoints] /\ index' \in [FewThreads -> Indexes \cup {0}]
      /\ keyPc'[t] \in {"run", "destructor"}
      /\ \A u \in FewThreads : u # t => keyPc'[u] = keyPc[u] /\ index'[u] = index[u]
  BY <1>1 DEF KeyTypes, KeyPoints
<1>7. KeyTypes'
  BY <1>1, <1>5, <1>6 DEF KeyTypes
<1>8. OwnIndex' /\ OwnValue' /\ OwnCalled'
  BY <1>1 DEF OwnIndex, OwnValue, OwnCalled
<1>9. ASSUME NEW m \in 1 .. Len(r), m # 1
      PROVE  m - 1 \in 1 .. Len(nodes) /\ r[m] = nodes[m - 1]
  <2>1. m \in 2 .. Len(nodes) + 1 /\ m - 1 \in 1 .. Len(nodes)
    BY <1>2, <1>5, <1>9
  <2> QED BY <1>5, <2>1
<1>10. ASSUME NEW m \in 1 .. Len(r)
       PROVE  r[m] = e \/ \E k \in 1 .. Len(nodes) : r[m] = nodes[k]
  BY <1>5, <1>9
<1>11. ASSUME NEW m \in 1 .. Len(r), NEW n \in 1 .. Len(r)
       PROVE  \/ m = n
              \/ \E k \in 1 .. Len(nodes) : \/ r[m] = e /\ r[n] = nodes[k]
                                            \/ r[n] = e /\ r[m] = nodes[k]
              \/ \E k, l \in 1 .. Len(nodes) : r[m] = nodes[k] /\ r[n] = nodes[l] /\ k # l
  <2>1. CASE m = 1 \/ n = 1
    BY <1>5, <1>9, <2>1
  <2>2. CASE m # 1 /\ n # 1
    <3>1. PICK k \in 1 .. Len(nodes), l \in 1 .. Len(nodes) :
            k = m - 1 /\ l = n - 1 /\ r[m] = nodes[k] /\ r[n] = nodes[l]
      BY <1>9, <2>2
    <3> QED BY <1>2, <1>5, <3>1
  <2> QED BY <2>1, <2>2
<1>12. NodeKeys'
  <2>1. \A m \in 1 .. Len(r) : r[m].key <= created
    BY <1>3, <1>4, <1>10 DEF NodeKeys
  <2>2. ASSUME NEW m \in 1 .. Len(r), NEW n \in 1 .. Len(r), r[m].key = r[n].key
        PROVE  m = n
    <3>1. \A k \in 1 .. Len(nodes) : nodes[k].key # e.key
      BY <1>3, <1>4
    <3>2. \A k, l \in 1 .. Len(nodes) : nodes[k].key = nodes[l].key => k = l
      BY DEF NodeKeys
    <3> QED BY <1>11, <2>2, <3>1, <3>2
  <2> QED BY <1>1, <2>1, <2>2 DEF NodeKeys
<1>13. KeyPlaces'
  <2>1. ASSUME NEW u \in FewThreads, keyPc'[u] = "push"
        PROVE  /\ index'[u] \in Indexes /\ keyAt[index'[u]] # 0
               /\ \A m \in 1 .. Len(r) : r[m].key # keyAt[index'[u]]
    <3>1. /\ u # t /\ keyPc[u] = "push" /\ index'[u] = index[u] /\ index[u] # index[t]
          /\ index[u] \in Indexes /\ keyAt[index[u]] # 0
          /\ \A m \in 1 .. Len(nodes) : nodes[m].key # keyAt[index[u]]
      BY <1>1, <1>6, <2>1 DEF KeyPlaces
    <3>2. keyAt[index[u]] # keyAt[index[t]]
      BY <1>3, <3>1 DEF OwnIndex
    <3> QED BY <1>4, <1>10, <3>1, <3>2
  <2>2. ASSUME NEW u \in FewThreads, keyPc'[u] = "remove" PROVE index'[u] \in Indexes
    BY <1>6, <2>2 DEF KeyPlaces
  <2>3. ASSUME NEW u \in FewThreads, NEW v \in FewThreads,
               keyPc'[u] = "push", keyPc'[v] = "push", index'[u] = index'[v]
        PROVE  u = v
    BY <1>6, <2>3 DEF KeyPlaces
  <2> QED BY <1>1, <2>1, <2>2, <2>3 DEF KeyPlaces
<1>14. ASSUME NEW j \in Indexes, j \notin overtaken PROVE Quiet(j)'
  <2>1. Quiet(j)
    BY <1>14 DEF QuietIndexes
  <2>2. \A u \in FewThreads : Removes(u, j)' <=> Removes(u, j)
    BY <1>1, <1>6 DEF Removes
  <2>3. \A u \in FewThreads : keyPc'[u] = "push" /\ index'[u] = j =>
                                keyPc[u] = "push" /\ index[u] = j /\ u # t
    BY <1>6
  <2>4. \A m \in 1 .. Len(r) : r[m].index = j =>
          keyAt[j] = r[m].key \/ \E u \in FewThreads : Removes(u, j)
    BY <1>4, <1>10, <2>1 DEF Quiet
  <2>5. index[t] = j => \A k \in 1 .. Len(nodes) : nodes[k].index # j
    BY <1>1, <2>1 DEF Quiet
  <2>6. ASSUME NEW m \in 1 .. Len(r), NEW n \in 1 .. Len(r), r[m].index = j, r[n].index = j
        PROVE  m = n
    <3>1. e.index = j => \A k \in 1 .. Len(nodes) : nodes[k].index # j
      BY <1>4, <2>5
    <3>2. \A k, l \in 1 .. Len(nodes) : nodes[k].index = j /\ nodes[l].index = j => k = l
      BY <2>1 DEF Quiet
    <3> QED BY <1>11, <2>6, <3>1, <3>2
  <2>7. \A u \in FewThreads : keyPc'[u] = "push" /\ index'[u] = j =>
          \A m \in 1 .. Len(r) : r[m].index # j
    BY <1>1, <1>4, <1>10, <2>1, <2>3 DEF Quiet, KeyPlaces
  <2> QED BY <1>1, <2>1, <2>2, <2>4, <2>6, <2>7 DEF Quiet
<1>15. QuietIndexes'
  BY <1>1, <1>14 DEF QuietIndexes
<1> QED BY <1>7, <1>8, <1>12, <1>13, <1>15

(* pthread_key_delete removes the first node of its index, if there is one.*)
LEMMA KeyRemove ==
  ASSUME KeyInv, NEW t \in FewThreads, Ke!RemoveDestructor(t)
  PROVE  KeyInv'
<1> USE DEF KeyInv
<1>1. /\ keyPc[t] = "remove"
      /\ \E p \in {"run", "destructor"} : keyPc' = [keyPc EXCEPT ![t] = p]
      /\ index' = [index EXCEPT ![t] = 0]
      /\ UNCHANGED << keyAt, created, values, keyMtx, called, overtaken >>
  BY DEF Ke!RemoveDestructor, Ke!Back, Ke!Goto
<1>2. PICK i \in Indexes : i = index[t] /\ Removes(t, i)
  BY <1>1 DEF KeyPlaces, Removes
<1>3. /\ nodes \in Seq(Node) /\ Len(nodes) \in Nat
      /\ \A m \in 1 .. Len(nodes) : nodes[m] \in Node
  BY KeyNodes
<1>4. /\ keyPc' \in [FewThreads -> KeyPoints] /\ index' \in [FewThreads -> Indexes \cup {0}]
      /\ keyPc'[t] \in {"run", "destructor"}
      /\ \A u \in FewThreads : u # t => keyPc'[u] = keyPc[u] /\ index'[u] = index[u]
  BY <1>1 DEF KeyTypes, KeyPoints
<1> DEFINE I == { m \in 1 .. Len(nodes) : nodes[m].index = i }
<1>5. nodes' = IF I # {} THEN Without(nodes, Ke!Min(I)) ELSE nodes
  BY <1>2 DEF Ke!RemoveDestructor, Ke!RemoveFirstMatch, Ke!SelectInSeq, Ke!RemoveAt, Without
<1>6. I # {} => Ke!Min(I) \in I
  <2> SUFFICES ASSUME I # {} PROVE Ke!Min(I) \in I
    OBVIOUS
  <2>1. I \in SUBSET Nat
    BY <1>3
  <2> HIDE DEF I
  <2>2. \E m \in I : \A n \in I : m <= n
    BY <2>1, LeastNumber
  <2> QED BY <2>2 DEF Ke!Min
(* What is left are nodes of the old list, each once.                      *)
<1>61. \E w \in Seq(Node) : \E place \in [1 .. Len(w) -> 1 .. Len(nodes)] :
        /\ nodes' = w
        /\ \A m \in 1 .. Len(w) : w[m] = nodes[place[m]]
        /\ \A m, n \in 1 .. Len(w) : place[m] = place[n] => m = n
        /\ (\A k, l \in I : k = l) => \A m \in 1 .. Len(w) : place[m] \notin I
  <2>1. CASE I = {}
    <3>1. nodes' = nodes
      BY <1>5, <2>1
    <3> HIDE DEF I
    <3> DEFINE same == [m \in 1 .. Len(nodes) |-> m]
    <3>2. /\ same \in [1 .. Len(nodes) -> 1 .. Len(nodes)]
          /\ \A m \in 1 .. Len(nodes) : same[m] = m
      OBVIOUS
    <3> HIDE DEF same
    <3> QED BY <1>3, <2>1, <3>1, <3>2
  <2>2. CASE I # {}
    <3>1. PICK k \in 1 .. Len(nodes) : k = Ke!Min(I) /\ k \in I
      BY <1>6, <2>2
    <3> DEFINE r == Without(nodes, k)
    <3>2. nodes' = r
      BY <1>5, <2>2, <3>1
    <3>3. /\ \A m \in 1 .. Len(r) :
               Past(m, k) \in 1 .. Len(nodes) /\ Past(m, k) # k /\ r[m] = nodes[Past(m, k)]
          /\ \A m, n \in 1 .. Len(r) : Past(m, k) = Past(n, k) => m = n
      BY <1>3, TakenOutPlaces
    <3>4. r \in Seq(Node)
      BY <1>3, TakenOut
    <3> HIDE DEF r
    <3> DEFINE past == [m \in 1 .. Len(r) |-> Past(m, k)]
    <3>5. past \in [1 .. Len(r) -> 1 .. Len(nodes)] /\ \A m \in 1 .. Len(r) : past[m] = Past(m, k)
      BY <3>3
    <3> HIDE DEF past, I
    <3>6. (\A n, l \in I : n = l) => \A m \in 1 .. Len(r) : past[m] \notin I
      BY <3>1, <3>3, <3>5
    <3> QED BY <3>2, <3>3, <3>4, <3>5, <3>6
  <2> QED BY <2>1, <2>2
<1>7. PICK w \in Seq(Node) : \E place \in [1 .. Len(w) -> 1 .. Len(nodes)] :
        /\ nodes' = w
        /\ \A m \in 1 .. Len(w) : w[m] = nodes[place[m]]
        /\ \A m, n \in 1 .. Len(w) : place[m] = place[n] => m = n
        /\ (\A k, l \in I : k = l) => \A m \in 1 .. Len(w) : place[m] \notin I
  BY <1>61
<1>71. PICK place \in [1 .. Len(w) -> 1 .. Len(nodes)] :
        /\ \A m \in 1 .. Len(w) : w[m] = nodes[place[m]]
        /\ \A m, n \in 1 .. Len(w) : place[m] = place[n] => m = n
        /\ (\A k, l \in I : k = l) => \A m \in 1 .. Len(w) : place[m] \notin I
  BY <1>7
<1>8. KeyTypes'
  BY <1>1, <1>4, <1>7 DEF KeyTypes
<1>9. OwnIndex' /\ OwnValue' /\ OwnCalled'
  BY <1>1 DEF OwnIndex, OwnValue, OwnCalled
<1> HIDE DEF I
<1>72. \A m \in 1 .. Len(w) : place[m] \in 1 .. Len(nodes) /\ w[m] = nodes[place[m]]
  BY <1>71
<1>10. NodeKeys'
  <2>1. \A m, n \in 1 .. Len(w) : w[m].key = w[n].key => m = n
    BY <1>72, <1>71 DEF NodeKeys
  <2>2. \A m \in 1 .. Len(w) : w[m].key <= created
    BY <1>72 DEF NodeKeys
  <2> QED BY <1>1, <1>7, <2>1, <2>2 DEF NodeKeys
<1>11. KeyPlaces'
  <2>1. \A u \in FewThreads : keyPc'[u] \in {"push", "remove"} =>
                                u # t /\ keyPc'[u] = keyPc[u] /\ index'[u] = index[u]
    BY <1>4
  <2>2. ASSUME NEW u \in FewThreads, keyPc'[u] = "push"
        PROVE  /\ index'[u] \in Indexes /\ keyAt[index'[u]] # 0
               /\ \A m \in 1 .. Len(w) : w[m].key # keyAt[index'[u]]
    <3>1. keyPc[u] = "push" /\ index'[u] = index[u]
      BY <2>1, <2>2
    <3>2. /\ index[u] \in Indexes /\ keyAt[index[u]] # 0
          /\ \A m \in 1 .. Len(nodes) : nodes[m].key # keyAt[index[u]]
      BY <3>1 DEF KeyPlaces
    <3> QED BY <1>72, <3>1, <3>2
  <2>3. ASSUME NEW u \in FewThreads, keyPc'[u] = "remove" PROVE index'[u] \in Indexes
    <3>1. keyPc[u] = "remove" /\ index'[u] = index[u]
      BY <2>1, <2>3
    <3> QED BY <3>1 DEF KeyPlaces
  <2>4. \A u, v \in FewThreads :
          keyPc'[u] = "push" /\ keyPc'[v] = "push" /\ index'[u] = index'[v] => u = v
    BY <2>1 DEF KeyPlaces
  <2>5. nodes' = w /\ keyAt' = keyAt
    BY <1>1, <1>7
  <2> QED BY <2>2, <2>3, <2>4, <2>5, Zenon DEF KeyPlaces
<1>12. ASSUME NEW j \in Indexes, j \notin overtaken PROVE Quiet(j)'
  <2>1. Quiet(j)
    BY <1>12 DEF QuietIndexes
  <2>2. \A u \in FewThreads : Removes(u, j)' <=> Removes(u, j) /\ u # t
    BY <1>4 DEF Removes
  <2>3. \A u \in FewThreads : keyPc'[u] = "push" /\ index'[u] = j =>
                                keyPc[u] = "push" /\ index[u] = j
    BY <1>4
  <2>4. \A m, n \in 1 .. Len(w) : w[m].index = j /\ w[n].index = j => m = n
    BY <1>72, <1>71, <2>1 DEF Quiet
  <2>5. ASSUME NEW m \in 1 .. Len(w), w[m].index = j
        PROVE  keyAt[j] = w[m].key \/ \E u \in FewThreads : Removes(u, j)'
    <3>1. CASE j = i
      <4>1. \A k, l \in I : k = l
        BY <2>1, <3>1 DEF Quiet, I
      <4>2. place[m] \in I
        BY <1>72, <2>5, <3>1 DEF I
      <4> QED BY <1>71, <4>1, <4>2
    <3>2. CASE j # i
      <4>1. \A u \in FewThreads : Removes(u, j)' <=> Removes(u, j)
        BY <1>2, <2>2, <3>2 DEF Removes
      <4> QED BY <1>72, <2>1, <2>5, <4>1 DEF Quiet
    <3> QED BY <3>1, <3>2
  <2>6. \A u \in FewThreads : keyPc'[u] = "push" /\ index'[u] = j =>
          \A m \in 1 .. Len(w) : w[m].index # j
    BY <1>72, <2>1, <2>3 DEF Quiet
  <2>7. \A u, v \in FewThreads : Removes(u, j)' /\ Removes(v, j)' => u = v
    BY <2>1, <2>2 DEF Quiet
  <2>8. \A u \in FewThreads : Removes(u, j)' => keyAt'[j] = 0
    BY <1>1, <2>1, <2>2 DEF Quiet
  <2> QED BY <1>1, <1>7, <2>4, <2>5, <2>6, <2>7, <2>8 DEF Quiet
<1>13. QuietIndexes'
  BY <1>1, <1>12 DEF QuietIndexes
<1> QED BY <1>8, <1>9, <1>10, <1>11, <1>13

(* Setting a value, and the end of a thread, which hands each value to the *)
(* destructor of a node of its index.                                      *)
LEMMA KeyMoves ==
  ASSUME KeyInv, NEW t \in FewThreads,
         \/ \E i \in Indexes : Ke!SetSpecific(t, i)
         \/ Ke!ExitBegin(t) \/ Ke!ExitNode(t) \/ Ke!DestructorReturns(t) \/ Ke!ExitEnd(t)
  PROVE  KeyInv'
<1> USE DEF KeyInv
<1>1. UNCHANGED << keyAt, created, nodes, index, overtaken >> /\ keyPc[t] \notin {"push", "remove"}
  BY DEF Ke!SetSpecific, Ke!ExitBegin, Ke!ExitNode, Ke!DestructorReturns, Ke!ExitEnd, Ke!Runs
<1>2. \E p \in KeyPoints \ {"push", "remove"} : keyPc' = [keyPc EXCEPT ![t] = p]
  <2>1. CASE \E i \in Indexes : Ke!SetSpecific(t, i)
    <3>1. keyPc' = keyPc /\ keyPc[t] \in {"run", "destructor"}
      BY <2>1 DEF Ke!SetSpecific, Ke!Runs
    <3> QED BY <3>1 DEF KeyTypes, KeyPoints
  <2>2. CASE Ke!ExitBegin(t) \/ Ke!DestructorReturns(t) \/ Ke!ExitEnd(t)
    BY <2>2 DEF Ke!ExitBegin, Ke!DestructorReturns, Ke!ExitEnd, Ke!Goto, KeyPoints
  <2>3. CASE Ke!ExitNode(t)
    <3>1. keyPc[t] = "destroy" /\ \/ keyPc' = keyPc
                                  \/ keyPc' = [keyPc EXCEPT ![t] = "destructor"]
      BY <2>3 DEF Ke!ExitNode, Ke!Goto
    <3> QED BY <3>1 DEF KeyTypes, KeyPoints
  <2> QED BY <2>1, <2>2, <2>3
<1>3. /\ keyPc' \in [FewThreads -> KeyPoints] /\ keyPc'[t] \notin {"push", "remove"}
      /\ \A u \in FewThreads : u # t => keyPc'[u] = keyPc[u]
  BY <1>2 DEF KeyTypes
<1>4. KeyPlaces' /\ NodeKeys' /\ OwnIndex'
  BY <1>1, <1>3 DEF KeyPlaces, NodeKeys, OwnIndex
<1>5. QuietIndexes'
  <2>1. ASSUME NEW i \in Indexes, Quiet(i) PROVE Quiet(i)'
    <3>1. \A u \in FewThreads : /\ Removes(u, i)' <=> Removes(u, i)
                                /\ keyPc'[u] = "push" <=> keyPc[u] = "push"
      BY <1>1, <1>3 DEF Removes
    <3> QED BY <1>1, <2>1, <3>1 DEF Quiet
  <2> QED BY <1>1, <2>1 DEF QuietIndexes
<1>6. /\ values' \in [FewThreads -> [Indexes -> 0 .. MaxKeys]]
      /\ OwnValue'
  <2>1. CASE \E i \in Indexes : Ke!SetSpecific(t, i)
    <3>1. PICK i \in Indexes : values' = [values EXCEPT ![t][i] = keyAt[i]]
      BY <2>1 DEF Ke!SetSpecific
    <3>2. keyAt[i] \in 0 .. MaxKeys
      BY BoundOnKeys DEF KeyTypes, Ke!KeysAssumption
    <3> QED BY <1>1, <3>1, <3>2 DEF KeyTypes, OwnValue
  <2>2. CASE Ke!ExitBegin(t) \/ Ke!ExitNode(t) \/ Ke!DestructorReturns(t)
    BY <1>1, <2>2 DEF Ke!ExitBegin, Ke!ExitNode, Ke!DestructorReturns, KeyTypes, OwnValue
  <2>3. CASE Ke!ExitEnd(t)
    <3>1. values' = [values EXCEPT ![t] = [i \in Indexes |-> 0]] /\ 0 \in 0 .. MaxKeys
      BY <2>3, BoundOnKeys DEF Ke!ExitEnd, Ke!KeysAssumption
    <3> QED BY <1>1, <3>1 DEF KeyTypes, OwnValue
  <2> QED BY <2>1, <2>2, <2>3
<1>7. keyMtx' \in FewThreads \cup {NoOwner}
  BY SMTT(20) DEF Ke!SetSpecific, Ke!ExitBegin, Ke!ExitNode, Ke!DestructorReturns, Ke!ExitEnd,
       KeyTypes
<1>8. called' \subseteq Called /\ OwnCalled'
  <2>1. CASE called' = called
    BY <1>1, <2>1 DEF KeyTypes, OwnCalled
  <2>2. CASE called' # called
    <3>1. Ke!ExitNode(t)
      BY <2>2 DEF Ke!SetSpecific, Ke!ExitBegin, Ke!DestructorReturns, Ke!ExitEnd
    <3>2. PICK m \in DOMAIN nodes :
            /\ values[t][nodes[m].index] # 0
            /\ called' = called \cup {[index |-> nodes[m].index, key |-> nodes[m].key,
                                       of |-> values[t][nodes[m].index]]}
      BY <2>2, <3>1 DEF Ke!ExitNode, Ke!At
    <3>3. /\ m \in 1 .. Len(nodes) /\ nodes[m].index \in Indexes
          /\ nodes[m].key \in 1 .. MaxKeys
      BY KeyNodes, LenProperties
    <3>4. values[t][nodes[m].index] \in 1 .. MaxKeys
      BY <3>2, <3>3, BoundOnKeys DEF KeyTypes, Ke!KeysAssumption
    <3>5. values[t][nodes[m].index] = keyAt[nodes[m].index]
      BY <3>2, <3>3 DEF OwnValue
    <3>6. nodes[m].index \notin overtaken => keyAt[nodes[m].index] = nodes[m].key
      BY <3>2, <3>3, <3>5 DEF QuietIndexes, Quiet
    <3>7. [index |-> nodes[m].index, key |-> nodes[m].key, of |-> values[t][nodes[m].index]]
            \in Called
      BY <3>3, <3>4 DEF Called, Ke!Keys
    <3> QED BY <1>1, <3>2, <3>5, <3>6, <3>7 DEF KeyTypes, OwnCalled
  <2> QED BY <2>1, <2>2
<1>9. KeyTypes'
  BY <1>1, <1>3, <1>6, <1>7, <1>8 DEF KeyTypes
<1> QED BY <1>4, <1>5, <1>6, <1>8, <1>9

(* Keys, among the other services: the invariant.                          *)
LEMMA KeyInvariance == Spec => []KeyInv
<1>1. Init => KeyInv
  BY InitKeyInv DEF Init
<1>2. KeyInv /\ [Next]_vars => KeyInv'
  <2> SUFFICES ASSUME KeyInv, [Next]_vars PROVE KeyInv'
    OBVIOUS
  <2>1. CASE Ke!Next
    BY <2>1, KeyCreates, KeyDeletes, KeyPush, KeyRemove, KeyMoves DEF Ke!Next
  <2>2. CASE UNCHANGED keyVars
    <3>1. UNCHANGED << keyAt, created, nodes, values, keyMtx, keyPc, index, called, overtaken >>
      BY <2>2 DEF keyVars
    <3>2. KeyTypes' /\ KeyPlaces'
      BY <3>1 DEF KeyInv, KeyTypes, KeyPlaces, KeyPoints
    <3>3. NodeKeys' /\ OwnIndex' /\ OwnValue' /\ OwnCalled'
      BY <3>1 DEF KeyInv, NodeKeys, OwnIndex, OwnValue, OwnCalled
    <3>4. QuietIndexes'
      BY <3>1 DEF KeyInv, QuietIndexes, Quiet, Removes
    <3> QED BY <3>2, <3>3, <3>4 DEF KeyInv
  <2> QED BY <2>1, <2>2, StepOfEach
<1> QED BY <1>1, <1>2, PTL DEF Spec

(* Whatever the other threads and the destructors create and delete: where *)
(* no create overtook a delete, a destructor only gets values of its own   *)
(* key, and a node outlives its key only until the pthread_key_delete      *)
(* under way has removed it.                                               *)
THEOREM ServicesKeys == Spec => []KeyDestructorsOwn
<1>1. KeyInv => Ke!DestructorsOwn
  <2> SUFFICES ASSUME KeyInv PROVE Ke!DestructorsOwn
    OBVIOUS
  <2>1. \A m \in 1 .. Len(nodes) : nodes[m].index \notin overtaken =>
          keyAt[nodes[m].index] = nodes[m].key \/ Ke!Deleting(nodes[m].index)
    BY KeyNodes DEF KeyInv, QuietIndexes, Quiet, Removes, Ke!Deleting
  <2> QED BY <2>1 DEF KeyInv, OwnCalled, NodeKeys, Ke!DestructorsOwn
<1> QED BY <1>1, KeyInvariance, PTL DEF KeyDestructorsOwn

-----------------------------------------------------------------------------
(* Hooks.  The slots in use hold one entry per hooked name, each with the  *)
(* function the name was hooked to last.                                   *)
HookSlot == (Symbols \X HostFuncs) \cup {Unset}

HookTypes ==
  /\ slots \in Seq(HookSlot) /\ size \in Nat /\ adds \in Nat
  /\ size <= adds /\ adds <= MaxHooks /\ size <= Len(slots)
  /\ hooked \in [Symbols -> HostFuncs \cup {NotHooked}]
Latest(s, h) == \A i \in 1 .. size : s[i] \in Symbols \X HostFuncs /\ s[i][2] = h[s[i][1]]
OneSlot == \A i, j \in 1 .. size : slots[i][1] = slots[j][1] => i = j
InSlot  == \A n \in Symbols : hooked[n] # NotHooked => \E i \in 1 .. size : slots[i][1] = n

HookInv == HookTypes /\ Latest(slots, hooked) /\ OneSlot /\ InSlot

(* The array that add_custom_hook writes to has room for one more and      *)
(* holds what the old one held.                                            *)
LEMMA HookRoom ==
  ASSUME HookInv
  PROVE  /\ Ho!Room \in Seq(HookSlot) /\ Len(Ho!Room) \in Nat /\ size + 1 <= Len(Ho!Room)
         /\ \A i \in 1 .. size : Ho!Room[i] = slots[i]
<1>1. Len(slots) \in Nat /\ size \in Nat /\ size <= Len(slots) /\ slots \in Seq(HookSlot)
  BY LenProperties DEF HookInv, HookTypes
<1>2. CASE ~(size + 1 >= Len(slots))
  BY <1>1, <1>2 DEF Ho!Room
<1>3. CASE size + 1 >= Len(slots)
  <2> DEFINE len == IF slots = << >> THEN FirstSize ELSE 2 * Len(slots)
             r == [i \in 1 .. len |-> IF i <= size THEN slots[i] ELSE Unset]
  <2>1. len \in Nat /\ size + 1 <= len
    <3>1. CASE slots = << >>
      <4>1. Len(slots) = 0
        BY <3>1, EmptySeq
      <4> QED BY <1>1, <3>1, <4>1, HooksOfTheHost DEF Ho!HooksAssumption
    <3>2. CASE slots # << >>
      <4>1. Len(slots) # 0
        BY <1>1, <3>2, EmptySeq
      <4> QED BY <1>1, <3>2, <4>1
    <3> QED BY <3>1, <3>2
  <2>2. Ho!Room = r
    BY <1>3 DEF Ho!Room, Ho!Resized
  <2> HIDE DEF len
  <2>3. \A i \in 1 .. size : i \in 1 .. len /\ i <= size /\ slots[i] \in HookSlot
    BY <1>1, <2>1, ElementOfSeq
  <2>4. \A i \in 1 .. len : r[i] \in HookSlot
    <3> SUFFICES ASSUME NEW i \in 1 .. len PROVE r[i] \in HookSlot
      OBVIOUS
    <3>1. CASE i <= size
      <4>1. i \in 1 .. size
        BY <1>1, <2>1, <3>1
      <4> QED BY <2>3, <4>1
    <3>2. CASE ~(i <= size)
      BY <3>2 DEF HookSlot
    <3> QED BY <3>1, <3>2
  <2>5. r \in [1 .. len -> HookSlot]
    BY <2>4
  <2>6. r \in Seq(HookSlot) /\ Len(r) = len
    BY <2>1, <2>5, SeqDef, LenProperties
  <2>7. \A i \in 1 .. size : r[i] = slots[i]
    BY <2>3
  <2> HIDE DEF r
  <2> QED BY <2>1, <2>2, <2>6, <2>7
<1> QED BY <1>2, <1>3

(* add_custom_hook replaces the function of a name, or appends the name.   *)
LEMMA HookStep ==
  ASSUME HookInv, NEW n \in Symbols, NEW f \in HostFuncs, Ho!AddCustomHook(n, f)
  PROVE  HookInv'
<1> USE DEF HookInv
<1>1. PICK r \in Seq(HookSlot) : r = Ho!Room
  BY HookRoom
<1>2. Len(r) \in Nat /\ size + 1 <= Len(r) /\ \A i \in 1 .. size : r[i] = slots[i]
  BY <1>1, HookRoom
<1>3. DOMAIN r = 1 .. Len(r) /\ \A i \in 1 .. Len(r) : r[i] \in HookSlot
  BY LenProperties, ElementOfSeq
<1>4. /\ size \in Nat /\ adds \in Nat /\ size <= adds /\ MaxHooks \in Nat
      /\ hooked \in [Symbols -> HostFuncs \cup {NotHooked}]
      /\ hooked' = [hooked EXCEPT ![n] = f] /\ adds' = adds + 1 /\ adds < MaxHooks
  BY HooksOfTheHost DEF Ho!AddCustomHook, HookTypes, Ho!HooksAssumption
<1>5. \A m \in Symbols : m # n => hooked'[m] = hooked[m]
  BY <1>4
<1>6. hooked'[n] = f /\ hooked' \in [Symbols -> HostFuncs \cup {NotHooked}]
  BY <1>4
<1>7. f # NotHooked /\ << n, f >> \in HookSlot /\ << n, f >> \in Symbols \X HostFuncs
  BY HooksOfTheHost DEF Ho!HooksAssumption, HookSlot
<1>8. /\ \A i \in 1 .. size : r[i] \in Symbols \X HostFuncs /\ r[i][2] = hooked[r[i][1]]
      /\ \A i, j \in 1 .. size : r[i][1] = r[j][1] => i = j
      /\ \A m \in Symbols : hooked[m] # NotHooked => \E i \in 1 .. size : r[i][1] = m
  BY <1>2 DEF Latest, OneSlot, InSlot
<1>9. CASE Ho!Named(r, n) # {}
  <2>1. PICK k \in 1 .. size : r[k][1] = n /\ slots' = [r EXCEPT ![k] = << n, f >>]
    <3> DEFINE k == CHOOSE i \in Ho!Named(r, n) : TRUE
    <3>1. k \in 1 .. size /\ r[k][1] = n
      BY <1>9 DEF Ho!Named
    <3>2. slots' = [r EXCEPT ![k] = << n, f >>]
      BY <1>1, <1>9 DEF Ho!AddCustomHook
    <3> HIDE DEF k
    <3> QED BY <3>1, <3>2
  <2>2. size' = size
    BY <1>1, <1>9 DEF Ho!AddCustomHook
  <2>3. k \in 1 .. Len(r) /\ \A i \in 1 .. size : i \in 1 .. Len(r)
    BY <1>2, <1>4
  <2>4. slots' \in Seq(HookSlot) /\ Len(slots') = Len(r)
    <3>1. [r EXCEPT ![k] = << n, f >>] \in Seq(HookSlot)
      BY <1>7, <2>3, ExceptSeq
    <3>2. Len([r EXCEPT ![k] = << n, f >>]) = Len(r)
      BY <1>7, <2>3, ExceptSeq
    <3> QED BY <2>1, <3>1, <3>2
  <2>5. slots'[k] = << n, f >> /\ \A i \in 1 .. size : i # k => slots'[i] = r[i]
    BY <1>3, <2>1, <2>3
  <2>6. HookTypes'
    BY <1>2, <1>4, <1>6, <2>2, <2>4 DEF HookTypes
  <2>7. Latest(slots', hooked')
    BY <1>5, <1>6, <1>7, <1>8, <2>1, <2>5 DEF Latest
  <2>8. \A i \in 1 .. size : slots'[i][1] = r[i][1]
    BY <2>1, <2>5
  <2>9. OneSlot' /\ InSlot'
    <3>1. \A m \in Symbols : hooked'[m] # NotHooked => \E i \in 1 .. size : r[i][1] = m
      BY <1>5, <1>8, <2>1
    <3> QED BY <1>8, <2>2, <2>8, <3>1 DEF OneSlot, InSlot
  <2> QED BY <2>2, <2>6, <2>7, <2>9 DEF Latest
<1>10. CASE Ho!Named(r, n) = {}
  <2> DEFINE s == [i \in DOMAIN r |-> IF i = size + 1 THEN << n, f >> ELSE r[i]]
  <2>1. slots' = s /\ size' = size + 1
    BY <1>1, <1>10 DEF Ho!AddCustomHook
  <2>2. s \in [1 .. Len(r) -> HookSlot]
    BY <1>3, <1>7
  <2>3. s \in Seq(HookSlot) /\ Len(s) = Len(r)
    BY <1>2, <2>2, SeqDef, LenProperties
  <2>4. \A i \in 1 .. size + 1 : i \in 1 .. Len(r)
    BY <1>2, <1>4
  <2>5. s[size + 1] = << n, f >> /\ \A i \in 1 .. size : i \in 1 .. size + 1 /\ s[i] = r[i]
    BY <1>3, <1>4, <2>4
  <2> HIDE DEF s
  <2>6. HookTypes'
    BY <1>2, <1>4, <1>6, <2>1, <2>3 DEF HookTypes
  <2>7. \A i \in 1 .. size : r[i][1] # n
    BY <1>10 DEF Ho!Named
  <2>8. \A i \in 1 .. size + 1 : i = size + 1 \/ i \in 1 .. size
    BY <1>4
  <2>9. \A i \in 1 .. size + 1 :
          s[i] \in Symbols \X HostFuncs /\ s[i][2] = hooked'[s[i][1]]
    BY <1>5, <1>6, <1>7, <1>8, <2>5, <2>7, <2>8
  <2>10. \A i, j \in 1 .. size + 1 : s[i][1] = s[j][1] => i = j
    BY <1>8, <2>5, <2>7, <2>8
  <2>11. ASSUME NEW m \in Symbols, hooked'[m] # NotHooked
         PROVE  \E i \in 1 .. size + 1 : s[i][1] = m
    <3>1. CASE m = n
      <4>1. size + 1 \in 1 .. size + 1
        BY <1>4
      <4> QED BY <2>5, <3>1, <4>1
    <3>2. CASE m # n
      BY <1>5, <1>8, <2>5, <2>11, <3>2
    <3> QED BY <3>1, <3>2
  <2> QED BY <2>1, <2>6, <2>9, <2>10, <2>11 DEF Latest, OneSlot, InSlot
<1> QED BY <1>9, <1>10

(* The invariant gives the linker the right function.                      *)
LEMMA HookInvFound == HookInv => Ho!HooksFound
<1> SUFFICES ASSUME HookInv PROVE Ho!HooksFound
  OBVIOUS
<1>1. size <= Len(slots)
  BY DEF HookInv, HookTypes
<1>2. ASSUME NEW n \in Symbols
      PROVE  Ho!GetHookedSymbol(n) = IF hooked[n] # NotHooked THEN hooked[n]
                                     ELSE IF n \in Ho!ToSet(Ho!Hooks) THEN Ho!Target(n)
                                     ELSE NotHooked
  <2>1. CASE Ho!Named(slots, n) # {}
    <3>1. PICK k \in 1 .. size : /\ slots[k][1] = n
                                 /\ Ho!GetHookedSymbol(n) = slots[k][2]
      <4> DEFINE k == CHOOSE i \in Ho!Named(slots, n) : TRUE
      <4>1. k \in 1 .. size /\ slots[k][1] = n
        BY <2>1 DEF Ho!Named
      <4>2. Ho!GetHookedSymbol(n) = slots[k][2]
        BY <2>1 DEF Ho!GetHookedSymbol
      <4> HIDE DEF k
      <4> QED BY <4>1, <4>2
    <3>2. slots[k] \in Symbols \X HostFuncs /\ slots[k][2] = hooked[slots[k][1]]
      BY DEF HookInv, Latest
    <3>3. hooked[n] \in HostFuncs /\ hooked[n] # NotHooked
      BY <3>1, <3>2, HooksOfTheHost DEF Ho!HooksAssumption
    <3> QED BY <3>1, <3>2, <3>3
  <2>2. CASE Ho!Named(slots, n) = {}
    <3>1. hooked[n] = NotHooked
      BY <2>2 DEF HookInv, InSlot, Ho!Named
    <3> QED BY <2>2, <3>1 DEF Ho!GetHookedSymbol
  <2> QED BY <2>1, <2>2
<1> QED BY <1>1, <1>2 DEF Ho!HooksFound

(* Hooks, among the other services: the invariant.                         *)
LEMMA HookInvariance == Spec => []HookInv
<1>1. Init => HookInv
  <2> SUFFICES ASSUME Ho!Init PROVE HookInv
    BY DEF Init
  <2>1. slots = << >> /\ size = 0 /\ adds = 0 /\ hooked = [n \in Symbols |-> NotHooked]
    BY DEF Ho!Init
  <2>2. slots \in Seq(HookSlot) /\ Len(slots) = 0
    BY <2>1, EmptySeq
  <2>3. HookTypes
    BY <2>1, <2>2, HooksOfTheHost DEF HookTypes, Ho!HooksAssumption
  <2> QED BY <2>1, <2>3 DEF HookInv, Latest, OneSlot, InSlot
<1>2. HookInv /\ [Next]_vars => HookInv'
  <2> SUFFICES ASSUME HookInv, [Next]_vars PROVE HookInv'
    OBVIOUS
  <2>1. CASE Ho!Next
    BY <2>1, HookStep DEF Ho!Next
  <2>2. CASE UNCHANGED hookVars
    BY <2>2 DEF hookVars, HookInv, HookTypes, Latest, OneSlot, InSlot
  <2> QED BY <2>1, <2>2, StepOfEach
<1> QED BY <1>1, <1>2, PTL DEF Spec

(* The linker gets the function a name was hooked to last, and the array   *)
(* has room.  That the constant tables name each symbol once is no         *)
(* question of the behaviour: TLC computes TablesExact.                    *)
THEOREM ServicesHooks ==
  ASSUME Ho!TablesExact PROVE Spec => []HooksFoundRight
<1>1. HookInv => HooksFoundRight
  BY HookInvFound DEF HooksFoundRight, Ho!HooksRight
<1> QED BY <1>1, HookInvariance, PTL

-----------------------------------------------------------------------------
(* The Windows futex.  The list holds the live entries, one per address;   *)
(* an entry is live as long as a wait between its look-up and its clean-up *)
(* refers to it, and counts those waits; both ends happen under the mutex. *)
(* A semaphore has lost a unit at most for each wait that got past it, so  *)
(* it has some left while there are fewer waits than units.                *)
FutexPoints == {"idle", "get", "in get", "wait", "wake", "cleanup", "in cleanup"}
Refers(t) == futexPc[t] \in {"wait", "cleanup", "in cleanup"}
FutexEntry == [addr : Addrs, refs : Nat, count : 0 .. SemMax, sem : {"made", "NULL"},
               state : {"free", "live"}]
Live(e) == entry[e].state = "live"

FutexTypes ==
  /\ ftx \in [Addrs -> Fu!Values] /\ locks \in Seq(Entries)
  /\ entry \in [Entries -> FutexEntry] /\ futexMtx \in FewThreads \cup {NoOwner}
  /\ futexPc \in [FewThreads -> FutexPoints]
  /\ futexOp \in [FewThreads -> Fu!Waits \cup Fu!Wakes \cup {Fu!NoOp}]
  /\ futexLock \in [FewThreads -> Entries \cup {Fu!NoEntry}]
  /\ waits \in 0 .. MaxWaits
FutexPlaces ==
  \A t \in FewThreads :
    /\ futexPc[t] \in {"in get", "in cleanup"} => futexMtx = t
    /\ futexPc[t] \in {"get", "in get"} => futexOp[t] # Fu!NoOp
    /\ futexPc[t] = "wake" => futexOp[t] \in Fu!Wakes /\ futexLock[t] \in Entries
    /\ Refers(t) => futexOp[t] \in Fu!Waits /\ futexLock[t] \in Entries
Listing ==
  /\ \A e \in Entries : Live(e) <=> \E i \in 1 .. Len(locks) : locks[i] = e
  /\ \A i, j \in 1 .. Len(locks) : locks[i] = locks[j] => i = j
OneEntry == \A e, f \in Entries : Live(e) /\ Live(f) /\ entry[e].addr = entry[f].addr => e = f
Counted ==
  \A e \in Entries :
    entry[e].refs = Cardinality(Fu!Referring(e)) /\ (Live(e) <=> entry[e].refs > 0)
Ahead == { t \in FewThreads : futexOp[t] \in Fu!Waits /\ futexPc[t] \in {"get", "in get", "wait"} }
Units ==
  /\ Cardinality(Ahead) <= waits
  /\ \A e \in Entries : Live(e) => entry[e].count + waits >= SemMax + Cardinality(Ahead)

FutexInv == FutexTypes /\ FutexPlaces /\ Listing /\ OneEntry /\ Counted /\ Units

(* The sets of threads that are counted are finite.                        *)
LEMMA FutexSets ==
  ASSUME NEW S \in SUBSET FewThreads
  PROVE  /\ IsFiniteSet(S) /\ Cardinality(S) \in Nat /\ Fu!Cardinality(S) = Cardinality(S)
         /\ \A t \in FewThreads :
              /\ Cardinality(S \cup {t}) = IF t \in S THEN Cardinality(S) ELSE Cardinality(S) + 1
              /\ Cardinality(S \ {t}) = IF t \in S THEN Cardinality(S) - 1 ELSE Cardinality(S)
         /\ Cardinality(S) = 0 <=> S = {}
<1>1. IsFiniteSet(FewThreads)
  BY SemaphoresOfAddresses DEF Fu!FutexAssumption, Fu!IsFiniteSet, IsFiniteSet
<1>2. IsFiniteSet(S)
  BY <1>1, FS_Subset
<1>3. Cardinality(S) \in Nat
  BY <1>2, FS_CardinalityType
<1>4. Fu!Cardinality(S) = Cardinality(S)
  BY DEF Fu!Cardinality, Cardinality
<1> QED BY <1>2, <1>3, <1>4, FS_AddElement, FS_RemoveElement, FS_EmptySet

(* What a call is can be read off its name.                                *)
LEMMA FutexCallNames ==
  /\ \A o \in Fu!Waits : o.call = "wait" /\ o # Fu!NoOp /\ o.addr \in Addrs
  /\ \A o \in Fu!Wakes : o.call = "wake" /\ o # Fu!NoOp /\ o.addr \in Addrs
  /\ Fu!NoOp.call = "none"
  /\ Fu!Waits \cap Fu!Wakes = {} /\ Fu!NoOp \notin Fu!Waits \cup Fu!Wakes
<1>1. \A o \in Fu!Waits : o.call = "wait" /\ o.addr \in Addrs
  BY DEF Fu!Waits
<1>2. \A o \in Fu!Wakes : o.call = "wake" /\ o.addr \in Addrs
  BY DEF Fu!Wakes
<1>3. Fu!NoOp.call = "none"
  BY DEF Fu!NoOp
<1> QED BY <1>1, <1>2, <1>3

(* The numbers in the invariant, and what the constants are.               *)
LEMMA FutexNumbers ==
  ASSUME FutexInv
  PROVE  /\ Ahead \in SUBSET FewThreads /\ Cardinality(Ahead) \in Nat
         /\ waits \in Nat /\ waits <= MaxWaits
         /\ SemMax \in Nat /\ MaxWaits \in Nat /\ MaxWaits < SemMax /\ NoOwner \notin FewThreads
         /\ \A e \in Entries : entry[e] \in FutexEntry /\ entry[e].count \in Nat
<1>1. Ahead \in SUBSET FewThreads
  BY DEF Ahead
<1>2. Cardinality(Ahead) \in Nat
  BY <1>1, FutexSets
<1>3. /\ SemMax \in Nat /\ MaxWaits \in Nat /\ MaxWaits < SemMax /\ NoOwner \notin FewThreads
  BY SemaphoresOfAddresses DEF Fu!FutexAssumption
<1>4. waits \in Nat /\ waits <= MaxWaits
  BY <1>3 DEF FutexInv, FutexTypes
<1>5. \A e \in Entries : entry[e] \in FutexEntry /\ entry[e].count \in Nat
  BY <1>3 DEF FutexInv, FutexTypes, FutexEntry
<1> QED BY <1>1, <1>2, <1>3, <1>4, <1>5

(* What the steps of a thread that do not move the list have in common:    *)
(* the entries stay where they are and who refers to them stays the same.  *)
LEMMA FutexQuiet ==
  ASSUME FutexInv, FutexTypes', FutexPlaces', Units', UNCHANGED locks,
         \A e \in Entries :
           /\ entry'[e].refs = entry[e].refs /\ entry'[e].state = entry[e].state
           /\ entry'[e].addr = entry[e].addr,
         \A u \in FewThreads : (Refers(u)' <=> Refers(u)) /\ (Refers(u) => futexLock'[u] = futexLock[u])
  PROVE  FutexInv'
<1>1. \A e \in Entries : Live(e)' = Live(e)
  BY DEF Live
<1>2. Listing' /\ OneEntry'
  BY <1>1 DEF FutexInv, Listing, OneEntry
<1>3. \A e \in Entries : Fu!Referring(e)' = Fu!Referring(e)
  BY DEF Fu!Referring, Refers
<1>4. Counted'
  BY <1>1, <1>3 DEF FutexInv, Counted
<1> QED BY <1>2, <1>4 DEF FutexInv

(* Nobody else is in the section that the mutex protects.                  *)
LEMMA FutexAlone ==
  ASSUME FutexInv, NEW t \in FewThreads, futexPc[t] \in {"in get", "in cleanup"}
  PROVE  \A u \in FewThreads : u # t => futexPc[u] \notin {"in get", "in cleanup"}
BY DEF FutexInv, FutexPlaces

(* Calling in and asking for the mutex.                                    *)
LEMMA FutexCalls ==
  ASSUME FutexInv, NEW t \in FewThreads,
         \/ \E o \in Fu!Wakes : Fu!CallWake(t, o)
         \/ \E o \in Fu!Waits : Fu!CallWait(t, o)
         \/ Fu!LockMtx(t)
  PROVE  FutexInv'
<1> USE DEF FutexInv
<1>A. /\ Ahead \in SUBSET FewThreads /\ Cardinality(Ahead) \in Nat
      /\ waits \in Nat /\ MaxWaits \in Nat
  BY FutexNumbers
<1>1. CASE \E o \in Fu!Wakes : Fu!CallWake(t, o)
  <2>1. PICK o \in Fu!Wakes : Fu!CallWake(t, o)
    BY <1>1
  <2>2. /\ futexPc[t] = "idle" /\ ftx' = [ftx EXCEPT ![o.addr] = 1 - @]
        /\ futexOp' = [futexOp EXCEPT ![t] = o] /\ futexPc' = [futexPc EXCEPT ![t] = "get"]
        /\ UNCHANGED << locks, entry, futexMtx, futexLock, waits >>
    BY <2>1 DEF Fu!CallWake, Fu!Goto
  <2>3. o \notin Fu!Waits /\ o # Fu!NoOp /\ o.addr \in Addrs
    BY DEF Fu!Waits, Fu!Wakes, Fu!NoOp
  <2>4. ftx' \in [Addrs -> Fu!Values]
    BY <2>2, <2>3 DEF FutexTypes, Fu!Values
  <2>5. FutexTypes'
    BY <2>2, <2>4 DEF FutexTypes, FutexPoints
  <2>6. FutexPlaces'
    BY <2>2, <2>3 DEF FutexPlaces, FutexTypes, Refers
  <2>7. Ahead' = Ahead
    BY <2>2, <2>3 DEF Ahead, FutexTypes
  <2>8. Units'
    BY <2>2, <2>7 DEF Units, Live
  <2>9. \A u \in FewThreads : (Refers(u)' <=> Refers(u)) /\ futexLock'[u] = futexLock[u]
    BY <2>2 DEF FutexTypes, Refers
  <2> QED BY <2>2, <2>5, <2>6, <2>8, <2>9, FutexQuiet
<1>2. CASE \E o \in Fu!Waits : Fu!CallWait(t, o)
  <2>1. PICK o \in Fu!Waits : Fu!CallWait(t, o)
    BY <1>2
  <2>2. /\ futexPc[t] = "idle" /\ waits < MaxWaits /\ waits' = waits + 1
        /\ futexOp' = [futexOp EXCEPT ![t] = o] /\ futexPc' = [futexPc EXCEPT ![t] = "get"]
        /\ UNCHANGED << ftx, locks, entry, futexMtx, futexLock >>
    BY <2>1 DEF Fu!CallWait, Fu!Goto
  <2>3. o # Fu!NoOp /\ MaxWaits \in Nat
    BY SemaphoresOfAddresses DEF Fu!Waits, Fu!NoOp, Fu!FutexAssumption
  <2>4. FutexTypes'
    <3>1. waits' \in 0 .. MaxWaits
      BY <1>A, <2>2
    <3> QED BY <2>2, <3>1 DEF FutexTypes, FutexPoints
  <2>5. FutexPlaces'
    BY <2>2, <2>3 DEF FutexPlaces, FutexTypes, Refers
  <2>6. Ahead' = Ahead \cup {t} /\ t \notin Ahead
    BY <2>2 DEF Ahead, FutexTypes
  <2>7. Cardinality(Ahead') = Cardinality(Ahead) + 1
    BY <1>A, <2>6, FutexSets
  <2>8. Units'
    BY <1>A, <2>2, <2>3, <2>7, SemaphoresOfAddresses
    DEF Units, Live, FutexTypes, FutexEntry, Fu!FutexAssumption
  <2>9. \A u \in FewThreads : (Refers(u)' <=> Refers(u)) /\ futexLock'[u] = futexLock[u]
    BY <2>2 DEF FutexTypes, Refers
  <2> QED BY <2>2, <2>4, <2>5, <2>8, <2>9, FutexQuiet
<1>3. CASE Fu!LockMtx(t)
  <2>1. /\ futexPc[t] \in {"get", "cleanup"} /\ futexMtx = NoOwner /\ futexMtx' = t
        /\ futexPc' = [futexPc EXCEPT ![t] =
                         IF futexPc[t] = "get" THEN "in get" ELSE "in cleanup"]
        /\ UNCHANGED << ftx, locks, entry, futexOp, futexLock, waits >>
    BY <1>3 DEF Fu!LockMtx, Fu!Goto
  <2>2. /\ futexPc[t] = "get" => futexPc'[t] = "in get"
        /\ futexPc[t] = "cleanup" => futexPc'[t] = "in cleanup"
        /\ \A u \in FewThreads : u # t => futexPc'[u] = futexPc[u]
    BY <2>1 DEF FutexTypes
  <2>3. FutexTypes'
    BY <2>1 DEF FutexTypes, FutexPoints
  <2>4. NoOwner \notin FewThreads
    BY SemaphoresOfAddresses DEF Fu!FutexAssumption
  <2>5. FutexPlaces'
    BY <2>1, <2>2, <2>4 DEF FutexPlaces, Refers
  <2>6. Ahead' = Ahead
    BY <2>1, <2>2 DEF Ahead
  <2>7. Units'
    BY <2>1, <2>6 DEF Units, Live
  <2>8. \A u \in FewThreads : (Refers(u)' <=> Refers(u))
    BY <2>1, <2>2 DEF Refers, FutexTypes
  <2> QED BY <2>1, <2>3, <2>5, <2>7, <2>8, FutexQuiet
<1> QED BY <1>1, <1>2, <1>3

(* Leaving the look-up without an entry, the look-up of a wake, the wake   *)
(* and the end of the wait.                                                *)
LEMMA FutexMoves ==
  ASSUME FutexInv, NEW t \in FewThreads,
         \/ Fu!GetFails(t) \/ Fu!GetForWake(t) \/ Fu!WaitTimesOut(t)
         \/ Fu!Wake(t) \/ Fu!WaitSemaphore(t)
  PROVE  FutexInv'
<1> USE DEF FutexInv
<1>A. /\ Ahead \in SUBSET FewThreads /\ Cardinality(Ahead) \in Nat
      /\ waits \in Nat /\ SemMax \in Nat /\ NoOwner \notin FewThreads
  BY FutexNumbers
<1>B. \A e \in Entries : entry[e] \in FutexEntry /\ entry[e].count \in Nat
  BY FutexNumbers
<1>1. CASE Fu!GetFails(t)
  <2>1. /\ futexPc[t] = "in get" /\ futexOp[t].call = "wait" /\ futexMtx' = NoOwner
        /\ futexPc' = [futexPc EXCEPT ![t] = "idle"]
        /\ futexOp' = [futexOp EXCEPT ![t] = Fu!NoOp]
        /\ futexLock' = [futexLock EXCEPT ![t] = Fu!NoEntry]
        /\ UNCHANGED << ftx, locks, entry, waits >>
    BY <1>1 DEF Fu!GetFails, Fu!Return, Fu!Goto
  <2>2. FutexTypes'
    BY <2>1 DEF FutexTypes, FutexPoints
  <2>3. FutexPlaces'
    BY <1>A, <2>1, FutexAlone, FutexCallNames DEF FutexPlaces, FutexTypes, Refers
  <2>4. Ahead' = Ahead \ {t}
    BY <2>1, FutexCallNames DEF Ahead, FutexTypes
  <2>5. Cardinality(Ahead') \in Nat /\ Cardinality(Ahead') <= Cardinality(Ahead)
    <3>1. Ahead \ {t} \in SUBSET FewThreads
      BY <1>A
    <3>2. Cardinality(Ahead \ {t}) \in Nat
      BY <3>1, FutexSets
    <3>3. Cardinality(Ahead \ {t}) <= Cardinality(Ahead)
      BY <1>A, FutexSets
    <3> QED BY <2>4, <3>2, <3>3
  <2>6. Units'
    <3>1. Cardinality(Ahead') <= waits'
      <4>1. Cardinality(Ahead) <= waits /\ waits' = waits
        BY <2>1 DEF Units
      <4> QED BY <1>A, <2>5, <4>1
    <3>2. ASSUME NEW e \in Entries, Live(e)'
          PROVE  entry'[e].count + waits' >= SemMax + Cardinality(Ahead')
      <4>1. Live(e) /\ entry'[e].count = entry[e].count /\ waits' = waits
        BY <2>1, <3>2 DEF Live
      <4>2. entry[e].count + waits >= SemMax + Cardinality(Ahead)
        BY <4>1 DEF Units
      <4> QED BY <1>A, <1>B, <2>5, <4>1, <4>2
    <3> QED BY <3>1, <3>2 DEF Units
  <2>7. \A u \in FewThreads : (Refers(u)' <=> Refers(u)) /\ (Refers(u) => futexLock'[u] = futexLock[u])
    BY <2>1 DEF FutexTypes, Refers
  <2> QED BY <2>1, <2>2, <2>3, <2>6, <2>7, FutexQuiet
<1>2. CASE Fu!GetForWake(t)
  <2>1. /\ futexPc[t] = "in get" /\ futexOp[t].call = "wake" /\ futexMtx' = NoOwner
        /\ UNCHANGED << ftx, locks, entry, waits >>
    BY <1>2 DEF Fu!GetForWake
  <2>2. futexOp[t] \in Fu!Wakes
    BY <2>1, FutexCallNames DEF FutexTypes, FutexPlaces
  <2>3. CASE Fu!Found(futexOp[t].addr) = {}
    <3>1. /\ futexPc' = [futexPc EXCEPT ![t] = "idle"]
          /\ futexOp' = [futexOp EXCEPT ![t] = Fu!NoOp]
          /\ futexLock' = [futexLock EXCEPT ![t] = Fu!NoEntry]
      BY <1>2, <2>3 DEF Fu!GetForWake, Fu!Return, Fu!Goto
    <3>2. FutexTypes'
      BY <2>1, <3>1 DEF FutexTypes, FutexPoints
    <3>3. FutexPlaces'
      BY <1>A, <2>1, <3>1, FutexAlone, FutexCallNames DEF FutexPlaces, FutexTypes, Refers
    <3>4. Ahead' = Ahead
      BY <2>1, <2>2, <3>1, FutexCallNames DEF Ahead, FutexTypes
    <3>5. Units'
      BY <2>1, <3>4 DEF Units, Live
    <3>6. \A u \in FewThreads : (Refers(u)' <=> Refers(u)) /\ (Refers(u) => futexLock'[u] = futexLock[u])
      BY <2>1, <3>1 DEF FutexTypes, Refers
    <3> QED BY <2>1, <3>2, <3>3, <3>5, <3>6, FutexQuiet
  <2>4. CASE Fu!Found(futexOp[t].addr) # {}
    <3>1. PICK e \in Fu!Found(futexOp[t].addr) :
            futexLock' = [futexLock EXCEPT ![t] = e] /\ Fu!Goto(t, "wake")
            /\ UNCHANGED futexOp
      BY <1>2, <2>4 DEF Fu!GetForWake
    <3>2. futexPc' = [futexPc EXCEPT ![t] = "wake"]
      BY <3>1 DEF Fu!Goto
    <3>3. e \in Entries
      BY SMTT(20), <3>1, LenProperties, ElementOfSeq DEF Fu!Found, Fu!ToSet, FutexTypes
    <3>4. FutexTypes'
      BY <2>1, <3>1, <3>2, <3>3 DEF FutexTypes, FutexPoints
    <3>5. FutexPlaces'
      BY <1>A, <2>1, <2>2, <3>1, <3>2, <3>3, FutexAlone, FutexCallNames DEF FutexPlaces, FutexTypes, Refers
    <3>6. Ahead' = Ahead
      BY <2>1, <2>2, <3>1, <3>2, FutexCallNames DEF Ahead, FutexTypes
    <3>7. Units'
      BY <2>1, <3>6 DEF Units, Live
    <3>8. \A u \in FewThreads : (Refers(u)' <=> Refers(u)) /\ (Refers(u) => futexLock'[u] = futexLock[u])
      BY <2>1, <3>1, <3>2 DEF FutexTypes, Refers
    <3> QED BY <2>1, <3>4, <3>5, <3>7, <3>8, FutexQuiet
  <2> QED BY <2>3, <2>4
<1>3. CASE Fu!WaitTimesOut(t)
  <2>1. /\ futexPc[t] = "wait" /\ futexPc' = [futexPc EXCEPT ![t] = "cleanup"]
        /\ UNCHANGED << ftx, locks, entry, futexMtx, futexOp, futexLock, waits >>
    BY <1>3 DEF Fu!WaitTimesOut, Fu!Goto
  <2>2. FutexTypes' /\ FutexPlaces'
    BY <2>1 DEF FutexTypes, FutexPlaces, FutexPoints, Refers
  <2>3. Ahead' = Ahead \ {t}
    BY <2>1 DEF Ahead, FutexTypes
  <2>4. Cardinality(Ahead') \in Nat /\ Cardinality(Ahead') <= Cardinality(Ahead)
    <3>1. Ahead \ {t} \in SUBSET FewThreads
      BY <1>A
    <3>2. Cardinality(Ahead \ {t}) \in Nat
      BY <3>1, FutexSets
    <3>3. Cardinality(Ahead \ {t}) <= Cardinality(Ahead)
      BY <1>A, FutexSets
    <3> QED BY <2>3, <3>2, <3>3
  <2>5. Units'
    BY SMTT(20), <1>A, <1>B, <2>1, <2>4 DEF Units, Live
  <2>6. \A u \in FewThreads : (Refers(u)' <=> Refers(u)) /\ futexLock'[u] = futexLock[u]
    BY <2>1 DEF FutexTypes, Refers
  <2> QED BY <2>1, <2>2, <2>5, <2>6, FutexQuiet
<1>4. CASE Fu!Wake(t)
  <2>1. PICK e \in Fu!Handles(futexLock[t]) :
          /\ entry' = IF Fu!Room(e) THEN [entry EXCEPT ![e].count = @ + 1] ELSE entry
          /\ \/ UNCHANGED << futexPc, futexOp, futexLock >>
             \/ Fu!Return(t)
    BY <1>4 DEF Fu!Wake
  <2>2. futexPc[t] = "wake" /\ UNCHANGED << ftx, locks, futexMtx, waits >>
    BY <1>4 DEF Fu!Wake
  <2>3. /\ entry' \in [Entries -> FutexEntry]
        /\ \A f \in Entries :
             /\ entry'[f].refs = entry[f].refs /\ entry'[f].state = entry[f].state
             /\ entry'[f].addr = entry[f].addr /\ entry'[f].count >= entry[f].count
    <3>1. /\ entry \in [Entries -> FutexEntry]
          /\ \A f \in Entries : entry[f] \in FutexEntry /\ entry[f].count \in Nat
      BY <1>B DEF FutexTypes
    <3>2. CASE ~Fu!Room(e)
      BY <2>1, <3>1, <3>2
    <3>3. CASE Fu!Room(e)
      <4>1. e \in Entries /\ entry[e].count \in 0 .. SemMax /\ entry[e].count < SemMax
        BY <3>1, <3>3 DEF Fu!Room, FutexEntry
      <4>2. PICK n \in 0 .. SemMax : n = entry[e].count + 1
        BY <1>A, <4>1
      <4>3. entry' = [entry EXCEPT ![e].count = n]
        BY <2>1, <3>3, <4>2
      <4>4. entry'[e] = [entry[e] EXCEPT !.count = n]
        BY <3>1, <4>1, <4>3
      <4>5. \A f \in Entries : f # e => entry'[f] = entry[f]
        BY <3>1, <4>3
      <4>6. /\ entry'[e] \in FutexEntry /\ entry'[e].refs = entry[e].refs
            /\ entry'[e].state = entry[e].state /\ entry'[e].addr = entry[e].addr
            /\ entry'[e].count >= entry[e].count
        BY <1>A, <3>1, <4>1, <4>2, <4>4 DEF FutexEntry
      <4>7. entry' \in [Entries -> FutexEntry]
        BY <3>1, <4>1, <4>3, <4>6
      <4> QED BY <3>1, <4>5, <4>6, <4>7
    <3> QED BY <3>2, <3>3
  <2>4. futexOp[t] \in Fu!Wakes /\ futexLock[t] \in Entries
    BY <2>2 DEF FutexPlaces
  <2>5. Ahead' = Ahead => Units'
    <3>1. \A f \in Entries : entry'[f].count \in Nat
      BY <1>A, <2>3 DEF FutexEntry
    <3> QED BY <1>A, <1>B, <2>2, <2>3, <3>1 DEF Units, Live
  <2>6. CASE UNCHANGED << futexPc, futexOp, futexLock >>
    <3>1. FutexTypes' /\ FutexPlaces'
      BY <2>2, <2>3, <2>6 DEF FutexTypes, FutexPlaces, Refers
    <3>2. Ahead' = Ahead
      BY <2>6 DEF Ahead
    <3>3. \A u \in FewThreads : (Refers(u)' <=> Refers(u)) /\ futexLock'[u] = futexLock[u]
      BY <2>6 DEF Refers
    <3> QED BY <2>2, <2>3, <2>5, <3>1, <3>2, <3>3, FutexQuiet
  <2>7. CASE Fu!Return(t)
    <3>1. /\ futexPc' = [futexPc EXCEPT ![t] = "idle"]
          /\ futexOp' = [futexOp EXCEPT ![t] = Fu!NoOp]
          /\ futexLock' = [futexLock EXCEPT ![t] = Fu!NoEntry]
      BY <2>7 DEF Fu!Return, Fu!Goto
    <3>2. FutexTypes'
      BY <2>2, <2>3, <3>1 DEF FutexTypes, FutexPoints
    <3>3. FutexPlaces'
      BY <2>2, <3>1 DEF FutexPlaces, FutexTypes, Refers
    <3>4. Ahead' = Ahead
      BY <2>2, <2>4, <3>1, FutexCallNames DEF Ahead, FutexTypes
    <3>5. \A u \in FewThreads :
            (Refers(u)' <=> Refers(u)) /\ (Refers(u) => futexLock'[u] = futexLock[u])
      BY <2>2, <3>1 DEF FutexTypes, Refers
    <3> QED BY <2>2, <2>3, <2>5, <3>2, <3>3, <3>4, <3>5, FutexQuiet
  <2> QED BY <2>1, <2>6, <2>7
<1>5. CASE Fu!WaitSemaphore(t)
  <2> DEFINE e == futexLock[t]
  <2>1. /\ futexPc[t] = "wait" /\ futexPc' = [futexPc EXCEPT ![t] = "cleanup"]
        /\ UNCHANGED << ftx, locks, futexMtx, futexOp, futexLock, waits >>
    BY <1>5 DEF Fu!WaitSemaphore, Fu!Goto
  <2>2. e \in Entries /\ futexOp[t] \in Fu!Waits /\ t \in Ahead
    BY <2>1 DEF FutexPlaces, Refers, Ahead
  <2>7. /\ entry' \in [Entries -> FutexEntry]
        /\ \A f \in Entries :
             /\ entry'[f].refs = entry[f].refs /\ entry'[f].state = entry[f].state
             /\ entry'[f].addr = entry[f].addr
             /\ entry'[f].count \in Nat /\ entry'[f].count >= entry[f].count - 1
    <3>1. CASE entry[e].sem # "made"
      <4>1. entry' = entry
        BY <1>5, <3>1 DEF Fu!WaitSemaphore
      <4> QED BY <1>B, <4>1 DEF FutexTypes
    <3>2. CASE entry[e].sem = "made"
      <4>1. entry[e].count > 0 /\ entry' = [entry EXCEPT ![e].count = @ - 1]
        BY <1>5, <3>2 DEF Fu!WaitSemaphore
      <4>2. PICK c \in 1 .. SemMax : c = entry[e].count
        BY <1>A, <1>B, <2>2, <4>1 DEF FutexEntry
      <4>3. entry' = [entry EXCEPT ![e].count = c - 1]
        BY <4>1, <4>2
      <4>4. /\ entry'[e] = [entry[e] EXCEPT !.count = c - 1]
            /\ \A f \in Entries : f # e => entry'[f] = entry[f]
        BY <2>2, <4>3 DEF FutexTypes
      <4>5. /\ entry'[e] \in FutexEntry /\ entry'[e].refs = entry[e].refs
            /\ entry'[e].state = entry[e].state /\ entry'[e].addr = entry[e].addr
            /\ entry'[e].count = c - 1
        BY <1>A, <1>B, <2>2, <4>2, <4>4 DEF FutexEntry
      <4>6. entry' \in [Entries -> FutexEntry]
        BY <2>2, <4>3, <4>5 DEF FutexTypes
      <4>7. ASSUME NEW f \in Entries
            PROVE  /\ entry'[f].refs = entry[f].refs /\ entry'[f].state = entry[f].state
                   /\ entry'[f].addr = entry[f].addr
                   /\ entry'[f].count \in Nat /\ entry'[f].count >= entry[f].count - 1
        <5>1. CASE f = e
          BY <4>2, <4>5, <5>1
        <5>2. CASE f # e
          BY <1>B, <4>4, <5>2
        <5> QED BY <5>1, <5>2
      <4> QED BY <4>6, <4>7
    <3> QED BY <3>1, <3>2
  <2>8. FutexTypes' /\ FutexPlaces'
    BY <2>1, <2>7 DEF FutexTypes, FutexPlaces, FutexPoints, Refers
  <2>9. Ahead' = Ahead \ {t}
    BY <2>1 DEF Ahead, FutexTypes
  <2>10. Cardinality(Ahead') = Cardinality(Ahead) - 1
    BY <1>A, <2>2, <2>9, FutexSets
  <2>11. Units'
    BY <1>A, <1>B, <2>1, <2>7, <2>10 DEF Units, Live
  <2>12. \A u \in FewThreads : (Refers(u)' <=> Refers(u)) /\ futexLock'[u] = futexLock[u]
    BY <2>1 DEF FutexTypes, Refers
  <2> QED BY <2>1, <2>7, <2>8, <2>11, <2>12, FutexQuiet
<1> QED BY <1>1, <1>2, <1>3, <1>4, <1>5

(* The last reference takes the entry out of the list.                     *)
LEMMA FutexCleanup ==
  ASSUME FutexInv, NEW t \in FewThreads, Fu!Cleanup(t)
  PROVE  FutexInv'
<1> USE DEF FutexInv
<1>1. PICK e \in Entries : e = futexLock[t] /\ futexPc[t] = "in cleanup"
  BY DEF Fu!Cleanup, FutexPlaces, Refers
<1>2. /\ futexMtx' = NoOwner /\ futexPc' = [futexPc EXCEPT ![t] = "idle"]
      /\ futexOp' = [futexOp EXCEPT ![t] = Fu!NoOp]
      /\ futexLock' = [futexLock EXCEPT ![t] = Fu!NoEntry]
      /\ UNCHANGED << ftx, waits >>
  BY DEF Fu!Cleanup, Fu!Return, Fu!Goto
<1>A. /\ Ahead \in SUBSET FewThreads /\ Cardinality(Ahead) \in Nat
      /\ waits \in Nat /\ SemMax \in Nat /\ NoOwner \notin FewThreads
      /\ \A f \in Entries : entry[f] \in FutexEntry /\ entry[f].count \in Nat
  BY FutexNumbers
<1>3. /\ Fu!Referring(e) \in SUBSET FewThreads /\ t \in Fu!Referring(e)
      /\ \A f \in Entries : Fu!Referring(f) \in SUBSET FewThreads
  BY <1>1 DEF Fu!Referring
<1>4. PICK n \in Nat : entry[e].refs = n + 1 /\ Cardinality(Fu!Referring(e)) = n + 1
  <2>1. Cardinality(Fu!Referring(e)) \in Nat /\ Cardinality(Fu!Referring(e)) # 0
    BY <1>3, FutexSets
  <2>2. Cardinality(Fu!Referring(e)) - 1 \in Nat
    BY <2>1
  <2> QED BY <2>1, <2>2 DEF Counted
<1>5. Live(e)
  BY <1>4 DEF Counted
<1>6. /\ Fu!Referring(e)' = Fu!Referring(e) \ {t}
      /\ \A f \in Entries : f # e => Fu!Referring(f)' = Fu!Referring(f)
  <2>1. \A u \in FewThreads : u # t => futexLock'[u] = futexLock[u] /\ futexPc'[u] = futexPc[u]
    BY <1>2 DEF FutexTypes
  <2>2. futexPc'[t] = "idle"
    BY <1>2 DEF FutexTypes
  <2> QED BY <1>1, <2>1, <2>2 DEF Fu!Referring
<1>7. Cardinality(Fu!Referring(e)') = n
  BY <1>3, <1>4, <1>6, FutexSets
<1>B. /\ locks' = IF entry[e].refs = 1 THEN Fu!RemoveFirst(locks, e) ELSE locks
      /\ entry' = [entry EXCEPT ![e].refs = @ - 1,
                                ![e].state = IF entry[e].refs = 1 THEN "free" ELSE @]
  BY <1>1 DEF Fu!Cleanup
<1>C. entry[e].refs = 1 <=> n = 0
  BY <1>4
<1>8. entry'[e] = [entry[e] EXCEPT !.refs = entry[e].refs - 1,
                                   !.state = IF entry[e].refs = 1 THEN "free" ELSE entry[e].state]
  BY <1>A, <1>B DEF FutexTypes, FutexEntry
<1>9. /\ entry'[e].refs = n /\ entry'[e].addr = entry[e].addr
      /\ entry'[e].count = entry[e].count /\ entry'[e] \in FutexEntry
      /\ entry'[e].state = IF n = 0 THEN "free" ELSE "live"
      /\ \A f \in Entries : f # e => entry'[f] = entry[f]
      /\ entry' \in [Entries -> FutexEntry]
  <2>1. entry[e] \in FutexEntry /\ entry[e].state = "live"
    BY <1>5 DEF FutexTypes, Live
  <2>2. \A f \in Entries : f # e => entry'[f] = entry[f]
    BY <1>B DEF FutexTypes
  <2>3. /\ entry'[e].refs = n /\ entry'[e].addr = entry[e].addr
        /\ entry'[e].count = entry[e].count
        /\ entry'[e].state = IF n = 0 THEN "free" ELSE "live"
    <3>1. /\ entry'[e].refs = entry[e].refs - 1
          /\ entry'[e].addr = entry[e].addr /\ entry'[e].count = entry[e].count
      BY <1>8, <2>1 DEF FutexEntry
    <3>2. entry'[e].state = IF entry[e].refs = 1 THEN "free" ELSE entry[e].state
      BY <1>8, <2>1 DEF FutexEntry
    <3>3. entry'[e].refs = n
      BY <1>4, <3>1
    <3> QED BY <1>C, <2>1, <3>1, <3>2, <3>3
  <2>4. entry'[e] \in FutexEntry
    BY <1>8, <2>1, <2>3 DEF FutexEntry
  <2>5. entry' \in [Entries -> FutexEntry]
    BY <1>B, <2>2, <2>4 DEF FutexTypes
  <2> QED BY <2>2, <2>3, <2>4, <2>5
<1>10. /\ Live(e)' <=> n # 0
       /\ \A f \in Entries : f # e => (Live(f)' <=> Live(f))
  BY <1>9 DEF Live
<1>11. Counted'
  <2>1. ASSUME NEW f \in Entries
        PROVE  entry'[f].refs = Cardinality(Fu!Referring(f)') /\ (Live(f)' <=> entry'[f].refs > 0)
    <3>1. CASE f = e
      BY <1>7, <1>9, <1>10, <3>1
    <3>2. CASE f # e
      BY <1>6, <1>9, <1>10, <3>2 DEF Counted
    <3> QED BY <3>1, <3>2
  <2> QED BY <2>1 DEF Counted
<1>12. OneEntry'
  <2>1. \A f \in Entries : (Live(f)' => Live(f)) /\ entry'[f].addr = entry[f].addr
    BY <1>5, <1>9, <1>10
  <2> QED BY <2>1 DEF OneEntry
<1>13. Listing' /\ locks' \in Seq(Entries)
  <2>1. CASE n # 0
    <3>1. locks' = locks
      BY <1>B, <1>C, <2>1
    <3>2. \A f \in Entries : Live(f)' <=> Live(f)
      BY <1>5, <1>10, <2>1
    <3> QED BY <3>1, <3>2 DEF Listing, FutexTypes
  <2>2. CASE n = 0
    <3>1. locks' = Fu!RemoveFirst(locks, e)
      BY <1>B, <1>C, <2>2
    <3>2. locks \in Seq(Entries) /\ Len(locks) \in Nat
      BY LenProperties DEF FutexTypes
    <3>3. PICK k \in 1 .. Len(locks) : locks[k] = e
      BY <1>5 DEF Listing
    <3>4. { i \in 1 .. Len(locks) : locks[i] = e } = {k}
      BY <3>3 DEF Listing
    <3>5. Fu!Min({k}) = k
      BY SMTT(20), <3>2 DEF Fu!Min
    <3>6. Fu!RemoveFirst(locks, e) = Without(locks, k)
      BY <3>3, <3>4, <3>5 DEF Fu!RemoveFirst, Fu!SelectInSeq, Fu!RemoveAt, Without
    <3> DEFINE r == Without(locks, k)
    <3>7. /\ Len(r) \in Nat /\ r \in Seq(Entries)
          /\ \A i \in 1 .. Len(r) :
               Past(i, k) \in 1 .. Len(locks) /\ Past(i, k) # k /\ r[i] = locks[Past(i, k)]
          /\ \A i, j \in 1 .. Len(r) : Past(i, k) = Past(j, k) => i = j
          /\ \A j \in 1 .. Len(locks) : j # k => \E i \in 1 .. Len(r) : r[i] = locks[j]
      <4>1. Without(locks, k) \in Seq(Entries)
        BY <3>2, TakenOut
      <4>2. /\ Len(r) \in Nat
            /\ \A i \in 1 .. Len(r) :
                 Past(i, k) \in 1 .. Len(locks) /\ Past(i, k) # k /\ r[i] = locks[Past(i, k)]
        BY <3>2, TakenOutPlaces
      <4>3. \A i, j \in 1 .. Len(r) : Past(i, k) = Past(j, k) => i = j
        BY <3>2, TakenOutPlaces
      <4>4. \A j \in 1 .. Len(locks) : j # k => \E i \in 1 .. Len(r) : r[i] = locks[j]
        BY <3>2, TakenOutPlaces
      <4> HIDE DEF r
      <4> QED BY <4>1, <4>2, <4>3, <4>4 DEF r
    <3> HIDE DEF r
    <3>8. locks' = r
      BY <3>1, <3>6 DEF r
    <3>9. ASSUME NEW f \in Entries PROVE Live(f)' <=> \E i \in 1 .. Len(r) : r[i] = f
      <4>1. CASE f = e
        <5>1. ASSUME NEW i \in 1 .. Len(r) PROVE r[i] # e
          <6>1. Past(i, k) \in 1 .. Len(locks) /\ Past(i, k) # k /\ r[i] = locks[Past(i, k)]
            BY <3>7
          <6> QED BY <3>3, <6>1 DEF Listing
        <5> QED BY <1>10, <2>2, <4>1, <5>1
      <4>2. CASE f # e
        <5>1. Live(f)' <=> \E j \in 1 .. Len(locks) : locks[j] = f
          BY <1>10, <4>2 DEF Listing
        <5>2. (\E j \in 1 .. Len(locks) : locks[j] = f) <=> \E i \in 1 .. Len(r) : r[i] = f
          BY SMTT(20), <3>3, <3>7, <4>2
        <5> QED BY <5>1, <5>2
      <4> QED BY <4>1, <4>2
    <3>10. ASSUME NEW i \in 1 .. Len(r), NEW j \in 1 .. Len(r), r[i] = r[j]
           PROVE  i = j
      <4>1. /\ Past(i, k) \in 1 .. Len(locks) /\ Past(j, k) \in 1 .. Len(locks)
            /\ locks[Past(i, k)] = locks[Past(j, k)]
        BY <3>7, <3>10
      <4>2. Past(i, k) = Past(j, k)
        BY <4>1 DEF Listing
      <4> QED BY <3>7, <4>2
    <3> QED BY <3>7, <3>8, <3>9, <3>10 DEF Listing
  <2> QED BY <2>1, <2>2
<1>14. FutexTypes'
  BY <1>2, <1>9, <1>13 DEF FutexTypes, FutexPoints
<1>15. FutexPlaces'
  BY <1>A, <1>1, <1>2, FutexAlone, FutexCallNames DEF FutexPlaces, FutexTypes, Refers
<1>16. Ahead' = Ahead
  BY <1>1, <1>2, FutexCallNames DEF Ahead, FutexTypes
<1>17. Units'
  <2>1. \A f \in Entries : (Live(f)' => Live(f)) /\ entry'[f].count = entry[f].count
    BY <1>5, <1>9, <1>10
  <2> QED BY <1>2, <1>16, <2>1 DEF Units
<1> QED BY <1>11, <1>12, <1>13, <1>14, <1>15, <1>17

(* The look-up of a wait: one more reference to the entry of the address,  *)
(* or a new entry at the end of the list.                                  *)
LEMMA FutexGet ==
  ASSUME FutexInv, NEW t \in FewThreads, Fu!GetForWait(t)
  PROVE  FutexInv'
<1> USE DEF FutexInv
<1>A. /\ Ahead \in SUBSET FewThreads /\ Cardinality(Ahead) \in Nat
      /\ waits \in Nat /\ SemMax \in Nat /\ NoOwner \notin FewThreads
      /\ \A f \in Entries : entry[f] \in FutexEntry /\ entry[f].count \in Nat
  BY FutexNumbers
<1>1. /\ futexPc[t] = "in get" /\ futexOp[t].call = "wait" /\ futexMtx' = NoOwner
      /\ UNCHANGED << ftx, waits >>
  BY DEF Fu!GetForWait
<1>2. futexOp[t] \in Fu!Waits /\ futexOp[t].addr \in Addrs
  BY <1>1, FutexCallNames DEF FutexTypes, FutexPlaces
<1>3. PICK e \in Entries, c \in 0 .. SemMax, n \in Nat, m \in {"made", "NULL"} :
        /\ futexLock' = [futexLock EXCEPT ![t] = e] /\ Fu!Goto(t, "wait") /\ UNCHANGED futexOp
        /\ entry[e].refs = n
        /\ entry' = [entry EXCEPT ![e] =
                       [addr |-> futexOp[t].addr, refs |-> n + 1, sem |-> m, count |-> c,
                        state |-> "live"]]
        /\ \/ /\ Live(e) /\ entry[e].addr = futexOp[t].addr /\ c = entry[e].count
              /\ locks' = locks
           \/ /\ ~Live(e) /\ c = SemMax /\ n = 0 /\ locks' = Append(locks, e)
              /\ \A f \in Entries : Live(f) => entry[f].addr # futexOp[t].addr
  <2>1. \A f : f \in Fu!Found(futexOp[t].addr) <=>
               f \in Entries /\ Live(f) /\ entry[f].addr = futexOp[t].addr
    <3>1. \A f : f \in Fu!ToSet(locks) <=> \E i \in 1 .. Len(locks) : locks[i] = f
      BY LenProperties DEF Fu!ToSet, FutexTypes
    <3>2. \A i \in 1 .. Len(locks) : locks[i] \in Entries
      BY LenProperties, ElementOfSeq DEF FutexTypes
    <3>3. \A f : f \in Fu!ToSet(locks) <=> f \in Entries /\ Live(f)
      BY <3>1, <3>2 DEF Listing
    <3> QED BY <3>3 DEF Fu!Found
  <2>2. CASE Fu!Found(futexOp[t].addr) # {}
    <3>1. PICK e \in Fu!Found(futexOp[t].addr) :
            /\ entry' = [entry EXCEPT ![e].refs = @ + 1]
            /\ futexLock' = [futexLock EXCEPT ![t] = e] /\ Fu!Goto(t, "wait")
            /\ UNCHANGED << locks, futexOp >>
      BY <2>2 DEF Fu!GetForWait
    <3>2. e \in Entries /\ Live(e) /\ entry[e].addr = futexOp[t].addr
      BY <2>1, <3>1
    <3>3. PICK c \in 0 .. SemMax, n \in Nat, m \in {"made", "NULL"} :
            c = entry[e].count /\ n = entry[e].refs /\ m = entry[e].sem
      BY <1>A, <3>2 DEF FutexEntry
    <3>4. [entry[e] EXCEPT !.refs = n + 1] =
            [addr |-> futexOp[t].addr, refs |-> n + 1, sem |-> m, count |-> c,
             state |-> "live"]
      BY SMTT(20), <1>A, <3>2, <3>3 DEF FutexEntry, Live
    <3>5. entry' = [entry EXCEPT ![e] = [entry[e] EXCEPT !.refs = n + 1]]
      BY <3>1, <3>3
    <3>6. entry' = [entry EXCEPT ![e] =
                      [addr |-> futexOp[t].addr, refs |-> n + 1, sem |-> m, count |-> c,
                       state |-> "live"]]
      BY <3>4, <3>5
    <3> e \in Entries
      BY <3>2
    <3> WITNESS e \in Entries, c \in 0 .. SemMax, n \in Nat, m \in {"made", "NULL"}
    <3> QED BY <3>1, <3>2, <3>3, <3>6
  <2>3. CASE Fu!Found(futexOp[t].addr) = {}
    <3>1. PICK e \in Entries, m \in {"made", "NULL"} :
            /\ entry[e].state = "free"
            /\ entry' = [entry EXCEPT ![e] = [addr |-> futexOp[t].addr, refs |-> 1,
                                             sem |-> m, count |-> SemMax, state |-> "live"]]
            /\ locks' = Append(locks, e)
            /\ futexLock' = [futexLock EXCEPT ![t] = e] /\ Fu!Goto(t, "wait")
            /\ UNCHANGED futexOp
      BY <2>3 DEF Fu!GetForWait
    <3>2. e \in Entries /\ ~Live(e)
      BY <3>1 DEF Live
    <3>3. entry[e].refs = 0
      BY <1>A, <3>2 DEF Counted, FutexEntry
    <3>4. SemMax \in 0 .. SemMax /\ 0 \in Nat /\ 1 = 0 + 1
      BY <1>A
    <3>5. \A f \in Entries : Live(f) => entry[f].addr # futexOp[t].addr
      BY <2>1, <2>3
    <3>6. entry' = [entry EXCEPT ![e] =
                      [addr |-> futexOp[t].addr, refs |-> 0 + 1, sem |-> m,
                       count |-> SemMax, state |-> "live"]]
      BY <3>1, <3>4
    <3> e \in Entries /\ SemMax \in 0 .. SemMax /\ 0 \in Nat
      BY <3>2, <3>4
    <3> WITNESS e \in Entries, SemMax \in 0 .. SemMax, 0 \in Nat, m \in {"made", "NULL"}
    <3> QED BY <3>1, <3>2, <3>3, <3>5, <3>6
  <2> QED BY <2>2, <2>3
<1>4. /\ entry'[e] = [addr |-> futexOp[t].addr, refs |-> n + 1, sem |-> m, count |-> c,
                      state |-> "live"]
      /\ \A f \in Entries : f # e => entry'[f] = entry[f]
      /\ Live(e)' /\ \A f \in Entries : f # e => (Live(f)' <=> Live(f))
  BY <1>3 DEF FutexTypes, Live
<1>5. entry'[e] \in FutexEntry /\ entry' \in [Entries -> FutexEntry]
  <2>1. entry'[e] \in FutexEntry
    BY <1>2, <1>4 DEF FutexEntry
  <2> QED BY <1>3, <1>4, <2>1 DEF FutexTypes
<1>6. /\ futexPc'[t] = "wait" /\ futexLock'[t] = e
      /\ \A u \in FewThreads : u # t => futexPc'[u] = futexPc[u] /\ futexLock'[u] = futexLock[u]
      /\ futexPc' \in [FewThreads -> FutexPoints]
      /\ futexLock' \in [FewThreads -> Entries \cup {Fu!NoEntry}]
      /\ futexOp' = futexOp
  BY <1>3 DEF Fu!Goto, FutexTypes, FutexPoints
<1>7. /\ Fu!Referring(e)' = Fu!Referring(e) \cup {t} /\ t \notin Fu!Referring(e)
      /\ \A f \in Entries : f # e => Fu!Referring(f)' = Fu!Referring(f)
      /\ Fu!Referring(e) \in SUBSET FewThreads
  BY <1>1, <1>6 DEF Fu!Referring
<1>8. Counted'
  <2>1. Cardinality(Fu!Referring(e)') = n + 1
    BY <1>3, <1>7, FutexSets DEF Counted
  <2>2. ASSUME NEW f \in Entries
        PROVE  entry'[f].refs = Cardinality(Fu!Referring(f)') /\ (Live(f)' <=> entry'[f].refs > 0)
    <3>1. CASE f = e
      BY <1>4, <2>1, <3>1
    <3>2. CASE f # e
      BY <1>4, <1>7, <3>2 DEF Counted
    <3> QED BY <3>1, <3>2
  <2> QED BY <2>2 DEF Counted
<1>9. OneEntry'
  <2>1. ASSUME NEW f \in Entries, f # e, Live(f) PROVE entry[f].addr # futexOp[t].addr
    BY <1>3, <2>1 DEF OneEntry
  <2>2. entry'[e].addr = futexOp[t].addr
    BY <1>4
  <2> QED BY <1>4, <2>1, <2>2 DEF OneEntry
<1>10. Listing' /\ locks' \in Seq(Entries)
  <2>1. CASE Live(e)
    <3>1. locks' = locks /\ \A f \in Entries : Live(f)' <=> Live(f)
      BY <1>3, <1>4, <2>1
    <3> QED BY <3>1 DEF Listing, FutexTypes
  <2>2. CASE ~Live(e)
    <3> DEFINE r == Append(locks, e)
    <3>1. locks' = r
      BY <1>3, <2>2
    <3>2. locks \in Seq(Entries) /\ Len(locks) \in Nat
      BY LenProperties DEF FutexTypes
    <3>3. /\ r \in Seq(Entries) /\ Len(r) = Len(locks) + 1 /\ r[Len(locks) + 1] = e
          /\ \A i \in 1 .. Len(locks) : r[i] = locks[i]
      BY <3>2, AppendProperties
    <3> HIDE DEF r
    <3>4. \A i \in 1 .. Len(r) : i = Len(locks) + 1 \/ i \in 1 .. Len(locks)
      BY <3>2, <3>3
    <3>5. \A i \in 1 .. Len(locks) : locks[i] # e /\ i \in 1 .. Len(r)
      BY <2>2, <3>2, <3>3 DEF Listing
    <3>6. Len(locks) + 1 \in 1 .. Len(r)
      BY <3>2, <3>3
    <3>7. \A f \in Entries : Live(f)' <=> \E i \in 1 .. Len(r) : r[i] = f
      BY SMTT(40), <1>4, <3>3, <3>4, <3>5, <3>6 DEF Listing
    <3>8. \A i, j \in 1 .. Len(r) : r[i] = r[j] => i = j
      BY <3>3, <3>4, <3>5 DEF Listing
    <3> QED BY <3>1, <3>3, <3>7, <3>8 DEF Listing
  <2> QED BY <2>1, <2>2
<1>11. FutexTypes'
  BY <1>1, <1>5, <1>6, <1>10 DEF FutexTypes
<1>12. FutexPlaces'
  BY <1>A, <1>1, <1>2, <1>6, FutexAlone, FutexCallNames DEF FutexPlaces, Refers
<1>13. Ahead' = Ahead
  BY <1>1, <1>6 DEF Ahead
<1>14. Units'
  <2>2. entry'[e].count = c
    BY <1>4
  <2>1. ASSUME NEW f \in Entries, Live(f)'
        PROVE  entry'[f].count + waits' >= SemMax + Cardinality(Ahead)
    <3>1. CASE f # e
      BY <1>1, <1>4, <2>1, <3>1 DEF Units
    <3>2. CASE f = e /\ Live(e)
      <4>1. entry'[f].count = entry[f].count /\ waits' = waits
        BY <1>1, <1>3, <2>2, <3>2
      <4> QED BY <3>2, <4>1 DEF Units
    <3>3. CASE f = e /\ ~Live(e)
      <4>1. entry'[f].count = SemMax /\ waits' = waits /\ Cardinality(Ahead) <= waits
        BY <1>1, <1>3, <2>2, <3>3 DEF Units
      <4> QED BY <1>A, <4>1
    <3> QED BY <3>1, <3>2, <3>3
  <2> QED BY <1>1, <1>13, <2>1 DEF Units
<1> QED BY <1>8, <1>9, <1>10, <1>11, <1>12, <1>14

(* The Windows futex, among the other services: the invariant.             *)
LEMMA FutexInvariance == Spec => []FutexInv
<1>1. Init => FutexInv
  <2> SUFFICES ASSUME Fu!Init PROVE FutexInv
    BY DEF Init
  <2>1. /\ ftx \in [Addrs -> {0}] /\ locks = << >> /\ futexMtx = NoOwner /\ waits = 0
        /\ entry = [e \in Entries |->
                      [addr |-> CHOOSE a \in Addrs : TRUE, refs |-> 0, sem |-> "NULL",
                       count |-> SemMax, state |-> "free"]]
        /\ futexPc = [t \in FewThreads |-> "idle"] /\ futexOp = [t \in FewThreads |-> Fu!NoOp]
        /\ futexLock = [t \in FewThreads |-> Fu!NoEntry]
    BY DEF Fu!Init
  <2>2. Addrs # {} /\ SemMax \in Nat /\ MaxWaits \in Nat
    BY SemaphoresOfAddresses DEF Fu!FutexAssumption
  <2>3. entry \in [Entries -> FutexEntry]
    BY <2>1, <2>2 DEF FutexEntry
  <2>4. ftx \in [Addrs -> Fu!Values] /\ locks \in Seq(Entries) /\ waits \in 0 .. MaxWaits
    BY <2>1, <2>2, EmptySeq DEF Fu!Values
  <2>5. FutexTypes /\ FutexPlaces
    BY <2>1, <2>3, <2>4 DEF FutexTypes, FutexPlaces, FutexPoints, Refers
  <2>6. \A e \in Entries : entry[e].refs = 0 /\ ~Live(e)
    BY <2>1 DEF Live
  <2>7. Len(locks) = 0
    BY <2>1, EmptySeq
  <2>8. Listing /\ OneEntry
    BY <2>6, <2>7 DEF Listing, OneEntry
  <2>9. \A e \in Entries : Fu!Referring(e) = {}
    BY <2>1 DEF Fu!Referring
  <2>10. Cardinality({}) = 0
    BY FS_EmptySet
  <2>11. Counted
    BY <2>6, <2>9, <2>10 DEF Counted
  <2>12. Ahead = {}
    BY <2>1 DEF Ahead
  <2>13. Units
    BY <2>1, <2>6, <2>10, <2>12 DEF Units
  <2> QED BY <2>5, <2>8, <2>11, <2>13 DEF FutexInv
<1>2. FutexInv /\ [Next]_vars => FutexInv'
  <2> SUFFICES ASSUME FutexInv, [Next]_vars PROVE FutexInv'
    OBVIOUS
  <2>1. CASE Fu!Next
    BY <2>1, FutexCalls, FutexMoves, FutexCleanup, FutexGet DEF Fu!Next, Fu!Inside
  <2>2. CASE UNCHANGED futexVars
    <3>1. UNCHANGED << ftx, locks, entry, futexMtx, futexPc, futexOp, futexLock, waits >>
      BY <2>2 DEF futexVars
    <3>2. FutexTypes' /\ FutexPlaces' /\ Units'
      BY <3>1 DEF FutexInv, FutexTypes, FutexPlaces, Refers, Units, Ahead, Live
    <3> QED BY <3>1, <3>2, FutexQuiet DEF Refers
  <2> QED BY <2>1, <2>2, StepOfEach
<1> QED BY <1>1, <1>2, PTL DEF Spec

(* An address has one entry, there as long as a wait refers to it, and no  *)
(* waiter stands at a semaphore without units.                             *)
THEOREM ServicesFutex == Spec => []FutexEntriesExact
<1>1. FutexInv => Fu!EntriesExact
  <2> SUFFICES ASSUME FutexInv PROVE Fu!EntriesExact
    OBVIOUS
  <2> USE DEF FutexInv
  <2>1. DOMAIN locks = 1 .. Len(locks) /\ \A i \in 1 .. Len(locks) : locks[i] \in Entries
    BY LenProperties, ElementOfSeq DEF FutexTypes
  <2>2. Fu!IsInjective(locks)
    BY <2>1 DEF Fu!IsInjective, Listing
  <2>3. \A e : e \in Fu!ToSet(locks) <=> e \in Entries /\ Live(e)
    BY <2>1 DEF Fu!ToSet, Listing
  <2>4. \A e, f \in Fu!ToSet(locks) : entry[e].addr = entry[f].addr => e = f
    BY <2>3 DEF OneEntry
  <2>5. ASSUME NEW e \in Entries
        PROVE  /\ e \in Fu!ToSet(locks) <=> Fu!Live(e)
               /\ entry[e].refs = Fu!Cardinality(Fu!Referring(e))
               /\ e \in Fu!ToSet(locks) <=> entry[e].refs > 0
    <3>1. Fu!Referring(e) \in SUBSET FewThreads
      BY DEF Fu!Referring
    <3>2. Fu!Cardinality(Fu!Referring(e)) = Cardinality(Fu!Referring(e))
      BY <3>1, FutexSets
    <3> QED BY <2>3, <3>2 DEF Counted, Live, Fu!Live
  <2>6. ASSUME NEW t \in FewThreads, futexPc[t] = "wait" PROVE entry[futexLock[t]].count > 0
    <3>1. futexLock[t] \in Entries /\ t \in Fu!Referring(futexLock[t])
      BY <2>6 DEF FutexPlaces, Refers, Fu!Referring
    <3>2. /\ Fu!Referring(futexLock[t]) \in SUBSET FewThreads
          /\ Fu!Referring(futexLock[t]) # {}
      BY <3>1 DEF Fu!Referring
    <3>3. /\ Cardinality(Fu!Referring(futexLock[t])) \in Nat
          /\ Cardinality(Fu!Referring(futexLock[t])) # 0
      BY <3>2, FutexSets
    <3>4. Live(futexLock[t])
      BY <3>1, <3>3 DEF Counted
    <3>5. entry[futexLock[t]].count + waits >= SemMax + Cardinality(Ahead)
      BY <3>1, <3>4 DEF Units
    <3>6. entry[futexLock[t]].count \in Nat /\ waits <= MaxWaits /\ MaxWaits < SemMax
      BY <3>1, FutexNumbers
    <3> QED BY SMTT(20), <3>5, <3>6, FutexNumbers
  <2> QED BY <2>2, <2>4, <2>5, <2>6 DEF Fu!EntriesExact
<1> QED BY <1>1, FutexInvariance, PTL DEF FutexEntriesExact

-----------------------------------------------------------------------------
(* The type invariant of all the services.                                 *)
THEOREM ServicesTypes == Spec => []ServicesTypeOK
<1>1. CoP!Spec => []CoP!TypeOK
  BY SameCond, CoP!TypeCorrect
<1>2. ThP!Spec => []ThP!TypeOK
  BY SameThreads, ThP!TypeCorrect
<1>3. FutexInv => Fu!TypeOK
  <2>1. FutexTypes => (Fu!ToSet(locks) \subseteq Entries)
    BY LenProperties, ElementOfSeq DEF FutexTypes, Fu!ToSet
  <2> QED BY <2>1 DEF FutexInv, FutexTypes, Fu!TypeOK
<1>4. ExitInv => At!TypeOK
  BY DEF ExitInv, ExitTypes, Entry, At!TypeOK
<1>5. KeyInv => Ke!TypeOK
  <2> SUFFICES ASSUME KeyInv PROVE Ke!TypeOK
    OBVIOUS
  <2>1. MaxKeys \in Nat /\ created \in 0 .. MaxKeys /\ keyAt \in [Indexes -> 0 .. created]
    BY BoundOnKeys DEF KeyInv, KeyTypes, Ke!KeysAssumption
  <2>2. 0 .. created \subseteq Ke!Keys \cup {0}
    BY <2>1 DEF Ke!Keys
  <2>3. keyAt \in [Indexes -> Ke!Keys \cup {0}]
    BY <2>1, <2>2
  <2> QED BY <2>3 DEF KeyInv, KeyTypes, Node, Called, Ke!TypeOK
<1>6. HookInv => Ho!TypeOK
  <2> SUFFICES ASSUME HookInv PROVE Ho!TypeOK
    OBVIOUS
  <2>1. DOMAIN slots = 1 .. Len(slots)
    BY LenProperties DEF HookInv, HookTypes
  <2>2. MaxHooks \in Nat
    BY HooksOfTheHost DEF Ho!HooksAssumption
  <2>3. size \in 0 .. MaxHooks
    BY <2>2 DEF HookInv, HookTypes
  <2> QED BY <2>1, <2>3 DEF HookInv, HookTypes, Ho!TypeOK
<1>7. /\ CoP!TypeOK /\ ThP!TypeOK /\ FutexInv /\ ExitInv /\ KeyInv /\ HookInv
      => ServicesTypeOK
  BY <1>3, <1>4, <1>5, <1>6, SameCond, SameThreads DEF ServicesTypeOK
<1> QED BY <1>1, <1>2, <1>7, CondSpec, ThreadSpec, FutexInvariance, ExitInvariance,
           KeyInvariance, HookInvariance, PTL
=============================================================================
