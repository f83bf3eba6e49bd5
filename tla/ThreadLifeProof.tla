-------------------------- MODULE ThreadLifeProof --------------------------
(***************************************************************************)
(* Thread identifiers, for every size of the bitmap and of its words and   *)
(* every set of threads: a thread between acquire and release has an       *)
(* identifier of its own.  And the Windows records: each is freed and its  *)
(* handle closed once, by the side that should.                            *)
(***************************************************************************)
EXTENDS ThreadLife, TLAPS

Searching == {"scan", "cas", "nap"}
Points == Searching \cup {"none", "got", "setup", "run", "destructors", "ended"}

(* What the place of a thread says about its locals.                       *)
LocalInv ==
  \A t \in Threads :
    /\ pc[t] \in Searching \cup {"none"} => tid[t] = 0
    /\ pc[t] \in Searching => cand[t] \in 2 .. MaxId /\ tries[t] < Tries
    /\ pc[t] = "none" => tries[t] = 0
    /\ pc[t] = "cas" => cand[t] \in word[t]
    /\ pc[t] \in {"setup", "run"} => tid[t] # 0

IInv == TypeOK /\ pc \in [Threads -> Points] /\ LocalInv /\ IdsExact

(* The inductive invariant holds at first: of the bits only the main       *)
(* thread's and a leaked one are clear (android_thread_id_init).           *)
LEMMA InitIInv ==
  ASSUME IdsAssumption, Init
  PROVE  IInv
<1> USE DEF IdsAssumption, Init
<1>1. TypeOK
  BY DEF TypeOK, Ids
<1>2. pc \in [Threads -> Points] /\ LocalInv
  BY DEF Points, Searching, LocalInv
<1>3. IdsExact
  <2>1. Holding = {}
    BY DEF Holding
  <2>2. { tid[t] : t \in Holding } = {}
    BY <2>1
  <2>3. {1} \cup leaked \subseteq Ids
    BY DEF Ids
  <2>4. Ids \ free = {1} \cup leaked
    BY <2>3
  <2> QED BY <2>1, <2>2, <2>4 DEF IdsExact
<1> QED BY <1>1, <1>2, <1>3 DEF IInv

(* A step that leaves bitmap, identifiers and leaks alone, and moves       *)
(* nobody in or out of the places where an identifier is held.             *)
LEMMA IdsSame ==
  ASSUME IdsExact, UNCHANGED << free, tid, leaked >>, Holding' = Holding
  PROVE  IdsExact'
BY DEF IdsExact, Ids

(* The search moves on, naps, or fails: nobody's identifier changes.       *)
LEMMA SearchStep ==
  ASSUME IdsAssumption, IInv, NEW t \in Threads, Scan(t) \/ Nap(t)
  PROVE  IInv'
<1> USE DEF IInv, IdsAssumption
<1>1. /\ cand' \in [Threads -> Ids] /\ word' \in [Threads -> SUBSET Ids]
      /\ tries' \in [Threads -> 0 .. Tries] /\ pc' \in [Threads -> Points]
  <2>1. CASE Scan(t)
    <3>1. 2 \in Ids /\ (cand[t] # MaxId /\ cand[t] \in 2 .. MaxId => cand[t] + 1 \in Ids)
      BY DEF Ids
    <3>2. cand[t] \in 2 .. MaxId
      BY <2>1 DEF Scan, LocalInv, Searching
    <3>3. cand' \in [Threads -> Ids]
      BY ZenonT(60), <2>1, <3>1, <3>2 DEF Scan, TypeOK
    <3>4. word' \in [Threads -> SUBSET Ids]
      BY ZenonT(60), <2>1 DEF Scan, TypeOK
    <3> QED BY <2>1, <3>3, <3>4 DEF Scan, Goto, TypeOK, Points, Searching
  <2>2. CASE Nap(t)
    <3>1. pc[t] = "nap"
      BY <2>2 DEF Nap
    <3>2. tries[t] \in 0 .. Tries
      BY DEF TypeOK
    <3>3. tries[t] < Tries
      BY <3>1 DEF LocalInv, Searching
    <3>4. tries[t] + 1 \in 0 .. Tries
      BY <3>2, <3>3
    <3> QED BY <2>2, <3>4 DEF Nap, Goto, TypeOK, Points, Searching
  <2> QED BY <2>1, <2>2
<1>2. TypeOK'
  BY <1>1 DEF Scan, Nap, TypeOK, record, Ids
<1>3. LocalInv'
  <2>1. CASE Scan(t)
    <3>1. cand[t] \in 2 .. MaxId /\ tries[t] < Tries /\ tid[t] = 0
      BY <2>1 DEF Scan, LocalInv, Searching
    <3>2. CASE cand[t] \in free
      <4>1. cand[t] \in free \cap WordOf(cand[t])
        BY <3>1, <3>2 DEF WordOf, Ids
      <4>2. cand' = cand /\ word' = [word EXCEPT ![t] = free \cap WordOf(cand[t])]
            /\ pc' = [pc EXCEPT ![t] = "cas"] /\ UNCHANGED << tid, tries >>
        BY <2>1, <3>2 DEF Scan, Goto
      <4> QED BY <3>1, <4>1, <4>2 DEF TypeOK, LocalInv, Searching
    <3>3. CASE cand[t] \notin free
      <4>1. cand' = [cand EXCEPT ![t] = IF cand[t] = MaxId THEN 2 ELSE cand[t] + 1]
            /\ pc' = [pc EXCEPT ![t] = IF cand[t] = MaxId THEN "nap" ELSE "scan"]
            /\ UNCHANGED << tid, tries, word >>
        BY <2>1, <3>3 DEF Scan, Goto
      <4>2. cand'[t] = IF cand[t] = MaxId THEN 2 ELSE cand[t] + 1
        BY <4>1 DEF TypeOK
      <4>3. cand'[t] \in 2 .. MaxId
        <5>1. CASE cand[t] = MaxId
          BY <4>2, <5>1
        <5>2. CASE cand[t] # MaxId
          BY <3>1, <4>2, <5>2
        <5> QED BY <5>1, <5>2
      <4> QED BY <3>1, <4>1, <4>3 DEF TypeOK, LocalInv, Searching
    <3> QED BY <3>2, <3>3
  <2>2. CASE Nap(t)
    <3>1. /\ tries' = [tries EXCEPT ![t] = tries[t] + 1]
          /\ pc' = [pc EXCEPT ![t] = IF tries[t] + 1 = Tries THEN "got" ELSE "scan"]
          /\ UNCHANGED << tid, cand, word >> /\ pc[t] = "nap"
      BY <2>2 DEF Nap, Goto
    <3>2. tid[t] = 0 /\ cand[t] \in 2 .. MaxId /\ tries[t] < Tries
      BY <3>1 DEF LocalInv, Searching
    <3>3. tries[t] \in 0 .. Tries
      BY DEF TypeOK
    <3>4. pc'[t] = "scan" => tries'[t] < Tries
      <4>1. tries'[t] = tries[t] + 1
        BY <3>1 DEF TypeOK
      <4>2. CASE tries[t] + 1 = Tries
        BY <3>1, <4>2
      <4>3. CASE tries[t] + 1 # Tries
        BY <3>2, <3>3, <4>1, <4>3
      <4> QED BY <4>2, <4>3
    <3> QED BY <3>1, <3>2, <3>4 DEF TypeOK, LocalInv, Searching
  <2> QED BY <2>1, <2>2
<1>4. IdsExact'
  <2>1. UNCHANGED << free, tid, leaked >>
    BY DEF Scan, Nap
  <2>2. Holding' = Holding
    <3>1. tid[t] = 0 /\ pc[t] \in Searching /\ (pc'[t] = "got" \/ pc'[t] \in Searching)
      BY DEF Scan, Nap, Goto, LocalInv, Searching
    <3>2. \A u \in Threads : u # t => pc'[u] = pc[u]
      BY DEF Scan, Nap, Goto
    <3> QED BY <2>1, <3>1, <3>2 DEF Holding, Searching
  <2> QED BY <2>1, <2>2, IdsSame
<1> QED BY <1>1, <1>2, <1>3, <1>4

(* The compare-and-exchange: it succeeds only on the word that was read,   *)
(* so the bit is still set and becomes this thread's alone.                *)
LEMMA AllocStep ==
  ASSUME IdsAssumption, IInv, NEW t \in Threads, Alloc(t)
  PROVE  IInv'
<1> USE DEF IInv, IdsAssumption
<1>1. CASE free \cap WordOf(cand[t]) = word[t]
  <2>1. /\ free' = free \ {cand[t]} /\ tid' = [tid EXCEPT ![t] = cand[t]]
        /\ pc[t] = "cas" /\ pc' = [pc EXCEPT ![t] = "got"]
        /\ cand' = [cand EXCEPT ![t] = 0] /\ tries' = [tries EXCEPT ![t] = 0]
        /\ word' = [word EXCEPT ![t] = {}]
        /\ UNCHANGED << platform, leaked, detached, joined, handle, block >>
    BY <1>1 DEF Alloc, Goto, record
  <2>2. cand[t] \in free /\ cand[t] \in 2 .. MaxId /\ cand[t] \in Ids
    BY <1>1, <2>1 DEF LocalInv, Searching, TypeOK
  <2>3. TypeOK'
    <3>1. /\ free' \subseteq Ids /\ tid' \in [Threads -> Ids]
          /\ word' \in [Threads -> SUBSET Ids]
      BY <2>1, <2>2 DEF TypeOK
    <3>2. cand' \in [Threads -> Ids] /\ tries' \in [Threads -> 0 .. Tries]
      <4>1. 0 \in Ids /\ 0 \in 0 .. Tries
        BY DEF Ids
      <4> QED BY <2>1, <4>1 DEF TypeOK
    <3> QED BY <2>1, <3>1, <3>2 DEF TypeOK, Ids
  <2>4. pc' \in [Threads -> Points]
    BY <2>1 DEF Points, Searching
  <2>5. LocalInv'
    BY <2>1, <2>2 DEF TypeOK, LocalInv, Searching
  <2>6. IdsExact'
    <3>1. Holding' = Holding \cup {t} /\ t \notin Holding
      <4>1. tid[t] = 0
        BY <2>1 DEF LocalInv, Searching
      <4>2. tid'[t] # 0 /\ pc'[t] = "got"
        <5>1. tid'[t] = cand[t] /\ pc'[t] = "got"
          BY <2>1 DEF TypeOK
        <5>2. cand[t] # 0
          BY <2>2
        <5> QED BY <5>1, <5>2
      <4>3. \A u \in Threads : u # t => tid'[u] = tid[u] /\ pc'[u] = pc[u]
        BY <2>1 DEF TypeOK
      <4> QED BY <4>1, <4>2, <4>3 DEF Holding
    <3>2. \A u \in Holding : tid'[u] = tid[u] /\ tid[u] # cand[t] /\ u \in Threads
      <4>1. SUFFICES ASSUME NEW u \in Holding
                     PROVE  tid'[u] = tid[u] /\ tid[u] # cand[t] /\ u \in Threads
        OBVIOUS
      <4>2. u \in Threads /\ u # t
        BY <3>1 DEF Holding
      <4>3. tid[u] \in Ids \ free
        BY <4>1 DEF IdsExact
      <4> QED BY <2>1, <2>2, <4>2, <4>3 DEF TypeOK
    <3>3. tid'[t] = cand[t] /\ cand[t] \notin leaked
      BY <2>1, <2>2 DEF IdsExact, TypeOK
    <3>4. { tid'[u] : u \in Holding' } = { tid[u] : u \in Holding } \cup {cand[t]}
      BY <3>1, <3>2, <3>3
    <3>5. Ids \ free' = (Ids \ free) \cup {cand[t]}
      BY <2>1, <2>2
    <3>6. Ids \ free' = {1} \cup { tid'[u] : u \in Holding' } \cup leaked'
      BY <2>1, <3>4, <3>5 DEF IdsExact
    <3>7. \A u \in Holding' : tid'[u] \notin leaked' \cup {0, 1}
      BY <2>1, <2>2, <3>1, <3>2, <3>3 DEF IdsExact
    <3>8. \A u, v \in Holding' : u # v => tid'[u] # tid'[v]
      BY <3>1, <3>2, <3>3 DEF IdsExact
    <3> QED BY <3>6, <3>7, <3>8 DEF IdsExact, Ids
  <2> QED BY <2>3, <2>4, <2>5, <2>6
<1>2. CASE free \cap WordOf(cand[t]) # word[t]
  <2>1. /\ UNCHANGED << platform, free, tid, cand, tries, leaked >>
        /\ UNCHANGED << detached, joined, handle, block >>
        /\ pc[t] = "cas" /\ pc' = [pc EXCEPT ![t] = "scan"]
        /\ word' = [word EXCEPT ![t] = {}]
    BY <1>2 DEF Alloc, Goto, record
  <2>2. TypeOK' /\ pc' \in [Threads -> Points]
    BY <2>1 DEF TypeOK, Ids, Points, Searching
  <2>3. LocalInv'
    BY <2>1 DEF TypeOK, LocalInv, Searching
  <2>4. Holding' = Holding
    BY <2>1 DEF Holding
  <2>5. IdsExact'
    BY <2>1, <2>4, IdsSame
  <2> QED BY <2>2, <2>3, <2>5
<1> QED BY <1>1, <1>2

(* The end of the search and of the set-up: an identifier is given back,   *)
(* leaked, or kept, and by nobody else.                                    *)
LEMMA WrapperStep ==
  ASSUME IdsAssumption, IInv, NEW t \in Threads,
         Got(t) \/ Setup(t) \/ SetupFails(t) \/ Release(t) \/ WrapperEnd(t)
  PROVE  IInv'
<1> USE DEF IInv
<1>1. TypeOK'
  <2>1. tid[t] \in Ids
    BY DEF TypeOK
  <2>2. /\ free' \subseteq Ids /\ leaked' \subseteq Ids
        /\ UNCHANGED << platform, tid, cand, word, tries, detached, joined, handle >>
    BY <2>1 DEF TypeOK, Got, Setup, SetupFails, Release, WrapperEnd, ids, record
  <2>3. block' \in [Threads -> {"none", "live", "freed", "freed twice"}]
    BY DEF TypeOK, Got, Setup, SetupFails, Release, WrapperEnd, Free, record
  <2> QED BY <2>2, <2>3 DEF TypeOK, Ids
<1>2. pc' \in [Threads -> Points]
  BY DEF Got, Setup, SetupFails, Release, WrapperEnd, Goto, Points, Searching
<1>3. LocalInv'
  <2>1. /\ pc'[t] \in {"setup", "run", "destructors", "ended"}
        /\ pc'[t] \in {"setup", "run"} => tid[t] # 0
    BY DEF Got, Setup, SetupFails, Release, WrapperEnd, Goto, LocalInv
  <2>2. /\ \A u \in Threads : u # t => pc'[u] = pc[u]
        /\ UNCHANGED << tid, cand, word, tries >>
    BY DEF Got, Setup, SetupFails, Release, WrapperEnd, Goto, ids
  <2> QED BY <2>1, <2>2 DEF LocalInv, Searching
<1>4. IdsExact'
  <2>1. CASE Got(t) \/ Setup(t) \/ WrapperEnd(t)
    <3>1. UNCHANGED << free, tid, leaked >>
      BY <2>1 DEF Got, Setup, WrapperEnd, ids
    <3>2. \A u \in Threads : u # t => pc'[u] = pc[u]
      BY <2>1 DEF Got, Setup, WrapperEnd, Goto
    <3>3. \/ tid[t] = 0
          \/ pc[t] \in {"got", "setup"} /\ pc'[t] \in {"setup", "run"}
          \/ pc[t] = "destructors" /\ pc'[t] = "ended"
      BY <2>1 DEF Got, Setup, WrapperEnd, Goto
    <3>4. Holding' = Holding
      BY <3>1, <3>2, <3>3 DEF Holding
    <3> QED BY <3>1, <3>4, IdsSame
  <2>2. CASE SetupFails(t) \/ Release(t)
    <3>1. /\ pc[t] \in {"setup", "run"} /\ tid' = tid
          /\ pc'[t] \in {"ended", "destructors"}
          /\ \A u \in Threads : u # t => pc'[u] = pc[u]
      BY <2>2 DEF SetupFails, Release, Goto
    <3>2. tid[t] # 0
      BY <3>1 DEF LocalInv
    <3>3. t \in Holding /\ Holding' = Holding \ {t}
      BY <3>1, <3>2 DEF Holding
    <3>4. { tid[u] : u \in Holding } = { tid[u] : u \in Holding' } \cup {tid[t]}
      BY <3>3
    <3>5. \A u \in Holding' : tid[u] # tid[t]
      BY <3>3 DEF IdsExact
    <3>6. tid[t] \in Ids /\ tid[t] \notin leaked /\ tid[t] # 1
      BY <3>3 DEF IdsExact, TypeOK
    <3>7. CASE SetupFails(t)
      <4>1. leaked' = leaked \cup {tid[t]} /\ free' = free
        BY <3>7 DEF SetupFails
      <4>2. Ids \ free' = {1} \cup { tid[u] : u \in Holding' } \cup leaked'
        BY <3>4, <4>1 DEF IdsExact
      <4> QED BY <3>1, <3>2, <3>3, <3>5, <4>1, <4>2 DEF IdsExact, Ids
    <3>8. CASE Release(t)
      <4>1. free' = free \cup {tid[t]} /\ leaked' = leaked
        BY <3>8 DEF Release
      <4>2. Ids \ free' = (Ids \ free) \ {tid[t]}
        BY <4>1
      <4>3. Ids \ free' = {1} \cup { tid[u] : u \in Holding' } \cup leaked'
        BY <3>4, <3>5, <3>6, <4>1, <4>2 DEF IdsExact
      <4> QED BY <3>1, <3>3, <4>1, <4>3 DEF IdsExact, Ids
    <3> QED BY <2>2, <3>7, <3>8
  <2> QED BY <2>1, <2>2
<1> QED BY <1>1, <1>2, <1>3, <1>4

(* pthread_create, join and detach do not touch the bitmap.                *)
LEMMA CallerStep ==
  ASSUME IdsAssumption, IInv, NEW t \in Threads,
         \/ \E d \in BOOLEAN : Create(t, d)
         \/ CreateFails(t) \/ CallJoin(t) \/ CallDetach(t) \/ Caller(t)
  PROVE  IInv'
<1> USE DEF IInv
<1>1. CASE \E d \in BOOLEAN : Create(t, d)
  <2>1. PICK d \in BOOLEAN : Create(t, d)
    BY <1>1
  <2>2. 2 \in Ids /\ 2 \in 2 .. MaxId /\ 0 < Tries
    BY DEF IdsAssumption, Ids
  <2>3. /\ pc[t] = "none" /\ pc' = [pc EXCEPT ![t] = "scan"]
        /\ cand' = [cand EXCEPT ![t] = 2]
        /\ UNCHANGED << platform, free, tid, word, tries, leaked, joined >>
    BY <2>1 DEF Create, Goto
  <2>4. TypeOK'
    <3>1. cand' \in [Threads -> Ids]
      BY <2>2, <2>3 DEF TypeOK
    <3>2. /\ detached' \in [Threads -> BOOLEAN]
          /\ block' \in [Threads -> {"none", "live", "freed", "freed twice"}]
      BY <2>1 DEF Create, TypeOK
    <3>3. handle' \in [Threads -> {"none", "open", "closed", "closed twice"}]
      BY <2>1 DEF Create, TypeOK
    <3> QED BY <2>3, <3>1, <3>2, <3>3 DEF TypeOK, Ids
  <2>5. pc' \in [Threads -> Points]
    BY <2>3 DEF Points, Searching
  <2>6. LocalInv'
    BY <2>2, <2>3 DEF LocalInv, Searching, TypeOK
  <2>7. Holding' = Holding
    BY <2>3 DEF Holding
  <2>8. IdsExact'
    BY <2>3, <2>7, IdsSame
  <2> QED BY <2>4, <2>5, <2>6, <2>8
<1>2. CASE CreateFails(t) \/ CallJoin(t) \/ CallDetach(t) \/ Caller(t)
  <2>1. UNCHANGED << platform, free, tid, pc, cand, word, tries, leaked, detached >>
    BY <1>2 DEF CreateFails, CallJoin, CallDetach, Caller, JoinFlag, JoinCas, JoinWait,
         JoinFree, DetachFlag, DetachCas, ids, record
  <2>2. joined' \in [Threads -> BOOLEAN]
    BY <1>2 DEF CreateFails, CallJoin, CallDetach, Caller, JoinFlag, JoinCas, JoinWait,
         JoinFree, DetachFlag, DetachCas, record, TypeOK
  <2>3. handle' \in [Threads -> {"none", "open", "closed", "closed twice"}]
    BY ZenonT(60), <1>2 DEF CreateFails, CallJoin, CallDetach, Caller, JoinFlag, JoinCas, JoinWait,
         JoinFree, DetachFlag, DetachCas, Close, record, TypeOK
  <2>4. block' \in [Threads -> {"none", "live", "freed", "freed twice"}]
    BY <1>2 DEF CreateFails, CallJoin, CallDetach, Caller, JoinFlag, JoinCas, JoinWait,
         JoinFree, DetachFlag, DetachCas, Free, record, TypeOK
  <2>5. TypeOK'
    BY <2>1, <2>2, <2>3, <2>4 DEF TypeOK, Ids
  <2>6. pc' \in [Threads -> Points] /\ LocalInv'
    BY <2>1 DEF LocalInv
  <2>7. Holding' = Holding
    BY <2>1 DEF Holding
  <2>8. IdsExact'
    BY <2>1, <2>7, IdsSame
  <2> QED BY <2>5, <2>6, <2>8
<1> QED BY <1>1, <1>2

-----------------------------------------------------------------------------
(* In every reachable state the invariant holds, whatever the size of the  *)
(* bitmap and of its words.                                                *)
THEOREM Invariance == ASSUME IdsAssumption PROVE Spec => []IInv
<1>1. Init => IInv
  BY InitIInv
<1>2. IInv /\ [Next]_vars => IInv'
  <2> SUFFICES ASSUME IInv, [Next]_vars PROVE IInv'
    OBVIOUS
  <2>1. CASE Next
    <3>1. PICK t \in Threads :
            \/ \E d \in BOOLEAN : Create(t, d)
            \/ CreateFails(t) \/ CallJoin(t) \/ CallDetach(t)
            \/ Wrapper(t) \/ Caller(t)
      BY <2>1 DEF Next
    <3>2. CASE Wrapper(t)
      BY <3>2, SearchStep, AllocStep, WrapperStep DEF Wrapper
    <3>3. CASE ~Wrapper(t)
      BY <3>1, <3>3, CallerStep
    <3> QED BY <3>2, <3>3
  <2>2. CASE UNCHANGED vars
    <3>1. /\ UNCHANGED << platform, free, tid, pc, cand, word, tries, leaked >>
          /\ UNCHANGED << detached, joined, handle, block >>
      BY <2>2 DEF vars, ids, record
    <3>2. TypeOK'
      BY <3>1 DEF IInv, TypeOK, Ids
    <3>3. pc' \in [Threads -> Points] /\ LocalInv'
      BY <3>1 DEF IInv, LocalInv
    <3>4. Holding' = Holding
      BY <3>1 DEF Holding
    <3>5. IdsExact'
      BY <3>1, <3>4, IdsSame DEF IInv
    <3> QED BY <3>2, <3>3, <3>5 DEF IInv
  <2> QED BY <2>1, <2>2
<1> QED BY <1>1, <1>2, PTL DEF Spec

(* Types: identifiers and counts stay in their ranges.                     *)
THEOREM TypeCorrect == ASSUME IdsAssumption PROVE Spec => []TypeOK
<1>1. IInv => TypeOK
  BY DEF IInv
<1> QED BY <1>1, Invariance, PTL

(* The bits that are clear are the main thread's, one for each thread      *)
(* between acquire and release, and the leaked ones, whatever claims and   *)
(* releases of the same word come between a read and its exchange.         *)
THEOREM IdentifiersExact == ASSUME IdsAssumption PROVE Spec => []IdsExact
<1>1. IInv => IdsExact
  BY DEF IInv
<1> QED BY <1>1, Invariance, PTL

(* So two threads never share one, and none has the number 0 that the      *)
(* owner field of a free mutex holds: what PthreadMutex assumes.           *)
UniqueTids ==
  /\ \A t \in Holding : tid[t] # 0 /\ tid[t] # 1
  /\ \A t, u \in Holding : tid[t] = tid[u] => t = u
THEOREM IdentifiersUnique == ASSUME IdsAssumption PROVE Spec => []UniqueTids
<1>1. IdsExact => UniqueTids
  BY DEF IdsExact, UniqueTids
<1> QED BY <1>1, IdentifiersExact, PTL

-----------------------------------------------------------------------------
(* The record.  Where a join or detach of the thread is, together with     *)
(* is_joined, says whether the handle is open and the block is there; the  *)
(* wrapper only frees the block of a detached thread, whose joins fail.    *)
Calls == {"none", "j_flag", "j_cas", "j_wait", "j_free", "joined", "d_flag", "d_cas"}
Won   == {"j_wait", "j_free", "joined"}

Unstarted(t) ==
  pc[t] = "none" =>
    call[t] = "none" /\ handle[t] = "none" /\ ~joined[t] /\ block[t] # "freed twice"

LinuxRecord(t) ==
  platform = "linux" =>
    /\ call[t] = "none" /\ handle[t] = "none" /\ block[t] # "freed twice"
    /\ pc[t] \in Searching \cup {"got"} => block[t] = "live"

WindowsRecord(t) ==
  platform = "windows" /\ pc[t] # "none" =>
    /\ pc[t] # "ended" => block[t] = "live"
    /\ detached[t] => /\ call[t] \in {"none", "j_flag", "d_flag", "d_cas"}
                      /\ block[t] \in {"live", "freed"}
    /\ ~detached[t] => /\ call[t] # "d_cas" /\ (joined[t] <=> call[t] \in Won)
                       /\ call[t] \in {"j_free", "joined"} => pc[t] = "ended"
                       /\ handle[t] = IF call[t] \in {"j_free", "joined"}
                                      THEN "closed" ELSE "open"
                       /\ block[t] = IF call[t] = "joined" THEN "freed" ELSE "live"

Recorded(t) == Unstarted(t) /\ LinuxRecord(t) /\ WindowsRecord(t)

RInv ==
  /\ platform \in {"windows", "linux"}
  /\ pc \in [Threads -> Points] /\ call \in [Threads -> Calls]
  /\ detached \in [Threads -> BOOLEAN] /\ joined \in [Threads -> BOOLEAN]
  /\ handle \in [Threads -> {"none", "open", "closed", "closed twice"}]
  /\ block \in [Threads -> {"none", "live", "freed", "freed twice"}]
  /\ \A t \in Threads : Recorded(t)

(* The record of a thread that a step does not touch.                      *)
LEMMA SameRecord ==
  ASSUME RInv, NEW u \in Threads, platform' = platform,
         pc'[u] = pc[u], call'[u] = call[u], detached'[u] = detached[u],
         joined'[u] = joined[u], handle'[u] = handle[u], block'[u] = block[u]
  PROVE  Recorded(u)'
BY ZenonT(60) DEF RInv, Recorded, Unstarted, LinuxRecord, WindowsRecord, Searching, Won

(* pthread_create, with success or not.                                    *)
LEMMA CreateRecord ==
  ASSUME RInv, NEW t \in Threads, (\E d \in BOOLEAN : Create(t, d)) \/ CreateFails(t)
  PROVE  RInv'
<1> USE DEF RInv, Points, Searching, Calls
<1>1. CASE \E d \in BOOLEAN : Create(t, d)
  <2>1. PICK d \in BOOLEAN : Create(t, d)
    BY <1>1
  <2>2. /\ pc[t] = "none" /\ pc' = [pc EXCEPT ![t] = "scan"]
        /\ detached' = [detached EXCEPT ![t] = d] /\ block' = [block EXCEPT ![t] = "live"]
        /\ UNCHANGED << platform, joined, call >>
        /\ handle' = [handle EXCEPT ![t] = IF platform = "windows" THEN "open" ELSE @]
    BY <2>1 DEF Create, Goto
  <2>3. /\ handle'[t] = IF platform = "windows" THEN "open" ELSE handle[t]
        /\ handle' \in [Threads -> {"none", "open", "closed", "closed twice"}]
        /\ \A u \in Threads : u # t => handle'[u] = handle[u]
    BY <2>2
  <2>4. Recorded(t)'
    BY ZenonT(60), <2>2, <2>3 DEF Recorded, Unstarted, LinuxRecord, WindowsRecord, Won
  <2>5. \A u \in Threads : u # t => Recorded(u)'
    BY ZenonT(60), <2>2, <2>3, SameRecord
  <2> QED BY <2>2, <2>3, <2>4, <2>5
<1>2. CASE CreateFails(t)
  <2>1. /\ pc[t] = "none" /\ UNCHANGED << platform, pc, detached, joined, handle, call >>
        /\ block' = [block EXCEPT ![t] = IF platform = "windows" THEN "freed" ELSE "live"]
    BY <1>2 DEF CreateFails
  <2>2. /\ block'[t] \in {"freed", "live"}
        /\ block' \in [Threads -> {"none", "live", "freed", "freed twice"}]
        /\ \A u \in Threads : u # t => block'[u] = block[u]
    BY <2>1
  <2>3. \A u \in Threads : Recorded(u)'
    BY ZenonT(60), <2>1, <2>2 DEF Recorded, Unstarted, LinuxRecord, WindowsRecord
  <2> QED BY <2>1, <2>2, <2>3
<1> QED BY <1>1, <1>2

(* The wrapper.  On Linux the arguments are freed when the identifier is   *)
(* there, on Windows the record of a detached thread at the end.           *)
LEMMA WrapperRecord ==
  ASSUME RInv, NEW t \in Threads, Wrapper(t)
  PROVE  RInv'
<1> USE DEF RInv, Points, Searching, Calls
<1>1. UNCHANGED << platform, detached, joined, handle, call >>
  BY DEF Wrapper, Scan, Alloc, Nap, Got, Setup, SetupFails, Release, WrapperEnd, ids, record
<1>2. PICK l \in Points \ {"none"} : pc' = [pc EXCEPT ![t] = l] /\ pc[t] \notin {"none", "ended"}
  BY DEF Wrapper, Scan, Alloc, Nap, Got, Setup, SetupFails, Release, WrapperEnd, Goto
<1>3. CASE Got(t) \/ WrapperEnd(t)
  <2>1. \/ UNCHANGED block
        \/ block' = [block EXCEPT ![t] = IF @ = "live" THEN "freed" ELSE "freed twice"]
    BY <1>3 DEF Got, WrapperEnd, Free
  <2>2. /\ block' \in [Threads -> {"none", "live", "freed", "freed twice"}]
        /\ \A u \in Threads : u # t => block'[u] = block[u]
    BY <2>1
  <2>3. block'[t] # "freed twice" /\ l \notin Searching \cup {"got"}
    BY ZenonT(60), <1>2, <1>3, <2>1 DEF Got, WrapperEnd, Free, Goto, Recorded, LinuxRecord, WindowsRecord
  <2>4. platform = "windows" =>
          \/ UNCHANGED block
          \/ detached[t] /\ l = "ended" /\ block'[t] = "freed" /\ block[t] = "live"
    BY ZenonT(60), <1>2, <1>3, <2>1 DEF Got, WrapperEnd, Free, Goto, Recorded, WindowsRecord
  <2>5. Recorded(t)'
    BY <1>1, <1>2, <2>3, <2>4 DEF Recorded, Unstarted, LinuxRecord, WindowsRecord, Won
  <2>6. \A u \in Threads : u # t => Recorded(u)'
    BY <1>1, <1>2, <2>2, SameRecord
  <2> QED BY <1>1, <1>2, <2>2, <2>5, <2>6
<1>4. CASE Scan(t) \/ Alloc(t) \/ Nap(t) \/ Setup(t) \/ SetupFails(t) \/ Release(t)
  <2>1. UNCHANGED block /\ (l \in Searching \cup {"got"} => pc[t] \in Searching)
    BY <1>2, <1>4 DEF Scan, Alloc, Nap, Setup, SetupFails, Release, record, Goto
  <2>2. \A u \in Threads : Recorded(u)'
    BY ZenonT(60), <1>1, <1>2, <2>1 DEF Recorded, Unstarted, LinuxRecord, WindowsRecord, Won
  <2> QED BY <1>1, <1>2, <2>1, <2>2
<1> QED BY <1>3, <1>4 DEF Wrapper

(* A join or a detach of the thread: one is under way at a time, and of    *)
(* the joins of a joinable thread only one gets past the exchange.         *)
LEMMA CallerRecord ==
  ASSUME RInv, NEW t \in Threads, CallJoin(t) \/ CallDetach(t) \/ Caller(t)
  PROVE  RInv'
<1> USE DEF RInv, Points, Searching, Calls
<1>1. /\ UNCHANGED << platform, pc, detached >>
      /\ \A u \in Threads : u # t => /\ call'[u] = call[u] /\ joined'[u] = joined[u]
                                     /\ handle'[u] = handle[u] /\ block'[u] = block[u]
  BY ZenonT(60) DEF CallJoin, CallDetach, Caller, JoinFlag, JoinCas, JoinWait, JoinFree, DetachFlag,
         DetachCas, Close, Free, record
<1>2. \A u \in Threads : u # t => Recorded(u)'
  BY <1>1, SameRecord
<1>3. platform = "windows" /\ pc[t] # "none"
  BY DEF CallJoin, CallDetach, MayCall, Caller, JoinFlag, JoinCas, JoinWait, JoinFree,
         DetachFlag, DetachCas, Recorded, Unstarted, LinuxRecord
<1>4. CASE CallJoin(t) \/ CallDetach(t) \/ JoinFlag(t) \/ DetachFlag(t)
  <2>1. UNCHANGED << joined, handle, block >>
    BY <1>4 DEF CallJoin, CallDetach, JoinFlag, DetachFlag, record
  <2>2. /\ call' \in [Threads -> Calls]
        /\ detached[t] => call'[t] \in {"none", "j_flag", "d_flag", "d_cas"}
        /\ ~detached[t] => call'[t] \in {"none", "j_flag", "d_flag", "j_cas"}
        /\ call[t] \in {"none", "j_flag", "d_flag"}
    BY ZenonT(60), <1>4 DEF CallJoin, CallDetach, MayCall, JoinFlag, DetachFlag
  <2>3. Recorded(t)'
    BY <1>1, <1>3, <2>1, <2>2 DEF Recorded, Unstarted, LinuxRecord, WindowsRecord, Won
  <2> QED BY <1>1, <1>2, <2>1, <2>2, <2>3
<1>5. CASE JoinCas(t)
  <2>1. /\ call[t] = "j_cas" /\ UNCHANGED << handle, block >> /\ ~joined[t] /\ ~detached[t]
        /\ joined' = [joined EXCEPT ![t] = TRUE]
        /\ call' = [call EXCEPT ![t] = IF joined[t] THEN "none" ELSE "j_wait"]
    BY <1>3, <1>5 DEF JoinCas, Recorded, WindowsRecord, Won
  <2>2. Recorded(t)'
    BY ZenonT(60), <1>1, <1>3, <2>1 DEF Recorded, Unstarted, LinuxRecord, WindowsRecord, Won
  <2> QED BY <1>1, <1>2, <2>1, <2>2
<1>6. CASE JoinWait(t)
  <2>1. /\ call[t] = "j_wait" /\ pc[t] = "ended" /\ UNCHANGED << joined, block >>
        /\ handle' = [handle EXCEPT ![t] = "closed"] /\ ~detached[t]
        /\ call' = [call EXCEPT ![t] = "j_free"]
    BY <1>3, <1>6 DEF JoinWait, Close, Recorded, WindowsRecord
  <2>2. Recorded(t)'
    BY ZenonT(60), <1>1, <1>3, <2>1 DEF Recorded, Unstarted, LinuxRecord, WindowsRecord, Won
  <2> QED BY <1>1, <1>2, <2>1, <2>2
<1>7. CASE JoinFree(t)
  <2>1. /\ call[t] = "j_free" /\ UNCHANGED << joined, handle >> /\ ~detached[t]
        /\ block' = [block EXCEPT ![t] = "freed"] /\ call' = [call EXCEPT ![t] = "joined"]
    BY <1>3, <1>7 DEF JoinFree, Free, Recorded, WindowsRecord
  <2>2. Recorded(t)'
    BY ZenonT(60), <1>1, <1>3, <2>1 DEF Recorded, Unstarted, LinuxRecord, WindowsRecord, Won
  <2> QED BY <1>1, <1>2, <2>1, <2>2
<1>8. CASE DetachCas(t)
  <2>1. /\ call[t] = "d_cas" /\ detached[t] /\ UNCHANGED block
        /\ joined' \in [Threads -> BOOLEAN] /\ call' = [call EXCEPT ![t] = "none"]
        /\ handle' \in [Threads -> {"none", "open", "closed", "closed twice"}]
    BY ZenonT(60), <1>3, <1>8 DEF DetachCas, Close, Recorded, WindowsRecord
  <2>2. Recorded(t)'
    BY ZenonT(60), <1>1, <1>3, <2>1 DEF Recorded, Unstarted, LinuxRecord, WindowsRecord
  <2> QED BY <1>1, <1>2, <2>1, <2>2
<1> QED BY <1>4, <1>5, <1>6, <1>7, <1>8 DEF Caller

(* Every step keeps the records as they should be.                         *)
LEMMA NextRInv == ASSUME RInv, [Next]_vars PROVE RInv'
<1>1. CASE Next
  BY <1>1, CreateRecord, WrapperRecord, CallerRecord DEF Next
<1>2. CASE UNCHANGED vars
  <2>1. UNCHANGED << platform, pc, call, detached, joined, handle, block >>
    BY <1>2 DEF vars, record
  <2>2. Points' = Points /\ Calls' = Calls /\ \A t \in Threads : Recorded(t)'
    BY <2>1 DEF RInv, Recorded, Unstarted, LinuxRecord, WindowsRecord, Points, Searching,
           Calls, Won
  <2> QED BY <2>1, <2>2 DEF RInv
<1> QED BY <1>1, <1>2

(* Records are freed once, a join of a joinable thread works on one that   *)
(* is there, and what it joined has ended, whatever joins and detaches of  *)
(* the thread come in whatever order.                                      *)
THEOREM RecordsNeverFreedTwice == Spec => []RecordsSafe
<1>1. Init => RInv
  BY DEF Init, RInv, Recorded, Unstarted, LinuxRecord, WindowsRecord, Points, Searching, Calls
<1>2. RInv /\ [Next]_vars => RInv'
  BY NextRInv
<1>3. RInv => RecordsSafe
  BY DEF RInv, Recorded, Unstarted, LinuxRecord, WindowsRecord, RecordsSafe, Calls, Won
<1> QED BY <1>1, <1>2, <1>3, PTL DEF Spec
=============================================================================
