---------------------------- MODULE ThreadLife -----------------------------
(***************************************************************************)
(* A thread from pthread_create to its end: the identifier it takes from   *)
(* the bitmap of android_thread_id.c, thread_wrapper, and, on Windows, the *)
(* record that pthread_join, pthread_detach and the wrapper share          *)
(* (android_pthread.c).  On Linux join and detach are the host's, and the  *)
(* block that pthread_create allocates is the wrapper's arguments.         *)
(***************************************************************************)
EXTENDS Integers

CONSTANTS
  Threads,    (* the threads the program creates                           *)
  MaxId,      (* the largest identifier (0xffff in the code)               *)
  WordBits,   (* identifiers per word of the bitmap (32)                   *)
  Tries       (* how often acquire scans the bitmap (10)                   *)

VARIABLES
  platform,   (* which half of the #ifdef was compiled                     *)
  free,       (* android_thread_id_free_list: the identifiers whose bit is *)
              (* set                                                       *)
  tid,        (* thread-specific: android_thread_id_get_current            *)
  pc,         (* where each thread is in thread_wrapper                    *)
  cand,       (* its thread_id in find_free                                *)
  word,       (* its old_value in alloc                                    *)
  tries,      (* its i in acquire                                          *)
  detached,   (* is_detached                                               *)
  joined,     (* is_joined                                                 *)
  handle,     (* the handle of the record                                  *)
  block,      (* the block that pthread_create allocated for the thread    *)
  call,       (* where a pthread_join or _detach of the thread is          *)
  leaked      (* history: identifiers of threads that failed to start      *)

(* What the bitmap needs: an identifier beside the main thread's, words of *)
(* at least one bit, and a first try.                                      *)
IdsAssumption ==
  MaxId \in Nat /\ MaxId >= 2 /\ WordBits \in Nat \ {0} /\ Tries \in Nat \ {0}

ids == << free, tid, cand, word, tries, leaked >>
record == << detached, joined, handle, block >>
vars == << platform, ids, pc, record, call >>

Ids == 0 .. MaxId
WordOf(i) == { j \in Ids : j \div WordBits = i \div WordBits }

(* android_thread_id_init: every bit is set, then 1 is the main thread's.  *)
(* The last identifier may have been leaked by a thread that ended before. *)
Init ==
  /\ platform \in {"windows", "linux"}
  /\ leaked \in SUBSET {MaxId} /\ free = Ids \ ({1} \cup leaked)
  /\ tid = [t \in Threads |-> 0] /\ pc = [t \in Threads |-> "none"]
  /\ cand = [t \in Threads |-> 0] /\ word = [t \in Threads |-> {}]
  /\ tries = [t \in Threads |-> 0]
  /\ detached = [t \in Threads |-> FALSE] /\ joined = [t \in Threads |-> FALSE]
  /\ handle = [t \in Threads |-> "none"] /\ block = [t \in Threads |-> "none"]
  /\ call = [t \in Threads |-> "none"]

Goto(t, l) == pc' = [pc EXCEPT ![t] = l]
Free(t) ==
  block' = [block EXCEPT ![t] = IF @ = "live" THEN "freed" ELSE "freed twice"]
Close(t) ==
  handle' = [handle EXCEPT ![t] = IF @ = "open" THEN "closed" ELSE "closed twice"]

-----------------------------------------------------------------------------
(* pthread_create.  The Windows thread is created suspended and resumed    *)
(* when its record and its priority are set.                               *)
Create(t, d) ==
  /\ pc[t] = "none" /\ block[t] = "none"
  /\ detached' = [detached EXCEPT ![t] = d]
  /\ block' = [block EXCEPT ![t] = "live"]
  /\ handle' = [handle EXCEPT ![t] = IF platform = "windows" THEN "open" ELSE @]
  /\ cand' = [cand EXCEPT ![t] = 2]
  /\ Goto(t, "scan")
  /\ UNCHANGED << platform, free, tid, word, tries, leaked, joined, call >>

(* EAGAIN: Windows frees the record, Linux keeps the arguments for ever.   *)
CreateFails(t) ==
  /\ pc[t] = "none" /\ block[t] = "none"
  /\ block' = [block EXCEPT ![t] = IF platform = "windows" THEN "freed" ELSE "live"]
  /\ UNCHANGED << platform, ids, pc, detached, joined, handle, call >>

-----------------------------------------------------------------------------
(* find_free and alloc: the next identifier whose bit is set is tried.     *)
Scan(t) ==
  /\ pc[t] = "scan"
  /\ IF cand[t] \in free
     THEN /\ word' = [word EXCEPT ![t] = free \cap WordOf(cand[t])]
          /\ Goto(t, "cas") /\ UNCHANGED cand
     ELSE /\ cand' = [cand EXCEPT ![t] = IF @ = MaxId THEN 2 ELSE @ + 1]
          /\ Goto(t, IF cand[t] = MaxId THEN "nap" ELSE "scan")
          /\ UNCHANGED word
  /\ UNCHANGED << platform, free, tid, tries, leaked, record, call >>

(* Mutant: the word is stored whatever happened to it since it was read.   *)
AllocStore(t) ==
  /\ pc[t] = "cas"
  /\ free' = (free \ WordOf(cand[t])) \cup (word[t] \ {cand[t]})
  /\ tid' = [tid EXCEPT ![t] = cand[t]] /\ Goto(t, "got")
  /\ word' = [word EXCEPT ![t] = {}]
  /\ UNCHANGED << platform, cand, tries, leaked, record, call >>

(* The compare-and-exchange of the whole word; when it fails the bit of    *)
(* the same identifier is looked at again.                                 *)
Alloc(t) ==
  /\ pc[t] = "cas"
  /\ IF free \cap WordOf(cand[t]) = word[t]
     THEN /\ free' = free \ {cand[t]}
          /\ tid' = [tid EXCEPT ![t] = cand[t]] /\ Goto(t, "got")
          /\ cand' = [cand EXCEPT ![t] = 0] /\ tries' = [tries EXCEPT ![t] = 0]
     ELSE UNCHANGED << free, tid, cand, tries >> /\ Goto(t, "scan")
  /\ word' = [word EXCEPT ![t] = {}]
  /\ UNCHANGED << platform, leaked, record, call >>

(* acquire: five seconds of sleep after every scan that found nothing.     *)
Nap(t) ==
  /\ pc[t] = "nap"
  /\ tries' = [tries EXCEPT ![t] = @ + 1]
  /\ Goto(t, IF tries[t] + 1 = Tries THEN "got" ELSE "scan")
  /\ UNCHANGED << platform, free, tid, cand, word, leaked, record, call >>

(* Back in thread_wrapper: Linux frees its arguments, and without an       *)
(* identifier the thread ends with EACCES.                                 *)
Got(t) ==
  /\ pc[t] = "got"
  /\ IF platform = "linux" THEN Free(t) ELSE UNCHANGED block
  /\ Goto(t, IF tid[t] = 0 THEN "ended" ELSE "setup")
  /\ UNCHANGED << platform, ids, detached, joined, handle, call >>

Setup(t) ==
  /\ pc[t] = "setup" /\ Goto(t, "run")
  /\ UNCHANGED << platform, ids, record, call >>

(* The storage, the calloc or the errno key fails: EACCES, and nobody      *)
(* gives the identifier back.                                              *)
SetupFails(t) ==
  /\ pc[t] = "setup" /\ Goto(t, "ended")
  /\ leaked' = leaked \cup {tid[t]}
  /\ UNCHANGED << platform, free, tid, cand, word, tries, record, call >>

(* The start routine returns: the identifier is free while the destructors *)
(* of the thread-specific values still run.                                *)
Release(t) ==
  /\ pc[t] = "run"
  /\ free' = free \cup {tid[t]}
  /\ Goto(t, "destructors")
  /\ UNCHANGED << platform, tid, cand, word, tries, leaked, record, call >>

(* Mutant: the wrapper frees the record of every thread.                   *)
WrapperEndFreesAll(t) ==
  /\ pc[t] = "destructors" /\ Goto(t, "ended")
  /\ IF platform = "windows" THEN Free(t) ELSE UNCHANGED block
  /\ UNCHANGED << platform, ids, detached, joined, handle, call >>

WrapperEnd(t) ==
  /\ pc[t] = "destructors" /\ Goto(t, "ended")
  /\ IF platform = "windows" /\ detached[t] THEN Free(t) ELSE UNCHANGED block
  /\ UNCHANGED << platform, ids, detached, joined, handle, call >>

-----------------------------------------------------------------------------
(* pthread_join and _detach on Windows: the caller holds what pthread_     *)
(* create gave it, and one call for the thread is under way at a time.     *)
MayCall(t) ==
  platform = "windows" /\ block[t] = "live" /\ pc[t] # "none" /\ call[t] = "none"

CallJoin(t) ==
  /\ MayCall(t) /\ call' = [call EXCEPT ![t] = "j_flag"]
  /\ UNCHANGED << platform, ids, pc, record >>

CallDetach(t) ==
  /\ MayCall(t) /\ call' = [call EXCEPT ![t] = "d_flag"]
  /\ UNCHANGED << platform, ids, pc, record >>

(* A detached thread cannot be joined: EINVAL.                             *)
JoinFlag(t) ==
  /\ call[t] = "j_flag"
  /\ call' = [call EXCEPT ![t] = IF detached[t] THEN "none" ELSE "j_cas"]
  /\ UNCHANGED << platform, ids, pc, record >>

JoinCas(t) ==
  /\ call[t] = "j_cas"
  /\ joined' = [joined EXCEPT ![t] = TRUE]
  /\ call' = [call EXCEPT ![t] = IF joined[t] THEN "none" ELSE "j_wait"]
  /\ UNCHANGED << platform, ids, pc, detached, handle, block >>

JoinWait(t) ==
  /\ call[t] = "j_wait" /\ pc[t] = "ended"
  /\ Close(t) /\ call' = [call EXCEPT ![t] = "j_free"]
  /\ UNCHANGED << platform, ids, pc, detached, joined, block >>

JoinFree(t) ==
  /\ call[t] = "j_free"
  /\ Free(t) /\ call' = [call EXCEPT ![t] = "joined"]
  /\ UNCHANGED << platform, ids, pc, detached, joined, handle >>

(* The test of is_detached is the wrong way round: a joinable thread is    *)
(* EINVAL, and one that is detached goes on.                               *)
DetachFlag(t) ==
  /\ call[t] = "d_flag"
  /\ call' = [call EXCEPT ![t] = IF detached[t] THEN "d_cas" ELSE "none"]
  /\ UNCHANGED << platform, ids, pc, record >>

(* So is the test of the exchange: the first detach closes nothing.        *)
DetachCas(t) ==
  /\ call[t] = "d_cas"
  /\ joined' = [joined EXCEPT ![t] = TRUE]
  /\ IF joined[t] THEN Close(t) ELSE UNCHANGED handle
  /\ call' = [call EXCEPT ![t] = "none"]
  /\ UNCHANGED << platform, ids, pc, detached, block >>

-----------------------------------------------------------------------------
Wrapper(t) ==
  \/ Scan(t) \/ Alloc(t) \/ Nap(t) \/ Got(t) \/ Setup(t) \/ SetupFails(t)
  \/ Release(t) \/ WrapperEnd(t)

Caller(t) ==
  \/ JoinFlag(t) \/ JoinCas(t) \/ JoinWait(t) \/ JoinFree(t)
  \/ DetachFlag(t) \/ DetachCas(t)

Next ==
  \E t \in Threads :
    \/ \E d \in BOOLEAN : Create(t, d)
    \/ CreateFails(t) \/ CallJoin(t) \/ CallDetach(t)
    \/ Wrapper(t) \/ Caller(t)

Spec == Init /\ [][Next]_vars

-----------------------------------------------------------------------------
TypeOK ==
  /\ platform \in {"windows", "linux"}
  /\ free \subseteq Ids /\ leaked \subseteq Ids /\ tid \in [Threads -> Ids]
  /\ cand \in [Threads -> Ids] /\ word \in [Threads -> SUBSET Ids]
  /\ tries \in [Threads -> 0 .. Tries]
  /\ detached \in [Threads -> BOOLEAN] /\ joined \in [Threads -> BOOLEAN]
  /\ handle \in [Threads -> {"none", "open", "closed", "closed twice"}]
  /\ block \in [Threads -> {"none", "live", "freed", "freed twice"}]

(* The identifiers whose bit is clear are the main thread's, those of the  *)
(* threads between acquire and release, one each, and those that a failed  *)
(* start leaked.  PthreadMutex relies on it: the owner field names one     *)
(* thread.                                                                 *)
Holding == { t \in Threads : tid[t] # 0 /\ pc[t] \in {"got", "setup", "run"} }
IdsExact ==
  /\ Ids \ free = {1} \cup { tid[t] : t \in Holding } \cup leaked
  /\ \A t \in Holding : tid[t] \notin leaked \cup {0, 1}
  /\ \A t, u \in Holding : t # u => tid[t] # tid[u]

(* Nothing is freed or, for a joinable thread, closed twice; while a join  *)
(* of a joinable thread is under way its record is there; and a join that  *)
(* returned 0 left a thread that has ended, no record and no handle.       *)
RecordsSafe ==
  \A t \in Threads :
    /\ block[t] # "freed twice"
    /\ ~detached[t] => handle[t] # "closed twice"
    /\ ~detached[t] /\ call[t] \notin {"none", "joined"} => block[t] = "live"
    /\ call[t] = "joined" =>
         pc[t] = "ended" /\ block[t] = "freed" /\ handle[t] = "closed"
    /\ platform = "windows" /\ pc[t] \notin {"none", "ended"} => block[t] = "live"
=============================================================================
