----------------------------- MODULE ThreadKeys ----------------------------
(***************************************************************************)
(* Thread-specific keys on Windows: android_pthread_key.c over the TLS     *)
(* indexes of the host, the list of destructors in                         *)
(* android_pthread_threads.c, and android_pthread_call_destroy, which a    *)
(* thread runs when it ends (android_pthread.c).                           *)
(***************************************************************************)
EXTENDS Integers, Sequences, SequencesExt, FiniteSets

CONSTANTS
  Threads,    (* the threads                                               *)
  NoOwner,    (* holder of the free android_pthread_destructors_mutex      *)
  Indexes,    (* the TLS indexes of the host                               *)
  MaxKeys     (* bound on the keys created                                 *)

VARIABLES
  keyAt,      (* the key each TLS index is allocated to, or 0              *)
  created,    (* history: how many keys have been created                  *)
  nodes,      (* android_pthread_destructors: index and the key whose      *)
              (* destructor the node holds                                 *)
  values,     (* the key each thread's value of an index was set for, or 0 *)
  mtx,        (* who holds the mutex                                       *)
  pc, arg,    (* where each thread is; the index it works on               *)
  cur,        (* call_destroy's `current`: the key of its node, or 0       *)
  called,     (* history: the destructors run: index and key of the node,  *)
              (* and the key its argument was set for                      *)
  overtaken   (* history: indexes allocated again before a delete that had *)
              (* freed them looked for its node                            *)

(* The keys a program creates are counted.                                 *)
KeysAssumption == MaxKeys \in Nat /\ NoOwner \notin Threads

vars == << keyAt, created, nodes, values, mtx, pc, arg, cur, called, overtaken >>

Keys == 1 .. MaxKeys

Init ==
  /\ keyAt = [i \in Indexes |-> 0] /\ created = 0 /\ nodes = << >>
  /\ values = [t \in Threads |-> [i \in Indexes |-> 0]]
  /\ mtx = NoOwner /\ called = {} /\ overtaken = {}
  /\ pc = [t \in Threads |-> "run"]
  /\ arg = [t \in Threads |-> 0] /\ cur = [t \in Threads |-> 0]

Goto(t, l) == pc' = [pc EXCEPT ![t] = l]
Cleared(i) == [t \in Threads |-> [values[t] EXCEPT ![i] = 0]]

(* The program's code runs: outside of the layer, or in a destructor, with *)
(* the mutex, which its thread may take again, held.                       *)
Runs(t)  == pc[t] \in {"run", "destructor"}
Mine(t)  == mtx \in {NoOwner, t}
Back(t)  == Goto(t, IF mtx = t THEN "destructor" ELSE "run") /\ arg' = [arg EXCEPT ![t] = 0]
Deleting(i) == \E t \in Threads : pc[t] = "remove" /\ arg[t] = i

(* The program uses a key from when its pthread_key_create has returned.   *)
Known(i) == keyAt[i] # 0 /\ ~\E t \in Threads : pc[t] = "push" /\ arg[t] = i

-----------------------------------------------------------------------------
(* pthread_key_create: TlsAlloc, then the destructor (when there is one)   *)
(* is pushed.  No index left is EAGAIN.                                    *)
KeyCreate(t, i, destructor) ==
  /\ Runs(t) /\ keyAt[i] = 0 /\ created < MaxKeys
  /\ created' = created + 1 /\ keyAt' = [keyAt EXCEPT ![i] = created']
  /\ values' = Cleared(i)
  /\ overtaken' = IF Deleting(i) THEN overtaken \cup {i} ELSE overtaken
  /\ IF destructor THEN Goto(t, "push") /\ arg' = [arg EXCEPT ![t] = i]
     ELSE UNCHANGED << pc, arg >>
  /\ UNCHANGED << nodes, mtx, cur, called >>

PushDestructor(t) ==
  /\ pc[t] = "push" /\ Mine(t)
  /\ nodes' = << [index |-> arg[t], key |-> keyAt[arg[t]]] >> \o nodes
  /\ Back(t)
  /\ UNCHANGED << keyAt, created, values, mtx, cur, called, overtaken >>

(* pthread_key_delete: TlsFree, then the node is looked for.               *)
KeyDelete(t, i) ==
  /\ Runs(t) /\ Known(i)
  /\ keyAt' = [keyAt EXCEPT ![i] = 0] /\ values' = Cleared(i)
  /\ Goto(t, "remove") /\ arg' = [arg EXCEPT ![t] = i]
  /\ UNCHANGED << created, nodes, mtx, cur, called, overtaken >>

(* Mutant: the node stays.                                                 *)
RemoveNothing(t) ==
  /\ pc[t] = "remove" /\ Mine(t) /\ Back(t)
  /\ UNCHANGED << keyAt, created, nodes, values, mtx, cur, called, overtaken >>

(* The first node of the index is unlinked and freed.                      *)
RemoveDestructor(t) ==
  /\ pc[t] = "remove" /\ Mine(t)
  /\ nodes' = RemoveFirstMatch(nodes, LAMBDA n : n.index = arg[t])
  /\ Back(t)
  /\ UNCHANGED << keyAt, created, values, mtx, cur, called, overtaken >>

SetSpecific(t, i) ==
  /\ Runs(t) /\ Known(i)
  /\ values' = [values EXCEPT ![t][i] = keyAt[i]]
  /\ UNCHANGED << keyAt, created, nodes, mtx, pc, arg, cur, called, overtaken >>

-----------------------------------------------------------------------------
(* android_pthread_call_destroy keeps the mutex while it walks the list.   *)
First == IF nodes = << >> THEN 0 ELSE nodes[1].key
After(m) == IF m = Len(nodes) THEN 0 ELSE nodes[m + 1].key
At(k) == { m \in DOMAIN nodes : nodes[m].key = k }

ExitBegin(t) ==
  /\ pc[t] = "run" /\ mtx = NoOwner
  /\ mtx' = t /\ cur' = [cur EXCEPT ![t] = First] /\ Goto(t, "destroy")
  /\ UNCHANGED << keyAt, created, nodes, values, arg, called, overtaken >>

(* The destructor of the current node is called if the thread has a value  *)
(* at its index, which is NULL when the index was freed.                   *)
ExitNode(t) ==
  /\ pc[t] = "destroy"
  /\ \E m \in At(cur[t]) :
       LET n == nodes[m]
           v == values[t][n.index]
       IN IF v = 0
          THEN cur' = [cur EXCEPT ![t] = After(m)] /\ UNCHANGED << pc, called >>
          ELSE /\ called' = called \cup {[index |-> n.index, key |-> n.key, of |-> v]}
               /\ Goto(t, "destructor") /\ UNCHANGED cur
  /\ UNCHANGED << keyAt, created, nodes, values, mtx, arg, overtaken >>

(* It has returned, and current->next is read: from freed memory if the    *)
(* node is gone, because the destructor deleted the key.  Then the walk    *)
(* goes on at any node, or ends (or the process crashes).                  *)
DestructorReturns(t) ==
  /\ pc[t] = "destructor" /\ Goto(t, "destroy")
  /\ \E k \in IF At(cur[t]) # {} THEN { After(m) : m \in At(cur[t]) }
               ELSE { nodes[m].key : m \in DOMAIN nodes } \cup {0} :
       cur' = [cur EXCEPT ![t] = k]
  /\ UNCHANGED << keyAt, created, nodes, values, mtx, arg, called, overtaken >>

ExitEnd(t) ==
  /\ pc[t] = "destroy" /\ cur[t] = 0
  /\ mtx' = NoOwner /\ Goto(t, "ended")
  /\ values' = [values EXCEPT ![t] = [i \in Indexes |-> 0]]
  /\ UNCHANGED << keyAt, created, nodes, arg, cur, called, overtaken >>

Next ==
  \E t \in Threads :
    \/ \E i \in Indexes : \/ \E d \in BOOLEAN : KeyCreate(t, i, d)
                          \/ KeyDelete(t, i) \/ SetSpecific(t, i)
    \/ PushDestructor(t) \/ RemoveDestructor(t)
    \/ ExitBegin(t) \/ ExitNode(t) \/ DestructorReturns(t) \/ ExitEnd(t)

Spec == Init /\ [][Next]_vars

-----------------------------------------------------------------------------
TypeOK ==
  /\ keyAt \in [Indexes -> Keys \cup {0}]
  /\ nodes \in Seq([index : Indexes, key : Keys])
  /\ mtx \in Threads \cup {NoOwner} /\ overtaken \subseteq Indexes
  /\ called \subseteq [index : Indexes, key : Keys, of : Keys]

(* At an index that no create got while a delete stood between TlsFree and *)
(* the removal of the node, a destructor only ever gets a value that was   *)
(* set for its own key, and a node without its key is one that a           *)
(* pthread_key_delete is about to remove; and the list has no two nodes of *)
(* a key at any index.  That is so whatever keys the destructors create    *)
(* and delete, even the own one, whose node the walk then reads after it   *)
(* was freed.                                                              *)
DestructorsOwn ==
  /\ \A c \in called : c.index \notin overtaken => c.key = c.of
  /\ \A m, n \in 1 .. Len(nodes) : nodes[m].key = nodes[n].key => m = n
  /\ \A m \in 1 .. Len(nodes) : nodes[m].index \notin overtaken =>
       keyAt[nodes[m].index] = nodes[m].key \/ Deleting(nodes[m].index)
=============================================================================
