---------------------------- MODULE LinkerProof ----------------------------
(***************************************************************************)
(* The linker, for every value of the constants: the two lists of soinfo   *)
(* structures stay well formed, and every reference count stays exact.     *)
(* LinkerUseProof goes on from here to what the program may rely on.       *)
(*                                                                         *)
(* Both theorems come from one inductive invariant, CountInv: the types,   *)
(* the shape of the stack of calls, where each call is with its soinfo,    *)
(* and who uses what.  Every action of Linker has a lemma that says what   *)
(* it does to the lists and the stack (the lemmas named ...Step) and one   *)
(* that says what it does to each field of the soinfo structures (those    *)
(* named ...Fields); the later proofs use these and not the actions.       *)
(***************************************************************************)
EXTENDS Linker, Sequences, SequenceTheorems, FiniteSetTheorems,
        WellFoundedInduction, TLAPS

-----------------------------------------------------------------------------
(* Numbers and lists.  Induction: a set with 0 that has the successor of   *)
(* each number it has.                                                     *)
LEMMA SetInduction ==
  ASSUME NEW S, 0 \in S, \A n \in Nat : n \in S => n + 1 \in S
  PROVE  Nat \subseteq S
<1> DEFINE T == Nat \ S
<1>1. SUFFICES ASSUME T # {} PROVE FALSE
  OBVIOUS
<1>2. \E x \in T : \A y \in T : ~(<< y, x >> \in OpToRel(<, Nat))
  <2>1. T \subseteq Nat
    OBVIOUS
  <2> HIDE DEF T
  <2> QED BY <1>1, <2>1, NatLessThanWellFounded, WFMin
<1>3. PICK x \in T : \A y \in T : ~(<< y, x >> \in OpToRel(<, Nat))
  BY <1>2
<1>4. x # 0 /\ x \in Nat
  OBVIOUS
<1>5. x - 1 \in Nat /\ x - 1 < x
  BY <1>4
<1>6. << x - 1, x >> \in OpToRel(<, Nat)
  BY <1>4, <1>5 DEF OpToRel
<1>7. x - 1 \in S
  BY <1>3, <1>5, <1>6
<1> QED BY <1>4, <1>5, <1>7

(* A set of numbers that is not empty has a least one.                     *)
LEMMA LeastNumber ==
  ASSUME NEW S \in SUBSET Nat, S # {}
  PROVE  \E m \in S : \A n \in S : m <= n
<1>1. PICK m \in S : \A n \in S : ~(<< n, m >> \in OpToRel(<, Nat))
  BY NatLessThanWellFounded, WFMin
<1>2. \A n \in S : n < m => << n, m >> \in OpToRel(<, Nat)
  BY DEF OpToRel
<1>3. ASSUME NEW n \in S PROVE m <= n
  <2>1. ~(n < m) /\ n \in Nat /\ m \in Nat
    BY <1>1, <1>2
  <2> QED BY <2>1
<1> QED BY <1>3

(* A function on the first n numbers is a list of n elements.              *)
LEMMA ListMade ==
  ASSUME NEW S, NEW n \in Nat, NEW f \in [1 .. n -> S]
  PROVE  f \in Seq(S) /\ Len(f) = n
<1>1. f \in Seq(S)
  BY SeqDef
<1>2. DOMAIN f = 1 .. n /\ DOMAIN f = 1 .. Len(f) /\ Len(f) \in Nat
  BY <1>1, LenProperties
<1>3. PICK m \in Nat : m = Len(f) /\ 1 .. m = 1 .. n
  BY <1>2
<1>4. ~(m < n) /\ ~(n < m)
  <2>1. ASSUME m < n PROVE FALSE
    BY <1>3, <2>1
  <2>2. ASSUME n < m PROVE FALSE
    BY <1>3, <2>2
  <2> QED BY <2>1, <2>2
<1> QED BY <1>1, <1>3, <1>4

(* One element in front.                                                   *)
PushOn(e, l) == [i \in 1 .. Len(l) + 1 |-> IF i = 1 THEN e ELSE l[i - 1]]

(* What stands where, with one more in front.                              *)
LEMMA PushedList ==
  ASSUME NEW S, NEW l \in Seq(S), NEW e \in S
  PROVE  /\ PushOn(e, l) \in Seq(S) /\ Len(PushOn(e, l)) = Len(l) + 1
         /\ PushOn(e, l)[1] = e
         /\ \A i \in 1 .. Len(l) : PushOn(e, l)[i + 1] = l[i]
         /\ \A i \in 2 .. Len(l) + 1 : PushOn(e, l)[i] = l[i - 1]
<1>1. Len(l) \in Nat /\ \A i \in 1 .. Len(l) : l[i] \in S
  BY LenProperties, ElementOfSeq
<1>2. \A i \in 1 .. Len(l) + 1 : i # 1 => i - 1 \in 1 .. Len(l)
  BY <1>1
<1>3. Len(l) + 1 \in Nat /\ PushOn(e, l) \in [1 .. Len(l) + 1 -> S]
  BY <1>1, <1>2 DEF PushOn
<1>4. PushOn(e, l) \in Seq(S) /\ Len(PushOn(e, l)) = Len(l) + 1
  BY <1>3, ListMade
<1>5. /\ 1 \in 1 .. Len(l) + 1 /\ \A i \in 2 .. Len(l) + 1 : i \in 1 .. Len(l) + 1 /\ i # 1
      /\ \A i \in 1 .. Len(l) : i + 1 \in 1 .. Len(l) + 1 /\ i + 1 # 1 /\ (i + 1) - 1 = i
  BY <1>1
<1> QED BY <1>4, <1>5 DEF PushOn

(* One element taken out; what is left stands at places of its own, and    *)
(* nothing else is lost.                                                   *)
Past(i, k) == IF i < k THEN i ELSE i + 1
Unlinked(l, k) == [i \in 1 .. Len(l) - 1 |-> l[Past(i, k)]]

(* What is left is a list, one shorter.                                    *)
LEMMA UnlinkedList ==
  ASSUME NEW S, NEW l \in Seq(S), NEW k \in 1 .. Len(l)
  PROVE  /\ Unlinked(l, k) \in Seq(S) /\ Len(Unlinked(l, k)) = Len(l) - 1
         /\ \A i \in 1 .. Len(l) - 1 :
              Unlinked(l, k)[i] = IF i < k THEN l[i] ELSE l[i + 1]
<1>1. Len(l) \in Nat /\ Len(l) - 1 \in Nat /\ \A i \in 1 .. Len(l) : l[i] \in S
  BY LenProperties, ElementOfSeq
<1>2. \A i \in 1 .. Len(l) - 1 : Past(i, k) \in 1 .. Len(l)
  BY <1>1 DEF Past
<1>3. Unlinked(l, k) \in [1 .. Len(l) - 1 -> S]
  BY <1>1, <1>2 DEF Unlinked
<1>4. Unlinked(l, k) \in Seq(S) /\ Len(Unlinked(l, k)) = Len(l) - 1
  BY <1>1, <1>3, ListMade
<1> QED BY <1>4 DEF Unlinked, Past

(* Each element left comes from a place of its own, in the same order,     *)
(* and nothing but the element at k is missing.                            *)
LeftOf(r, l, k) ==
  /\ Len(r) \in Nat
  /\ \A i \in 1 .. Len(r) :
       Past(i, k) \in 1 .. Len(l) /\ Past(i, k) # k /\ r[i] = l[Past(i, k)]
  /\ \A i, j \in 1 .. Len(r) :
       /\ Past(i, k) = Past(j, k) => i = j
       /\ i < j => Past(i, k) < Past(j, k)
  /\ \A j \in 1 .. Len(l) : j # k => \E i \in 1 .. Len(r) : r[i] = l[j]

(* That is what Unlinked leaves.                                           *)
LEMMA UnlinkedLeft ==
  ASSUME NEW S, NEW l \in Seq(S), NEW k \in 1 .. Len(l)
  PROVE  LeftOf(Unlinked(l, k), l, k)
<1>1. PICK r : r = Unlinked(l, k)
  OBVIOUS
<1>2. /\ Len(r) = Len(l) - 1 /\ Len(l) \in Nat /\ Len(r) \in Nat
      /\ \A i \in 1 .. Len(l) - 1 : r[i] = IF i < k THEN l[i] ELSE l[i + 1]
  BY <1>1, UnlinkedList, LenProperties
<1>3. ASSUME NEW i \in 1 .. Len(r)
      PROVE  Past(i, k) \in 1 .. Len(l) /\ Past(i, k) # k /\ r[i] = l[Past(i, k)]
  BY <1>2 DEF Past
<1>4. ASSUME NEW i \in 1 .. Len(r), NEW j \in 1 .. Len(r)
      PROVE  /\ Past(i, k) = Past(j, k) => i = j
             /\ i < j => Past(i, k) < Past(j, k)
  BY <1>2 DEF Past
<1>5. ASSUME NEW j \in 1 .. Len(l), j # k PROVE \E i \in 1 .. Len(r) : r[i] = l[j]
  <2>1. CASE j < k
    <3>1. j \in 1 .. Len(r) /\ r[j] = l[j]
      BY <1>2, <2>1
    <3> QED BY <3>1
  <2>2. CASE k < j
    <3>1. j - 1 \in 1 .. Len(r) /\ ~(j - 1 < k) /\ (j - 1) + 1 = j
      BY <1>2, <2>2
    <3>2. r[j - 1] = l[(j - 1) + 1]
      BY <1>2, <3>1
    <3> QED BY <3>1, <3>2
  <2> QED BY <1>2, <1>5, <2>1, <2>2
<1>6. LeftOf(r, l, k)
  BY <1>2, <1>3, <1>4, <1>5 DEF LeftOf
<1> QED BY <1>1, <1>6

-----------------------------------------------------------------------------
(* Lists.  A sequence is the chain that starts at p when each of its slots *)
(* links to the one after it and the last one to nothing.                  *)
IsChain(link, l, p) ==
  /\ l \in Seq(Slots)
  /\ p = IF Len(l) = 0 THEN NULL ELSE l[1]
  /\ \A i \in 1 .. Len(l) : link[l[i]] = IF i = Len(l) THEN NULL ELSE l[i + 1]

(* A chain of no more slots than there are is what Follow returns.         *)
LEMMA FollowsChain ==
  ASSUME NEW link, NEW l, NEW p, IsChain(link, l, p), Len(l) <= SO_MAX + 1
  PROVE  Follow(link, p) = l
<1> DEFINE K == 0 .. SO_MAX + 1
           g == [k \in K |-> IF k < Len(l) THEN l[k + 1] ELSE NULL]
           after == [s \in Slots \cup {NULL} |-> IF s = NULL THEN NULL ELSE link[s]]
           IsWalk(f) == f = [k \in K |-> IF k = 0 THEN p ELSE after[f[k - 1]]]
           at == CHOOSE f : IsWalk(f)
<1>1. /\ Len(l) \in Nat /\ SO_MAX \in Nat /\ l \in Seq(Slots)
      /\ \A i \in 1 .. Len(l) : l[i] \in Slots /\ l[i] # NULL
  <2>1. Len(l) \in Nat /\ SO_MAX \in Nat /\ l \in Seq(Slots)
    BY LenProperties, LinkerAssumption DEF IsChain
  <2>2. \A i \in 1 .. Len(l) : l[i] \in Slots
    BY <2>1, ElementOfSeq
  <2> QED BY <2>1, <2>2 DEF Slots, NULL
<1>2. IsWalk(g)
  <2>1. ASSUME NEW k \in K PROVE g[k] = IF k = 0 THEN p ELSE after[g[k - 1]]
    <3>1. CASE k = 0
      BY <1>1, <3>1 DEF IsChain
    <3>2. CASE k # 0 /\ k <= Len(l)
      <4>1. k \in 1 .. Len(l) /\ k - 1 \in K /\ k - 1 < Len(l) /\ (k - 1) + 1 = k
        BY <1>1, <3>2
      <4>2. g[k - 1] = l[k]
        BY <4>1
      <4>3. after[l[k]] = link[l[k]]
        BY <1>1, <4>1
      <4>4. link[l[k]] = IF k = Len(l) THEN NULL ELSE l[k + 1]
        BY <4>1 DEF IsChain
      <4>5. g[k] = IF k = Len(l) THEN NULL ELSE l[k + 1]
        BY <1>1, <3>2
      <4> HIDE DEF g, after
      <4> QED BY <3>2, <4>2, <4>3, <4>4, <4>5
    <3>3. CASE k > Len(l)
      <4>1. k - 1 \in K /\ ~(k - 1 < Len(l)) /\ ~(k < Len(l)) /\ k # 0
        BY <1>1, <3>3
      <4>2. g[k - 1] = NULL /\ g[k] = NULL
        BY <4>1
      <4>3. after[NULL] = NULL
        OBVIOUS
      <4> HIDE DEF g, after
      <4> QED BY <4>1, <4>2, <4>3
    <3> QED BY <1>1, <3>1, <3>2, <3>3
  <2>2. g = [k \in K |-> IF k = 0 THEN p ELSE after[g[k - 1]]]
    <3>1. g = [k \in K |-> g[k]]
      OBVIOUS
    <3> HIDE DEF g
    <3> QED BY <2>1, <3>1
  <2> QED BY <2>2
<1>3. IsWalk(at)
  <2> HIDE DEF IsWalk, g
  <2> QED BY <1>2
<1>4. \A k \in K : at[k] = g[k]
  <2> DEFINE S == { k \in Nat : k \in K => at[k] = g[k] }
  <2>A. ASSUME NEW k \in K
        PROVE  /\ at[k] = IF k = 0 THEN p ELSE after[at[k - 1]]
               /\ g[k] = IF k = 0 THEN p ELSE after[g[k - 1]]
    <3>1. at = [j \in K |-> IF j = 0 THEN p ELSE after[at[j - 1]]]
      BY <1>3
    <3>2. g = [j \in K |-> IF j = 0 THEN p ELSE after[g[j - 1]]]
      BY <1>2
    <3> HIDE DEF at, g
    <3> QED BY <3>1, <3>2
  <2> HIDE DEF at, g, IsWalk
  <2>1. 0 \in S
    BY <1>1, <2>A
  <2>2. ASSUME NEW n \in Nat, n \in S PROVE n + 1 \in S
    <3> SUFFICES ASSUME n + 1 \in K PROVE at[n + 1] = g[n + 1]
      BY DEF S
    <3>1. n \in K /\ at[n] = g[n] /\ (n + 1) - 1 = n /\ n + 1 # 0
      BY <1>1, <2>2
    <3>2. at[n + 1] = after[at[n]] /\ g[n + 1] = after[g[n]]
      <4> HIDE DEF after
      <4> QED BY <2>A, <3>1
    <3> HIDE DEF after
    <3> QED BY <3>1, <3>2
  <2>3. Nat \subseteq S
    <3> HIDE DEF S
    <3> QED BY <2>1, <2>2, SetInduction
  <2> QED BY <1>1, <2>3
<1>5. Follow(link, p) = [k \in 1 .. Cardinality({ k \in K : at[k] # NULL }) |-> at[k - 1]]
  BY DEF Follow
<1> HIDE DEF at, IsWalk
<1>6. \A k \in K : at[k] # NULL <=> k < Len(l)
  BY <1>1, <1>4
<1>7. { k \in K : at[k] # NULL } = 0 .. Len(l) - 1
  BY <1>1, <1>6
<1>8. Cardinality(0 .. Len(l) - 1) = Len(l)
  <2>1. PICK m \in Int : m = Len(l) - 1
    BY <1>1
  <2>2. Cardinality(0 .. m) = IF 0 > m THEN 0 ELSE m - 0 + 1
    BY FS_Interval
  <2> QED BY <1>1, <2>1, <2>2
<1>9. Follow(link, p) = [k \in 1 .. Len(l) |-> at[k - 1]]
  BY <1>5, <1>7, <1>8
<1>10. \A k \in 1 .. Len(l) : at[k - 1] = l[k]
  BY <1>1, <1>4
<1>11. l = [k \in 1 .. Len(l) |-> l[k]]
  BY <1>1
<1> QED BY <1>9, <1>10, <1>11

(* The two lists of the pool: solist l, up to sn, and the freelist f, from *)
(* fl on, together hold the entries 0 .. sc, each of them once.            *)
Once(l) == \A i, j \in 1 .. Len(l) : l[i] = l[j] => i = j
Chains(link, l, f, fl, sn, sc) ==
  /\ link \in [Slots -> Slots \cup {NULL}]
  /\ IsChain(link, l, libdl_info) /\ IsChain(link, f, fl)
  /\ Once(l) /\ Once(f)
  /\ \A i \in 1 .. Len(l), j \in 1 .. Len(f) : l[i] # f[j]
  /\ \A s \in 0 .. sc : \/ \E i \in 1 .. Len(l) : l[i] = s
                        \/ \E j \in 1 .. Len(f) : f[j] = s
  /\ \A i \in 1 .. Len(l) : l[i] \in 0 .. sc
  /\ \A j \in 1 .. Len(f) : f[j] \in 0 .. sc
  /\ sc \in 0 .. SO_MAX /\ Len(l) + Len(f) = sc + 1
  /\ Len(l) >= 1 /\ sn = l[Len(l)]

(* What the lists of linker.c are, when they are such chains.              *)
LEMMA ChainsFollowed ==
  ASSUME NEW link, NEW l, NEW f, NEW fl, NEW sn, NEW sc, Chains(link, l, f, fl, sn, sc)
  PROVE  Follow(link, libdl_info) = l /\ Follow(link, fl) = f
<1>1. /\ Len(l) \in Nat /\ Len(f) \in Nat /\ SO_MAX \in Nat
      /\ IsChain(link, l, libdl_info) /\ IsChain(link, f, fl)
  BY LenProperties, LinkerAssumption DEF Chains, IsChain
<1>2. Len(l) <= SO_MAX + 1 /\ Len(f) <= SO_MAX + 1
  BY <1>1 DEF Chains
<1> QED BY <1>1, <1>2, FollowsChain

(* alloc_info reuses the head of the freelist.                             *)
LEMMA ChainsReuse ==
  ASSUME NEW link, NEW l, NEW f, NEW fl, NEW sn, NEW sc, Chains(link, l, f, fl, sn, sc),
         fl # NULL
  PROVE  /\ Chains([link EXCEPT ![sn] = fl, ![fl] = NULL],
                   Append(l, fl), Tail(f), link[fl], fl, sc)
         /\ fl \in Slots /\ \A i \in 1 .. Len(l) : l[i] # fl
<1> DEFINE m == Append(l, fl)
           t == Tail(f)
           link2 == [link EXCEPT ![sn] = fl, ![fl] = NULL]
<1>1. /\ Len(l) \in Nat /\ Len(f) \in Nat /\ SO_MAX \in Nat
      /\ l \in Seq(Slots) /\ f \in Seq(Slots)
      /\ \A i \in 1 .. Len(l) : l[i] \in Slots
      /\ \A i \in 1 .. Len(f) : f[i] \in Slots
  BY LenProperties, ElementOfSeq, LinkerAssumption DEF Chains, IsChain
<1>2. Len(f) # 0 /\ fl = f[1] /\ fl \in Slots
  BY <1>1 DEF Chains, IsChain
<1>3. /\ m \in Seq(Slots) /\ Len(m) = Len(l) + 1 /\ m[Len(l) + 1] = fl
      /\ \A i \in 1 .. Len(l) : m[i] = l[i]
  BY <1>1, <1>2, AppendProperties
<1>4. /\ t \in Seq(Slots) /\ Len(t) = Len(f) - 1
      /\ \A i \in 1 .. Len(f) - 1 : t[i] = f[i + 1]
  <2>1. f # << >>
    BY <1>2
  <2> QED BY <1>1, <2>1, HeadTailProperties
<1> HIDE DEF m, t
<1>5. sn = l[Len(l)] /\ Len(l) >= 1 /\ sn \in Slots /\ sn # fl
  BY <1>1, <1>2 DEF Chains
<1>6. /\ link2 \in [Slots -> Slots \cup {NULL}]
      /\ link2[fl] = NULL /\ link2[sn] = fl
      /\ \A s \in Slots : s # fl /\ s # sn => link2[s] = link[s]
  BY <1>2, <1>5 DEF Chains
<1> HIDE DEF link2
<1>7. IsChain(link2, m, libdl_info)
  <2>1. ASSUME NEW i \in 1 .. Len(m)
        PROVE  link2[m[i]] = IF i = Len(m) THEN NULL ELSE m[i + 1]
    <3>1. CASE i = Len(l) + 1
      BY <1>3, <1>6, <3>1
    <3>2. CASE i = Len(l)
      BY <1>1, <1>3, <1>5, <1>6, <3>2
    <3>3. CASE i < Len(l)
      <4>1. i \in 1 .. Len(l) /\ i + 1 \in 1 .. Len(l) /\ Len(l) \in 1 .. Len(l)
        BY <1>1, <1>3, <3>3
      <4>2. l[i] # fl /\ l[i] # sn /\ link[l[i]] = l[i + 1]
        BY SMTT(20), <1>1, <1>2, <1>5, <3>3, <4>1 DEF Chains, IsChain, Once
      <4> QED BY <1>1, <1>3, <1>6, <3>3, <4>1, <4>2
    <3> QED BY <1>1, <1>3, <3>1, <3>2, <3>3
  <2>2. libdl_info = m[1] /\ Len(m) # 0
    BY <1>1, <1>3, <1>5 DEF Chains, IsChain
  <2> QED BY <1>3, <2>1, <2>2 DEF IsChain
<1>8. IsChain(link2, t, link[fl])
  <2>1. ASSUME NEW i \in 1 .. Len(t)
        PROVE  link2[t[i]] = IF i = Len(t) THEN NULL ELSE t[i + 1]
    <3>1. i + 1 \in 1 .. Len(f) /\ t[i] = f[i + 1] /\ 1 \in 1 .. Len(f)
      BY <1>1, <1>2, <1>4
    <3>2. f[i + 1] # fl /\ f[i + 1] # sn
      <4>1. i + 1 # 1 /\ Once(f)
        BY <1>1, <1>4 DEF Chains
      <4>2. f[i + 1] # f[1]
        BY <3>1, <4>1 DEF Once
      <4>3. Len(l) \in 1 .. Len(l) /\ l[Len(l)] # f[i + 1]
        <5>1. Len(l) \in 1 .. Len(l)
          BY <1>1, <1>5
        <5>2. \A x \in 1 .. Len(l), y \in 1 .. Len(f) : l[x] # f[y]
          BY DEF Chains
        <5> QED BY <3>1, <5>1, <5>2
      <4> QED BY <1>2, <1>5, <4>2, <4>3
    <3>3. link2[t[i]] = link[f[i + 1]]
      BY <1>1, <1>6, <3>1, <3>2
    <3>4. link[f[i + 1]] = IF i + 1 = Len(f) THEN NULL ELSE f[(i + 1) + 1]
      BY <3>1 DEF Chains, IsChain
    <3>5. i # Len(t) => t[i + 1] = f[(i + 1) + 1]
      BY <1>1, <1>4
    <3> QED BY <1>1, <1>4, <3>3, <3>4, <3>5
  <2>2. link[fl] = IF Len(t) = 0 THEN NULL ELSE t[1]
    <3>1. 1 \in 1 .. Len(f)
      BY <1>1, <1>2
    <3>2. link[f[1]] = IF 1 = Len(f) THEN NULL ELSE f[1 + 1]
      BY <3>1 DEF Chains, IsChain
    <3> QED BY <1>1, <1>2, <1>4, <3>2
  <2> QED BY <1>4, <2>1, <2>2 DEF IsChain
<1>9. Once(m) /\ Once(t)
  <2>1. ASSUME NEW i \in 1 .. Len(m), NEW j \in 1 .. Len(m), m[i] = m[j] PROVE i = j
    <3>1. 1 \in 1 .. Len(f)
      BY <1>1, <1>2
    <3>2. \A k \in 1 .. Len(l) : l[k] # fl
      BY <1>2, <3>1 DEF Chains
    <3>3. Once(l) /\ (i = Len(l) + 1 \/ i \in 1 .. Len(l)) /\ (j = Len(l) + 1 \/ j \in 1 .. Len(l))
      BY <1>1, <1>3 DEF Chains
    <3>4. CASE i = Len(l) + 1
      BY <1>3, <2>1, <3>2, <3>3, <3>4
    <3>5. CASE j = Len(l) + 1
      BY <1>3, <2>1, <3>2, <3>3, <3>5
    <3>6. CASE i \in 1 .. Len(l) /\ j \in 1 .. Len(l)
      BY <1>3, <2>1, <3>3, <3>6 DEF Once
    <3> QED BY <3>3, <3>4, <3>5, <3>6
  <2>2. ASSUME NEW i \in 1 .. Len(t), NEW j \in 1 .. Len(t), t[i] = t[j] PROVE i = j
    <3>1. i + 1 \in 1 .. Len(f) /\ j + 1 \in 1 .. Len(f) /\ f[i + 1] = f[j + 1]
      BY <1>1, <1>4, <2>2
    <3>2. i + 1 = j + 1
      BY <3>1 DEF Chains, Once
    <3> QED BY <1>4, <3>2
  <2> QED BY <2>1, <2>2 DEF Once
<1>10. \A i \in 1 .. Len(m), j \in 1 .. Len(t) : m[i] # t[j]
  <2>1. ASSUME NEW i \in 1 .. Len(m), NEW j \in 1 .. Len(t) PROVE m[i] # t[j]
    <3>1. j + 1 \in 1 .. Len(f) /\ t[j] = f[j + 1] /\ 1 \in 1 .. Len(f) /\ j + 1 # 1
      BY SMTT(20), <1>1, <1>2, <1>4
    <3>2. f[j + 1] # fl
      BY <1>2, <3>1 DEF Chains, Once
    <3>3. m[i] = fl \/ (i \in 1 .. Len(l) /\ m[i] = l[i])
      BY <1>1, <1>3
    <3> QED BY <3>1, <3>2, <3>3 DEF Chains
  <2> QED BY <2>1
<1>11. ASSUME NEW s \in 0 .. sc
       PROVE  \/ \E i \in 1 .. Len(m) : m[i] = s
              \/ \E j \in 1 .. Len(t) : t[j] = s
  <2>1. CASE \E i \in 1 .. Len(l) : l[i] = s
    <3>1. PICK i \in 1 .. Len(l) : l[i] = s
      BY <2>1
    <3>2. i \in 1 .. Len(m) /\ m[i] = s
      BY <1>1, <1>3, <3>1
    <3> QED BY <3>2
  <2>2. CASE \E j \in 1 .. Len(f) : f[j] = s
    <3>1. PICK j \in 1 .. Len(f) : f[j] = s
      BY <2>2
    <3>2. CASE j = 1
      <4>1. Len(l) + 1 \in 1 .. Len(m) /\ m[Len(l) + 1] = s
        BY <1>1, <1>2, <1>3, <3>1, <3>2
      <4> QED BY <4>1
    <3>3. CASE j # 1
      <4>1. j - 1 \in 1 .. Len(t) /\ t[j - 1] = f[(j - 1) + 1] /\ (j - 1) + 1 = j
        BY <1>1, <1>4, <3>3
      <4> QED BY <3>1, <4>1
    <3> QED BY <3>2, <3>3
  <2> QED BY <2>1, <2>2 DEF Chains
<1>12. /\ \A i \in 1 .. Len(m) : m[i] \in 0 .. sc
       /\ \A j \in 1 .. Len(t) : t[j] \in 0 .. sc
  <2>1. fl \in 0 .. sc
    <3>1. 1 \in 1 .. Len(f)
      BY <1>1, <1>2
    <3> QED BY <1>2, <3>1 DEF Chains
  <2>2. ASSUME NEW i \in 1 .. Len(m) PROVE m[i] \in 0 .. sc
    <3>1. m[i] = fl \/ (i \in 1 .. Len(l) /\ m[i] = l[i])
      BY <1>1, <1>3
    <3> QED BY <2>1, <3>1 DEF Chains
  <2>3. ASSUME NEW j \in 1 .. Len(t) PROVE t[j] \in 0 .. sc
    <3>1. j + 1 \in 1 .. Len(f) /\ t[j] = f[j + 1]
      BY SMTT(20), <1>1, <1>4
    <3> QED BY <3>1 DEF Chains
  <2> QED BY <2>2, <2>3
<1>13. /\ sc \in 0 .. SO_MAX /\ Len(m) + Len(t) = sc + 1 /\ Len(m) >= 1 /\ fl = m[Len(m)]
  <2>1. sc \in 0 .. SO_MAX /\ Len(l) + Len(f) = sc + 1 /\ Len(l) >= 1 /\ sc \in Nat
    BY <1>1 DEF Chains
  <2>2. Len(m) = Len(l) + 1 /\ Len(t) = Len(f) - 1 /\ fl = m[Len(m)]
    BY <1>1, <1>3, <1>4
  <2>3. Len(l) \in Nat /\ Len(f) \in Nat
    BY <1>1
  <2> QED BY <2>1, <2>2, <2>3
<1>14. Chains(link2, m, t, link[fl], fl, sc)
  BY <1>6, <1>7, <1>8, <1>9, <1>10, <1>11, <1>12, <1>13 DEF Chains
<1>15. \A i \in 1 .. Len(l) : l[i] # fl
  <2>1. 1 \in 1 .. Len(f)
    BY <1>1, <1>2
  <2> QED BY <1>2, <2>1 DEF Chains
<1> QED BY <1>2, <1>14, <1>15 DEF link2, m, t

(* alloc_info takes the next unused entry of sopool.                       *)
LEMMA ChainsFresh ==
  ASSUME NEW link, NEW l, NEW f, NEW fl, NEW sn, NEW sc, Chains(link, l, f, fl, sn, sc),
         fl = NULL, sc < SO_MAX
  PROVE  /\ Chains([link EXCEPT ![sn] = sc + 1, ![sc + 1] = NULL],
                   Append(l, sc + 1), f, fl, sc + 1, sc + 1)
         /\ sc + 1 \in 1 .. SO_MAX /\ \A i \in 1 .. Len(l) : l[i] # sc + 1
<1>1. /\ Len(l) \in Nat /\ Len(f) \in Nat /\ SO_MAX \in Nat /\ sc \in Nat
      /\ l \in Seq(Slots) /\ f \in Seq(Slots)
      /\ \A i \in 1 .. Len(l) : l[i] \in Slots
      /\ \A i \in 1 .. Len(f) : f[i] \in Slots
  BY LenProperties, ElementOfSeq, LinkerAssumption DEF Chains, IsChain
<1>2. PICK x \in Int : x = sc + 1
  BY <1>1
<1>3. x \in Slots /\ x \in 1 .. SO_MAX /\ Len(f) = 0
  BY SMTT(20), <1>1, <1>2 DEF Chains, IsChain, Slots, NULL
<1> DEFINE m == Append(l, x)
           link2 == [link EXCEPT ![sn] = x, ![x] = NULL]
<1>4. /\ m \in Seq(Slots) /\ Len(m) = Len(l) + 1 /\ m[Len(l) + 1] = x
      /\ \A i \in 1 .. Len(l) : m[i] = l[i]
  BY <1>1, <1>3, AppendProperties
<1> HIDE DEF m
<1>5. \A i \in 1 .. Len(l) : l[i] \in 0 .. sc /\ l[i] # x
  BY <1>1, <1>2 DEF Chains
<1>6. sn = l[Len(l)] /\ Len(l) >= 1 /\ sn \in Slots /\ sn # x
  BY <1>1, <1>5 DEF Chains
<1>7. /\ link2 \in [Slots -> Slots \cup {NULL}]
      /\ link2[x] = NULL /\ link2[sn] = x
      /\ \A s \in Slots : s # x /\ s # sn => link2[s] = link[s]
  BY <1>3, <1>6 DEF Chains
<1> HIDE DEF link2
<1>8. IsChain(link2, m, libdl_info)
  <2>1. ASSUME NEW i \in 1 .. Len(m)
        PROVE  link2[m[i]] = IF i = Len(m) THEN NULL ELSE m[i + 1]
    <3>1. CASE i = Len(l) + 1
      BY <1>4, <1>7, <3>1
    <3>2. CASE i = Len(l)
      BY <1>1, <1>4, <1>6, <1>7, <3>2
    <3>3. CASE i < Len(l)
      <4>1. i \in 1 .. Len(l) /\ i + 1 \in 1 .. Len(l) /\ Len(l) \in 1 .. Len(l)
        BY <1>1, <1>4, <3>3
      <4>2. l[i] # x /\ l[i] # sn /\ link[l[i]] = l[i + 1]
        BY SMTT(40), <1>1, <1>5, <1>6, <3>3, <4>1 DEF Chains, IsChain, Once
      <4> QED BY <1>1, <1>4, <1>7, <3>3, <4>1, <4>2
    <3> QED BY <1>1, <1>4, <3>1, <3>2, <3>3
  <2>2. libdl_info = m[1] /\ Len(m) # 0
    BY SMTT(20), <1>1, <1>4, <1>6 DEF Chains, IsChain
  <2> QED BY <1>4, <2>1, <2>2 DEF IsChain
<1>9. IsChain(link2, f, fl)
  BY <1>3 DEF Chains, IsChain
<1>10. Once(m) /\ Once(f)
  <2>1. ASSUME NEW i \in 1 .. Len(m), NEW j \in 1 .. Len(m), m[i] = m[j] PROVE i = j
    <3>1. Once(l) /\ (i = Len(l) + 1 \/ i \in 1 .. Len(l)) /\ (j = Len(l) + 1 \/ j \in 1 .. Len(l))
      BY SMTT(20), <1>1, <1>4 DEF Chains
    <3>2. CASE i = Len(l) + 1
      BY <1>4, <1>5, <2>1, <3>1, <3>2
    <3>3. CASE j = Len(l) + 1
      BY <1>4, <1>5, <2>1, <3>1, <3>3
    <3>4. CASE i \in 1 .. Len(l) /\ j \in 1 .. Len(l)
      BY <1>4, <2>1, <3>1, <3>4 DEF Once
    <3> QED BY <3>1, <3>2, <3>3, <3>4
  <2> QED BY <2>1 DEF Once, Chains
<1>11. ASSUME NEW s \in 0 .. x PROVE \E i \in 1 .. Len(m) : m[i] = s
  <2>1. CASE s = x
    <3>1. Len(l) + 1 \in 1 .. Len(m) /\ m[Len(l) + 1] = s
      BY <1>1, <1>4, <2>1
    <3> QED BY <3>1
  <2>2. CASE s # x
    <3>1. s \in 0 .. sc
      BY <1>1, <1>2, <2>2
    <3>2. PICK i \in 1 .. Len(l) : l[i] = s
      BY <1>3, <3>1 DEF Chains
    <3>3. i \in 1 .. Len(m) /\ m[i] = s
      BY <1>1, <1>4, <3>2
    <3> QED BY <3>3
  <2> QED BY <2>1, <2>2
<1>12. \A i \in 1 .. Len(m) : m[i] \in 0 .. x
  BY SMTT(20), <1>1, <1>2, <1>4, <1>5
<1>13. x \in 0 .. SO_MAX /\ Len(m) + Len(f) = x + 1 /\ Len(m) >= 1 /\ x = m[Len(m)]
  BY <1>1, <1>2, <1>3, <1>4 DEF Chains
<1>14. Chains(link2, m, f, fl, x, x)
  BY <1>3, <1>7, <1>8, <1>9, <1>10, <1>11, <1>12, <1>13 DEF Chains
<1> QED BY <1>2, <1>3, <1>5, <1>14 DEF link2, m

(* free_info takes an entry out of solist, and puts it in front of the     *)
(* freelist.                                                               *)
LEMMA ChainsFreed ==
  ASSUME NEW link, NEW l, NEW f, NEW fl, NEW sn, NEW sc, Chains(link, l, f, fl, sn, sc),
         NEW k \in 1 .. Len(l), k # 1,
         NEW si, si = l[k], NEW prev, prev = l[k - 1]
  PROVE  Chains([s \in Slots |-> IF s = si THEN fl ELSE IF s = prev THEN link[si] ELSE link[s]],
                Unlinked(l, k), PushOn(si, f), si, IF si = sn THEN prev ELSE sn, sc)
<1> DEFINE r == Unlinked(l, k)
           t == PushOn(si, f)
           link2 == [s \in Slots |-> IF s = si THEN fl
                                     ELSE IF s = prev THEN link[si] ELSE link[s]]
           sn2 == IF si = sn THEN prev ELSE sn
<1>1. /\ Len(l) \in Nat /\ Len(f) \in Nat /\ SO_MAX \in Nat
      /\ k \in 2 .. Len(l) /\ k - 1 \in 1 .. Len(l)
      /\ l \in Seq(Slots) /\ f \in Seq(Slots)
  BY LenProperties, LinkerAssumption DEF Chains, IsChain
<1>e. /\ \A i \in 1 .. Len(l) : l[i] \in Slots
      /\ \A i \in 1 .. Len(f) : f[i] \in Slots
  BY <1>1, ElementOfSeq
<1>o. /\ \A i, j \in 1 .. Len(l) : l[i] = l[j] => i = j
      /\ \A i, j \in 1 .. Len(f) : f[i] = f[j] => i = j
      /\ \A i \in 1 .. Len(l), j \in 1 .. Len(f) : l[i] # f[j]
  BY DEF Chains, Once
<1>2. si \in Slots /\ prev \in Slots /\ si # prev
  <2>1. k # k - 1
    BY <1>1
  <2> QED BY <1>1, <1>e, <1>o, <2>1
<1>3. /\ r \in Seq(Slots) /\ Len(r) = Len(l) - 1
      /\ \A i \in 1 .. Len(l) - 1 : r[i] = IF i < k THEN l[i] ELSE l[i + 1]
  BY <1>1, UnlinkedList
<1>4. /\ t \in Seq(Slots) /\ Len(t) = Len(f) + 1 /\ t[1] = si
      /\ \A i \in 1 .. Len(f) : t[i + 1] = f[i]
      /\ \A i \in 2 .. Len(f) + 1 : t[i] = f[i - 1]
  <2>1. PICK u : u = PushOn(si, f)
    OBVIOUS
  <2>2. /\ u \in Seq(Slots) /\ Len(u) = Len(f) + 1 /\ u[1] = si
        /\ \A i \in 1 .. Len(f) : u[i + 1] = f[i]
        /\ \A i \in 2 .. Len(f) + 1 : u[i] = f[i - 1]
    <3> HIDE DEF t, r, link2, sn2
    <3>1. PICK e \in Slots, v \in Seq(Slots) : e = si /\ v = f
      BY <1>1, <1>2
    <3>2. PushOn(e, v) \in Seq(Slots) /\ Len(PushOn(e, v)) = Len(v) + 1
      BY PushedList
    <3>3. PushOn(e, v)[1] = e
      BY PushedList
    <3>4. \A i \in 1 .. Len(v) : PushOn(e, v)[i + 1] = v[i]
      BY PushedList
    <3>5. \A i \in 2 .. Len(v) + 1 : PushOn(e, v)[i] = v[i - 1]
      BY PushedList
    <3> QED BY <2>1, <3>1, <3>2, <3>3, <3>4, <3>5
  <2>3. t = u
    BY <2>1
  <2> QED BY <2>2, <2>3
<1>5. /\ Len(r) \in Nat
      /\ \A i \in 1 .. Len(r) :
           Past(i, k) \in 1 .. Len(l) /\ Past(i, k) # k /\ r[i] = l[Past(i, k)]
      /\ \A i, j \in 1 .. Len(r) : Past(i, k) = Past(j, k) => i = j
      /\ \A j \in 1 .. Len(l) : j # k => \E i \in 1 .. Len(r) : r[i] = l[j]
  <2>1. PICK v : v = Unlinked(l, k)
    OBVIOUS
  <2>2. l \in Seq(Slots) /\ k \in 1 .. Len(l)
    BY <1>1
  <2>3. LeftOf(v, l, k)
    BY <2>1, <2>2, UnlinkedLeft
  <2>4. LeftOf(r, l, k)
    BY <2>1, <2>3
  <2> QED
    <3> HIDE DEF r
    <3> QED BY <2>4 DEF LeftOf
<1> HIDE DEF r, t
<1>6. /\ link2 \in [Slots -> Slots \cup {NULL}]
      /\ link2[si] = fl /\ link2[prev] = link[si]
      /\ \A s \in Slots : s # si /\ s # prev => link2[s] = link[s]
  <2>1. link \in [Slots -> Slots \cup {NULL}] /\ fl \in Slots \cup {NULL}
    BY SMTT(20), <1>1 DEF Chains, IsChain
  <2>2. link[si] \in Slots \cup {NULL} /\ \A s \in Slots : link[s] \in Slots \cup {NULL}
    BY <1>2, <2>1
  <2> QED BY <1>2, <2>1, <2>2
<1> HIDE DEF link2
<1>7. IsChain(link2, r, libdl_info)
  <2>1. ASSUME NEW i \in 1 .. Len(r)
        PROVE  link2[r[i]] = IF i = Len(r) THEN NULL ELSE r[i + 1]
    <3>1. CASE i = k - 1
      <4>1. r[i] = prev
        BY <1>1, <1>3, <3>1
      <4>2. link[si] = IF k = Len(l) THEN NULL ELSE l[k + 1]
        BY DEF Chains, IsChain
      <4>3. k # Len(l) => r[k] = l[k + 1]
        BY <1>1, <1>3
      <4>4. (i = Len(r) <=> k = Len(l)) /\ i + 1 = k
        BY <1>1, <1>3, <3>1
      <4> QED BY <1>6, <4>1, <4>2, <4>3, <4>4
    <3>2. CASE i < k - 1
      <4>1. i \in 1 .. Len(l) /\ k - 1 \in 1 .. Len(l) /\ i # k /\ i # k - 1 /\ i # Len(l)
        BY <1>1, <1>3, <3>2
      <4>2. l[i] \in Slots /\ l[i] # si /\ l[i] # prev
        BY <1>e, <1>o, <4>1
      <4>3. link[l[i]] = l[i + 1]
        BY <4>1 DEF Chains, IsChain
      <4>4. r[i] = l[i] /\ r[i + 1] = l[i + 1] /\ i # Len(r)
        BY SMTT(40), <1>1, <1>3, <3>2
      <4> QED BY <1>6, <4>2, <4>3, <4>4
    <3>3. CASE i >= k
      <4>1. i + 1 \in 1 .. Len(l) /\ k - 1 \in 1 .. Len(l) /\ i + 1 # k /\ i + 1 # k - 1
        BY <1>1, <1>3, <3>3
      <4>2. l[i + 1] \in Slots /\ l[i + 1] # si /\ l[i + 1] # prev
        BY <1>e, <1>o, <4>1
      <4>3. link[l[i + 1]] = IF i + 1 = Len(l) THEN NULL ELSE l[(i + 1) + 1]
        BY <4>1 DEF Chains, IsChain
      <4>4. r[i] = l[i + 1] /\ (i = Len(r) <=> i + 1 = Len(l))
        BY <1>1, <1>3, <3>3
      <4>5. ASSUME i # Len(r) PROVE r[i + 1] = l[(i + 1) + 1]
        <5>1. i + 1 \in 1 .. Len(l) - 1 /\ ~(i + 1 < k)
          <6>1. Len(r) = Len(l) - 1 /\ i \in 1 .. Len(l) - 1
            BY <1>3
          <6> QED BY SMTT(20), <1>1, <3>3, <4>5, <6>1
        <5> QED BY <1>3, <5>1
      <4> QED BY <1>6, <4>2, <4>3, <4>4, <4>5
    <3> QED BY <1>1, <1>5, <3>1, <3>2, <3>3
  <2>2. libdl_info = r[1] /\ Len(r) # 0
    <3>1. libdl_info = l[1]
      BY <1>1 DEF Chains, IsChain
    <3>2. 1 \in 1 .. Len(l) - 1 /\ 1 < k /\ Len(l) - 1 # 0
      BY <1>1
    <3>3. r[1] = l[1]
      BY <1>3, <3>2
    <3> QED BY <1>3, <3>1, <3>2, <3>3
  <2> QED BY <1>3, <2>1, <2>2 DEF IsChain
<1>8. IsChain(link2, t, si)
  <2>1. ASSUME NEW i \in 1 .. Len(t)
        PROVE  link2[t[i]] = IF i = Len(t) THEN NULL ELSE t[i + 1]
    <3>1. CASE i = 1
      <4>1. fl = IF Len(f) = 0 THEN NULL ELSE f[1]
        BY DEF Chains, IsChain
      <4>2. i # Len(t) => t[i + 1] = f[1]
        BY <1>1, <1>4, <3>1
      <4> QED BY <1>1, <1>4, <1>6, <3>1, <4>1, <4>2
    <3>2. CASE i # 1
      <4>1. i - 1 \in 1 .. Len(f) /\ t[i] = f[i - 1]
        BY SMTT(20), <1>1, <1>4, <3>2
      <4>2. f[i - 1] \in Slots /\ f[i - 1] # si /\ f[i - 1] # prev
        BY <1>1, <1>e, <1>o, <4>1
      <4>3. link[f[i - 1]] = IF i - 1 = Len(f) THEN NULL ELSE f[(i - 1) + 1]
        BY <4>1 DEF Chains, IsChain
      <4>4. (i - 1 = Len(f) <=> i = Len(t)) /\ (i # Len(t) => t[i + 1] = f[(i - 1) + 1])
        BY <1>1, <1>4, <3>2
      <4> QED BY <1>6, <4>1, <4>2, <4>3, <4>4
    <3> QED BY <3>1, <3>2
  <2> QED BY <1>1, <1>4, <2>1 DEF IsChain
<1>9. Once(r) /\ Once(t)
  <2>1. ASSUME NEW i \in 1 .. Len(r), NEW j \in 1 .. Len(r), r[i] = r[j] PROVE i = j
    <3>1. /\ Past(i, k) \in 1 .. Len(l) /\ r[i] = l[Past(i, k)]
          /\ Past(j, k) \in 1 .. Len(l) /\ r[j] = l[Past(j, k)]
      BY <1>5
    <3>2. Past(i, k) = Past(j, k)
      BY <1>o, <2>1, <3>1
    <3> QED BY <1>5, <3>2
  <2>2. ASSUME NEW i \in 1 .. Len(t), NEW j \in 1 .. Len(t), t[i] = t[j] PROVE i = j
    <3>1. (i = 1 \/ i \in 2 .. Len(f) + 1) /\ (j = 1 \/ j \in 2 .. Len(f) + 1)
      BY SMTT(20), <1>1, <1>4
    <3>2. ASSUME NEW n \in 2 .. Len(f) + 1 PROVE t[n] # si
      <4>1. n - 1 \in 1 .. Len(f) /\ t[n] = f[n - 1]
        BY <1>1, <1>4
      <4> QED BY <1>o, <4>1
    <3>3. CASE i = 1 \/ j = 1
      BY <1>4, <2>2, <3>1, <3>2, <3>3
    <3>4. CASE i \in 2 .. Len(f) + 1 /\ j \in 2 .. Len(f) + 1
      <4>1. i - 1 \in 1 .. Len(f) /\ j - 1 \in 1 .. Len(f) /\ f[i - 1] = f[j - 1]
        BY <1>1, <1>4, <2>2, <3>4
      <4>2. i - 1 = j - 1
        BY <1>o, <4>1
      <4> QED BY <3>4, <4>2
    <3> QED BY <3>1, <3>3, <3>4
  <2> QED BY <2>1, <2>2 DEF Once
<1>10. \A i \in 1 .. Len(r), j \in 1 .. Len(t) : r[i] # t[j]
  <2>1. ASSUME NEW i \in 1 .. Len(r), NEW j \in 1 .. Len(t) PROVE r[i] # t[j]
    <3>1. Past(i, k) \in 1 .. Len(l) /\ Past(i, k) # k /\ r[i] = l[Past(i, k)]
      BY <1>5
    <3>2. t[j] = si \/ (j - 1 \in 1 .. Len(f) /\ t[j] = f[j - 1])
      BY SMTT(20), <1>1, <1>4
    <3> QED BY <1>o, <3>1, <3>2
  <2> QED BY <2>1
<1>11. ASSUME NEW s \in 0 .. sc
       PROVE  \/ \E i \in 1 .. Len(r) : r[i] = s
              \/ \E j \in 1 .. Len(t) : t[j] = s
  <2>1. CASE s = si
    <3>1. 1 \in 1 .. Len(t)
      BY <1>1, <1>4
    <3> QED BY <1>4, <2>1, <3>1
  <2>2. CASE s # si /\ \E i \in 1 .. Len(l) : l[i] = s
    <3>1. PICK i \in 1 .. Len(l) : l[i] = s
      BY <2>2
    <3>2. i # k
      BY <2>2, <3>1
    <3> QED BY <1>5, <3>1, <3>2
  <2>3. CASE \E j \in 1 .. Len(f) : f[j] = s
    <3>1. PICK j \in 1 .. Len(f) : f[j] = s
      BY <2>3
    <3>2. j + 1 \in 1 .. Len(t) /\ t[j + 1] = s
      BY <1>1, <1>4, <3>1
    <3> QED BY <3>2
  <2> QED BY <2>1, <2>2, <2>3 DEF Chains
<1>12. /\ \A i \in 1 .. Len(r) : r[i] \in 0 .. sc
       /\ \A j \in 1 .. Len(t) : t[j] \in 0 .. sc
  <2>1. ASSUME NEW i \in 1 .. Len(r) PROVE r[i] \in 0 .. sc
    BY <1>5 DEF Chains
  <2>2. ASSUME NEW j \in 1 .. Len(t) PROVE t[j] \in 0 .. sc
    <3>1. t[j] = si \/ (j - 1 \in 1 .. Len(f) /\ t[j] = f[j - 1])
      BY SMTT(20), <1>1, <1>4
    <3> QED BY <3>1 DEF Chains
  <2> QED BY <2>1, <2>2
<1>13. sc \in 0 .. SO_MAX /\ Len(r) + Len(t) = sc + 1 /\ Len(r) >= 1
  <2>1. sc \in 0 .. SO_MAX /\ Len(l) + Len(f) = sc + 1 /\ sc \in Nat
    BY <1>1 DEF Chains
  <2>2. Len(r) = Len(l) - 1 /\ Len(t) = Len(f) + 1
    BY <1>3, <1>4
  <2> QED BY SMTT(20), <1>1, <2>1, <2>2
<1>14. sn2 = r[Len(r)]
  <2>1. sn = l[Len(l)] /\ Len(l) \in 1 .. Len(l) /\ Len(r) \in 1 .. Len(l) - 1
    BY <1>1, <1>3 DEF Chains
  <2>2. CASE k = Len(l)
    <3>1. si = sn /\ r[Len(r)] = l[k - 1]
      BY <1>1, <1>3, <2>1, <2>2
    <3> QED BY <3>1
  <2>3. CASE k # Len(l)
    <3>1. si # sn
      BY <1>o, <2>1, <2>3
    <3>2. ~(Len(r) < k) /\ Len(r) + 1 = Len(l)
      BY <1>1, <1>3, <2>3
    <3> QED BY <1>3, <2>1, <3>1, <3>2
  <2> QED BY <2>2, <2>3
<1> HIDE DEF sn2
<1>15. Chains(link2, r, t, si, sn2, sc)
  BY <1>6, <1>7, <1>8, <1>9, <1>10, <1>11, <1>12, <1>13, <1>14 DEF Chains
<1> QED BY <1>15 DEF link2, r, t, sn2

(* A sequence that repeats nothing has as many elements as places.         *)
LEMMA OnceCardinality ==
  ASSUME NEW S, NEW l \in Seq(S), Once(l)
  PROVE  Cardinality(On(l)) = Len(l)
<1>1. Len(l) \in Nat /\ DOMAIN l = 1 .. Len(l)
  BY LenProperties
<1>2. l \in [1 .. Len(l) -> On(l)]
  <2>1. l \in [1 .. Len(l) -> S]
    BY LenProperties
  <2>2. \A k \in 1 .. Len(l) : l[k] \in On(l)
    BY <1>1 DEF On
  <2> QED BY <2>1, <2>2
<1>3. l \in Bijection(1 .. Len(l), On(l))
  <2>1. \A a, b \in 1 .. Len(l) : l[a] = l[b] => a = b
    BY DEF Once
  <2>2. \A t \in On(l) : \E s \in 1 .. Len(l) : l[s] = t
    BY <1>1 DEF On
  <2>3. l \in Injection(1 .. Len(l), On(l))
    BY <1>2, <2>1 DEF Injection, IsInjective
  <2>4. l \in Surjection(1 .. Len(l), On(l))
    BY <1>2, <2>2 DEF Surjection
  <2> QED BY <2>3, <2>4 DEF Bijection
<1>4. ExistsBijection(1 .. Len(l), On(l))
  BY <1>3 DEF ExistsBijection
<1> QED BY <1>1, <1>4, FS_CountingElements

-----------------------------------------------------------------------------
(* Types.  libdl_info is no entry of the pool, and no call works on it as  *)
(* long as nothing asks for it by name.                                    *)
LibDLUnnamed ==
  /\ LibDL \notin Opened
  /\ \A n \in Libraries : \A i \in 1 .. Len(Needed[n]) : Needed[n][i] # LibDL

PoolEntry == 1 .. SO_MAX
Images == {"none", "mapped", "unmapped"}
Soinfos ==
  [name : Libraries, linked : BOOLEAN, error : BOOLEAN, refcount : Int,
   constructors_called : BOOLEAN, image : Images, deps : Seq(PoolEntry \cup {NULL}),
   inits : Nat, finis : Nat]

Finding == {"find_library", "load_library"}
Holding == {"link_image", "constructors", "init", "unload", "fini"}
Frames ==
  { f \in [fn : Finding \cup Holding \cup {"dlopen"}, si : PoolEntry \cup {NULL},
           i : Nat, name : Libraries] :
      /\ f.fn \in Finding => f.name # LibDL
      /\ f.fn \in Holding => f.si # NULL
      /\ f.fn = "link_image" => f.i >= 1 }

LinkerTypes ==
  /\ info \in [Slots -> Soinfos] /\ info[libdl_info].name = LibDL
  /\ stack \in Seq(Frames)
  /\ ret \in {NOTHING, NULL} \cup PoolEntry
  /\ handles \in [Slots -> Nat] /\ handles[libdl_info] = 0

ListInv == Chains(next, Solist, From(freelist), freelist, sonext, socount)

(* What the invariant of the lists says of them.                           *)
LEMMA ListsRight ==
  ASSUME ListInv
  PROVE  /\ Len(Solist) \in Nat \ {0} /\ DOMAIN Solist = 1 .. Len(Solist)
         /\ Len(From(freelist)) \in Nat /\ DOMAIN From(freelist) = 1 .. Len(From(freelist))
         /\ Solist \in Seq(Slots) /\ From(freelist) \in Seq(Slots)
         /\ On(Solist) \subseteq Slots /\ libdl_info \in On(Solist)
         /\ AllocSlot \notin On(Solist) /\ (CanAlloc => AllocSlot \in PoolEntry)
         /\ ListsWellFormed
<1> DEFINE l == Solist
           f == From(freelist)
<1>0. /\ Chains(next, l, f, freelist, sonext, socount)
      /\ (IsChain(next, l, libdl_info) /\ IsChain(next, f, freelist))
      /\ Solist = l /\ From(freelist) = f
  BY DEF ListInv, Chains
<1> HIDE DEF l, f
<1>1. /\ l \in Seq(Slots) /\ f \in Seq(Slots) /\ Len(l) \in Nat /\ Len(f) \in Nat
      /\ DOMAIN l = 1 .. Len(l) /\ DOMAIN f = 1 .. Len(f)
      /\ Len(l) >= 1 /\ SO_MAX \in Nat /\ socount \in 0 .. SO_MAX
      /\ \A i \in 1 .. Len(l) : l[i] \in Slots
  BY <1>0, LenProperties, ElementOfSeq, LinkerAssumption DEF IsChain, Chains
<1>2. On(l) = { l[k] : k \in 1 .. Len(l) } /\ On(f) = { f[k] : k \in 1 .. Len(f) }
  BY <1>1 DEF On
<1>3. On(l) \subseteq Slots /\ libdl_info \in On(l)
  <2>1. 1 \in 1 .. Len(l) /\ Len(l) # 0
    BY <1>1
  <2>2. libdl_info = l[1]
    BY <1>0, <2>1 DEF IsChain
  <2> QED BY <1>1, <1>2, <2>1, <2>2
<1>4. AllocSlot \notin On(l) /\ (CanAlloc => AllocSlot \in PoolEntry)
  <2>1. CASE freelist # NULL
    <3>0. freelist = IF Len(f) = 0 THEN NULL ELSE f[1]
      BY <1>0 DEF IsChain
    <3>1. AllocSlot = freelist /\ 1 \in 1 .. Len(f) /\ freelist = f[1]
      BY <1>1, <2>1, <3>0 DEF AllocSlot
    <3>2. \A i \in 1 .. Len(l) : l[i] # f[1]
      BY <1>0, <3>1 DEF Chains
    <3>3. f[1] \in 0 .. socount /\ l[1] = libdl_info /\ 1 \in 1 .. Len(l)
      <4>1. 1 \in 1 .. Len(l) /\ Len(l) # 0
        BY <1>1
      <4>2. f[1] \in 0 .. socount
        BY <1>0, <3>1 DEF Chains
      <4> QED BY <1>0, <4>1, <4>2 DEF IsChain
    <3>4. f[1] # 0
      BY <3>2, <3>3 DEF libdl_info
    <3>5. f[1] \in PoolEntry
      BY <1>1, <3>3, <3>4 DEF PoolEntry
    <3> QED BY <1>2, <3>1, <3>2, <3>5
  <2>2. CASE freelist = NULL
    <3>1. AllocSlot = socount + 1 /\ (CanAlloc <=> socount < SO_MAX)
      BY <2>2 DEF AllocSlot, CanAlloc
    <3>2. \A i \in 1 .. Len(l) : l[i] \in 0 .. socount
      BY <1>0 DEF Chains
    <3>3. \A i \in 1 .. Len(l) : l[i] # socount + 1
      BY <1>1, <3>2
    <3> QED BY <1>1, <1>2, <3>1, <3>3 DEF PoolEntry
  <2> QED BY <2>1, <2>2
<1>5. Distinct(l) /\ Distinct(f)
  BY <1>0, <1>1, OnceCardinality DEF Distinct, Chains
<1>6. l[Len(l)] = sonext
  BY <1>0 DEF Chains
<1>7. On(l) \cap On(f) = {}
  <2>1. \A i \in 1 .. Len(l), j \in 1 .. Len(f) : l[i] # f[j]
    BY <1>0 DEF Chains
  <2> QED BY <1>2, <2>1
<1>8. On(l) \cup On(f) = 0 .. socount
  <2>1. /\ \A i \in 1 .. Len(l) : l[i] \in 0 .. socount
        /\ \A j \in 1 .. Len(f) : f[j] \in 0 .. socount
        /\ \A s \in 0 .. socount : \/ \E i \in 1 .. Len(l) : l[i] = s
                                   \/ \E j \in 1 .. Len(f) : f[j] = s
    BY <1>0 DEF Chains
  <2> QED BY <1>2, <2>1
<1> QED BY <1>0, <1>1, <1>3, <1>4, <1>5, <1>6, <1>7, <1>8 DEF ListsWellFormed

(* Chains found for the lists of the next state are those lists.           *)
LEMMA ListsAre ==
  ASSUME NEW l, NEW f, Chains(next, l, f, freelist, sonext, socount)
  PROVE  ListInv /\ Solist = l /\ From(freelist) = f
BY ChainsFollowed DEF ListInv, Solist, From

(* alloc_info keeps the lists, and puts the entry it returns on solist.    *)
LEMMA AllocKeeps ==
  ASSUME ListInv, NEW contents, AllocInfo(contents)
  PROVE  /\ ListInv' /\ On(Solist)' = On(Solist) \cup {AllocSlot}
         /\ AllocSlot \in PoolEntry /\ AllocSlot \notin On(Solist)
<1> DEFINE l == Solist
           f == From(freelist)
           si == AllocSlot
<1>1. /\ Chains(next, l, f, freelist, sonext, socount)
      /\ l \in Seq(Slots) /\ si \in PoolEntry /\ si \notin On(l)
  BY ListsRight DEF ListInv, AllocInfo
<1>2. /\ CanAlloc
      /\ socount' = IF freelist = NULL THEN socount + 1 ELSE socount
      /\ freelist' = IF freelist = NULL THEN NULL ELSE next[freelist]
      /\ next' = [next EXCEPT ![sonext] = si, ![si] = NULL]
      /\ sonext' = si
  BY DEF AllocInfo
<1>3. \E g : Chains(next', Append(l, si), g, freelist', sonext', socount')
  <2>1. CASE freelist # NULL
    <3>1. si = freelist
      BY <2>1 DEF AllocSlot
    <3> HIDE DEF l, f
    <3>2. Chains([next EXCEPT ![sonext] = freelist, ![freelist] = NULL],
                 Append(l, freelist), Tail(f), next[freelist], freelist, socount)
      BY <1>1, <2>1, ChainsReuse
    <3> HIDE DEF si
    <3> QED BY <1>2, <2>1, <3>1, <3>2
  <2>2. CASE freelist = NULL
    <3>1. si = socount + 1 /\ socount < SO_MAX
      BY <1>2, <2>2 DEF AllocSlot, CanAlloc
    <3> HIDE DEF l, f
    <3>2. Chains([next EXCEPT ![sonext] = socount + 1, ![socount + 1] = NULL],
                 Append(l, socount + 1), f, freelist, socount + 1, socount + 1)
      BY <1>1, <2>2, <3>1, ChainsFresh
    <3> HIDE DEF si
    <3> QED BY <1>2, <2>2, <3>1, <3>2
  <2> QED BY <2>1, <2>2
<1>4. PICK m : m = Append(l, si)
  OBVIOUS
<1>5. PICK g : Chains(next', m, g, freelist', sonext', socount')
  BY <1>3, <1>4
<1>6. Follow(next', libdl_info) = m /\ Follow(next', freelist') = g
  BY <1>5, ChainsFollowed
<1>7. Solist' = m /\ From(freelist)' = g
  BY <1>6 DEF Solist, From, libdl_info
<1>8. ListInv'
  BY <1>5, <1>7 DEF ListInv
<1>9. On(m) = On(l) \cup {si}
  <2> DEFINE x == Len(l)
  <2>1. Len(l) \in Nat /\ DOMAIN l = 1 .. Len(l) /\ si \in Slots
    BY <1>1, LenProperties DEF PoolEntry, Slots
  <2> HIDE DEF l, si
  <2>2. /\ m \in Seq(Slots) /\ Len(m) = Len(l) + 1 /\ m[Len(l) + 1] = si
        /\ \A i \in 1 .. Len(l) : m[i] = l[i]
    BY <1>1, <1>4, <2>1, AppendProperties
  <2>3. DOMAIN m = 1 .. Len(l) + 1
    BY <2>2, LenProperties
  <2>4. DOMAIN m = DOMAIN l \cup {Len(l) + 1}
    BY <2>1, <2>3
  <2> QED BY <2>1, <2>2, <2>4 DEF On
<1>10. On(Solist)' = On(m)
  BY <1>7 DEF On
<1> QED BY <1>1, <1>8, <1>9, <1>10

(* free_info keeps the lists, and takes the entry off solist.              *)
LEMMA FreeKeeps ==
  ASSUME ListInv, NEW si \in PoolEntry, FreeInfo(si), socount' = socount
  PROVE  ListInv' /\ On(Solist)' = On(Solist) \ {si}
<1> DEFINE l == Solist
           f == From(freelist)
<1>1. /\ Chains(next, l, f, freelist, sonext, socount)
      /\ l \in Seq(Slots) /\ Len(l) \in Nat /\ DOMAIN l = 1 .. Len(l)
  BY ListsRight DEF ListInv
<1>2. CASE si \notin On(l)
  <2>1. next' = next /\ freelist' = freelist /\ sonext' = sonext
    BY <1>2 DEF FreeInfo
  <2>2. Solist' = Solist /\ From(freelist)' = From(freelist)
    BY <2>1 DEF Solist, From
  <2>3. ListInv'
    BY <2>1, <2>2 DEF ListInv
  <2>4. On(Solist)' = On(Solist)
    BY <2>2 DEF On
  <2> QED BY <1>2, <2>3, <2>4
<1>3. CASE si \in On(l)
  <2> DEFINE prevs == { p \in On(l) : next[p] = si }
             prev == IF prevs = {} THEN NULL ELSE CHOOSE p \in prevs : TRUE
  <2>1. /\ next' = [s \in Slots |-> IF s = si THEN freelist
                                    ELSE IF s = prev THEN next[si] ELSE next[s]]
        /\ sonext' = IF si = sonext THEN prev ELSE sonext
        /\ freelist' = si
    BY <1>3 DEF FreeInfo
  <2>2. Solist = l
    OBVIOUS
  <2> HIDE DEF l, f
  <2>3. PICK k \in 1 .. Len(l) : l[k] = si
    BY <1>1, <1>3 DEF On
  <2>4. libdl_info = l[1] /\ si # libdl_info /\ k # 1
    <3>1. libdl_info = IF Len(l) = 0 THEN NULL ELSE l[1]
      BY <1>1 DEF Chains, IsChain
    <3>2. Len(l) # 0
      BY <1>1, <2>3
    <3> QED BY SMTT(20), <2>3, <3>1, <3>2 DEF PoolEntry, libdl_info
  <2>5. k - 1 \in 1 .. Len(l) /\ k - 1 # Len(l) /\ (k - 1) + 1 = k
    BY <1>1, <2>4
  <2>6. l[k - 1] \in prevs
    <3>1. next[l[k - 1]] = l[k]
      BY ZenonT(30), <1>1, <2>5 DEF Chains, IsChain
    <3> QED BY SMTT(20), <1>1, <2>3, <2>5, <3>1 DEF On
  <2>7. ASSUME NEW p \in prevs PROVE p = l[k - 1]
    <3>1. PICK j \in 1 .. Len(l) : p = l[j]
      BY <1>1 DEF On
    <3>2. next[l[j]] = IF j = Len(l) THEN NULL ELSE l[j + 1]
      BY <1>1 DEF Chains, IsChain
    <3>3. j # Len(l)
      BY <3>1, <3>2, LinkerAssumption DEF NULL, PoolEntry
    <3>4. j + 1 \in 1 .. Len(l) /\ l[j + 1] = l[k]
      <4>1. j + 1 \in 1 .. Len(l)
        <5>1. Len(l) \in Nat
          BY <1>1
        <5> QED BY <3>3, <5>1
      <4> QED BY <2>3, <3>1, <3>2, <3>3, <4>1
    <3>5. j + 1 = k
      BY <1>1, <3>4 DEF Chains, Once
    <3>6. j = k - 1
      BY <1>1, <3>5
    <3> QED BY <3>1, <3>6
  <2>8. prev = l[k - 1]
    <3> HIDE DEF prevs
    <3> QED BY <2>6, <2>7
  <2> HIDE DEF prev
  <2>9. PICK m, g : m = Unlinked(l, k) /\ g = PushOn(si, f)
    OBVIOUS
  <2>10. Chains(next', m, g, freelist', sonext', socount')
    <3>1. PICK pr, b : pr = prev /\ b = next'
      OBVIOUS
    <3>2. Chains([s \in Slots |-> IF s = si THEN freelist
                                  ELSE IF s = pr THEN next[si] ELSE next[s]],
                 Unlinked(l, k), PushOn(si, f), si,
                 IF si = sonext THEN pr ELSE sonext, socount)
      BY <1>1, <2>3, <2>4, <2>8, <3>1, ChainsFreed
    <3> QED BY <2>1, <2>9, <3>1, <3>2
  <2>11. Follow(next', libdl_info) = m /\ Follow(next', freelist') = g
    BY <2>10, ChainsFollowed
  <2>12. Solist' = m /\ From(freelist)' = g
    BY <2>11 DEF Solist, From, libdl_info
  <2>13. ListInv'
    BY <2>10, <2>12 DEF ListInv
  <2>14. On(m) = On(l) \ {si}
    <3>1. /\ Len(m) \in Nat
          /\ \A i \in 1 .. Len(m) :
               Past(i, k) \in 1 .. Len(l) /\ Past(i, k) # k /\ m[i] = l[Past(i, k)]
          /\ \A j \in 1 .. Len(l) : j # k => \E i \in 1 .. Len(m) : m[i] = l[j]
      <4>1. l \in Seq(Slots) /\ k \in 1 .. Len(l)
        BY <1>1
      <4>2. m = Unlinked(l, k)
        BY <2>9
      <4>3. LeftOf(m, l, k)
        BY <4>1, <4>2, UnlinkedLeft
      <4> QED BY <4>3 DEF LeftOf
    <3>2. m \in Seq(Slots) /\ DOMAIN m = 1 .. Len(m)
      BY <1>1, <2>9, UnlinkedList, LenProperties
    <3>3. \A i, j \in 1 .. Len(l) : l[i] = l[j] => i = j
      BY <1>1 DEF Chains, Once
    <3>4. On(l) = { l[x] : x \in 1 .. Len(l) } /\ On(m) = { m[x] : x \in 1 .. Len(m) }
      BY <1>1, <3>2 DEF On
    <3>5. ASSUME NEW e \in On(m) PROVE e \in On(l) /\ e # si
      <4>1. PICK i \in 1 .. Len(m) : e = m[i]
        BY <3>4
      <4>2. Past(i, k) \in 1 .. Len(l) /\ Past(i, k) # k /\ e = l[Past(i, k)]
        BY <3>1, <4>1
      <4> QED BY <2>3, <3>3, <3>4, <4>2
    <3>6. ASSUME NEW e \in On(l), e # si PROVE e \in On(m)
      <4>1. PICK j \in 1 .. Len(l) : e = l[j]
        BY <3>4
      <4>2. j # k
        BY <2>3, <3>6, <4>1
      <4>3. \E i \in 1 .. Len(m) : m[i] = l[j]
        BY <3>1, <4>2
      <4> QED BY <3>4, <4>1, <4>3
    <3> QED BY <3>5, <3>6
  <2>15. On(Solist)' = On(m)
    BY <2>12 DEF On
  <2> QED BY <2>2, <2>13, <2>14, <2>15
<1> QED BY <1>2, <1>3

(* Lists that are left alone stay as they are.                             *)
LEMMA ListsSame ==
  ASSUME UNCHANGED lists
  PROVE  Solist' = Solist /\ On(Solist)' = On(Solist) /\ (ListInv => ListInv')
<1>1. next' = next /\ freelist' = freelist /\ sonext' = sonext /\ socount' = socount
  BY DEF lists
<1>2. Solist' = Solist /\ From(freelist)' = From(freelist)
  BY <1>1 DEF Solist, From
<1> QED BY <1>1, <1>2 DEF ListInv, On

(* find_library finds an entry with the name, when there is one.           *)
LEMMA LookupRight ==
  ASSUME ListInv, NEW n
  PROVE  /\ Lookup(n) # NULL => Lookup(n) \in On(Solist) /\ info[Lookup(n)].name = n
         /\ Lookup(n) = NULL => \A s \in On(Solist) : info[s].name # n
<1> DEFINE l == Solist
           named == { k \in DOMAIN l : info[l[k]].name = n }
<1>1. /\ DOMAIN l = 1 .. Len(l) /\ Len(l) \in Nat /\ l \in Seq(Slots)
      /\ \A k \in 1 .. Len(l) : l[k] \in Slots
  BY ListsRight, ElementOfSeq
<1>2. Lookup(n) = IF named = {} THEN NULL
                  ELSE l[CHOOSE k \in named : \A j \in named : k <= j]
  BY DEF Lookup
<1>3. CASE named = {}
  BY <1>2, <1>3 DEF On
<1>4. CASE named # {}
  <2>1. named \in SUBSET Nat
    BY <1>1
  <2>2. \E k \in named : \A j \in named : k <= j
    <3> HIDE DEF named
    <3> QED BY <1>4, <2>1, LeastNumber
  <2>3. PICK m \in named : Lookup(n) = l[m]
    <3> HIDE DEF named, l
    <3> QED BY <1>2, <1>4, <2>2
  <2>4. Lookup(n) \in On(l) /\ info[Lookup(n)].name = n
    BY <2>3 DEF On
  <2>5. Lookup(n) # NULL
    <3>1. m \in 1 .. Len(l)
      BY <1>1
    <3> QED BY <1>1, <2>3, <3>1 DEF Slots, NULL
  <2> QED BY <2>4, <2>5
<1> QED BY <1>3, <1>4

(* The stack: return, change of the innermost frame, call.                 *)
Pops(s, t)    == Len(t) = Len(s) - 1 /\ \A k \in 1 .. Len(s) - 1 : t[k] = s[k]
Sets(s, t, f) == Len(t) = Len(s) /\ t[Len(s)] = f /\ \A k \in 1 .. Len(s) - 1 : t[k] = s[k]
Calls(s, t, f, g) ==
  /\ Len(t) = Len(s) + 1 /\ t[Len(s)] = f /\ t[Len(s) + 1] = g
  /\ \A k \in 1 .. Len(s) - 1 : t[k] = s[k]

(* Return, Become, Call and CallFrom, by what they leave of the stack.     *)
LEMMA StackOps ==
  ASSUME NEW S, NEW s \in Seq(S), s # << >>
  PROVE  LET b == SubSeq(s, 1, Len(s) - 1)
         IN  /\ Len(s) \in Nat \ {0} /\ s[Len(s)] \in S
             /\ b \in Seq(S) /\ Pops(s, b)
             /\ \A f \in S : Append(b, f) \in Seq(S) /\ Sets(s, Append(b, f), f)
             /\ \A f, g \in S : /\ Append(Append(b, f), g) \in Seq(S)
                                /\ Calls(s, Append(Append(b, f), g), f, g)
             /\ \A g \in S : Append(s, g) \in Seq(S) /\ Calls(s, Append(s, g), s[Len(s)], g)
<1> DEFINE b == SubSeq(s, 1, Len(s) - 1)
<1>1. Len(s) \in Nat \ {0}
  BY EmptySeq, LenProperties
<1>2. s[Len(s)] \in S
  BY <1>1, ElementOfSeq
<1>3. b \in Seq(S) /\ Len(b) = Len(s) - 1 /\ \A i \in 1 .. Len(s) - 1 : b[i] = s[i]
  <2>1. PICK n \in Nat : n = Len(s) - 1
    BY <1>1
  <2>2. 1 \in 1 .. Len(s) + 1 /\ n \in 0 .. Len(s)
    BY <1>1, <2>1
  <2>3. /\ SubSeq(s, 1, n) \in Seq(S)
        /\ Len(SubSeq(s, 1, n)) = IF 1 <= n THEN n - 1 + 1 ELSE 0
        /\ \A i \in 1 .. n - 1 + 1 : SubSeq(s, 1, n)[i] = s[1 + i - 1]
    BY <2>2, SubSeqProperties
  <2>4. b = SubSeq(s, 1, n)
    BY <2>1
  <2> HIDE DEF b
  <2> QED BY <2>1, <2>3, <2>4
<1> HIDE DEF b
<1>4. ASSUME NEW f \in S
      PROVE  /\ Append(b, f) \in Seq(S) /\ Len(Append(b, f)) = Len(s)
             /\ Append(b, f)[Len(s)] = f
             /\ \A k \in 1 .. Len(s) - 1 : Append(b, f)[k] = s[k]
  BY <1>1, <1>3, AppendProperties
<1>5. ASSUME NEW f \in S, NEW g \in S
      PROVE  /\ Append(Append(b, f), g) \in Seq(S)
             /\ Calls(s, Append(Append(b, f), g), f, g)
  <2>1. PICK c : c = Append(b, f)
    OBVIOUS
  <2>2. /\ c \in Seq(S) /\ Len(c) = Len(s) /\ c[Len(s)] = f
        /\ \A k \in 1 .. Len(s) - 1 : c[k] = s[k]
    BY <1>4, <2>1
  <2>3. /\ Append(c, g) \in Seq(S) /\ Len(Append(c, g)) = Len(s) + 1
        /\ Append(c, g)[Len(s) + 1] = g
        /\ \A k \in 1 .. Len(s) : Append(c, g)[k] = c[k]
    BY <2>2, AppendProperties
  <2>4. Append(c, g)[Len(s)] = f /\ \A k \in 1 .. Len(s) - 1 : Append(c, g)[k] = s[k]
    BY <1>1, <2>2, <2>3
  <2> QED BY <2>1, <2>3, <2>4 DEF Calls
<1>6. ASSUME NEW g \in S
      PROVE  Append(s, g) \in Seq(S) /\ Calls(s, Append(s, g), s[Len(s)], g)
  <2>1. /\ Append(s, g) \in Seq(S) /\ Len(Append(s, g)) = Len(s) + 1
        /\ Append(s, g)[Len(s) + 1] = g
        /\ \A k \in 1 .. Len(s) : Append(s, g)[k] = s[k]
    BY AppendProperties
  <2>2. Append(s, g)[Len(s)] = s[Len(s)] /\ \A k \in 1 .. Len(s) - 1 : Append(s, g)[k] = s[k]
    BY <1>1, <2>1
  <2> QED BY <2>1, <2>2 DEF Calls
<1> QED BY <1>1, <1>2, <1>3, <1>4, <1>5, <1>6 DEF b, Pops, Sets

(* The same, of the calls in progress.                                     *)
LEMMA StackSteps ==
  ASSUME LinkerTypes, stack # << >>
  PROVE  /\ Len(stack) \in Nat \ {0} /\ Top \in Frames /\ Top = stack[Len(stack)]
         /\ stack' = Beneath => stack' \in Seq(Frames) /\ Pops(stack, stack')
         /\ \A f \in Frames : Become(f) => stack' \in Seq(Frames) /\ Sets(stack, stack', f)
         /\ \A f \in Frames, g \in Frames :
              CallFrom(f, g) => stack' \in Seq(Frames) /\ Calls(stack, stack', f, g)
         /\ \A g \in Frames :
              Call(g) => stack' \in Seq(Frames) /\ Calls(stack, stack', Top, g)
<1>1. stack \in Seq(Frames)
  BY DEF LinkerTypes
<1>2. LET b == SubSeq(stack, 1, Len(stack) - 1)
      IN  /\ Len(stack) \in Nat \ {0} /\ stack[Len(stack)] \in Frames
          /\ b \in Seq(Frames) /\ Pops(stack, b)
          /\ \A f \in Frames : Append(b, f) \in Seq(Frames) /\ Sets(stack, Append(b, f), f)
          /\ \A f, g \in Frames : /\ Append(Append(b, f), g) \in Seq(Frames)
                                  /\ Calls(stack, Append(Append(b, f), g), f, g)
          /\ \A g \in Frames : /\ Append(stack, g) \in Seq(Frames)
                               /\ Calls(stack, Append(stack, g), stack[Len(stack)], g)
  BY <1>1, StackOps
<1>3. Top = stack[Len(stack)] /\ Beneath = SubSeq(stack, 1, Len(stack) - 1)
  BY DEF Top, Beneath
<1>4. ASSUME NEW f \in Frames, Become(f) PROVE stack' \in Seq(Frames) /\ Sets(stack, stack', f)
  BY <1>2, <1>3, <1>4 DEF Become
<1>5. ASSUME NEW f \in Frames, NEW g \in Frames, CallFrom(f, g)
      PROVE  stack' \in Seq(Frames) /\ Calls(stack, stack', f, g)
  BY <1>2, <1>3, <1>5 DEF CallFrom
<1>6. ASSUME NEW g \in Frames, Call(g)
      PROVE  stack' \in Seq(Frames) /\ Calls(stack, stack', Top, g)
  BY <1>2, <1>3, <1>6 DEF Call
<1>7. ASSUME stack' = Beneath PROVE stack' \in Seq(Frames) /\ Pops(stack, stack')
  BY <1>2, <1>3, <1>7
<1> QED BY <1>2, <1>3, <1>4, <1>5, <1>6, <1>7

(* The frames that the steps make.                                         *)
Is(f, fn, si, i, n) == f.fn = fn /\ f.si = si /\ f.i = i /\ f.name = n

(* What the fields of a frame are, by its function.                        *)
LEMMA FrameFields ==
  ASSUME NEW f \in Frames
  PROVE  /\ f.fn \in Finding \cup Holding \cup {"dlopen"} /\ f.si \in PoolEntry \cup {NULL}
         /\ f.i \in Nat /\ f.name \in Libraries
         /\ f.fn \in Finding => f.name # LibDL
         /\ f.fn \in Holding => f.si \in PoolEntry
         /\ f.fn = "link_image" => f.i >= 1
BY DEF Frames

(* A frame made from fields of those kinds is a frame.                     *)
LEMMA FrameMade ==
  ASSUME NEW fn \in Finding \cup Holding \cup {"dlopen"}, NEW si \in PoolEntry \cup {NULL},
         NEW i \in Nat, NEW n \in Libraries,
         fn \in Finding => n # LibDL, fn \in Holding => si # NULL,
         fn = "link_image" => i >= 1
  PROVE  Frame(fn, si, i, n) \in Frames /\ Is(Frame(fn, si, i, n), fn, si, i, n)
BY DEF Frame, Frames, Is

(* So is a frame that moved on to its next entry.                          *)
LEMMA FrameMoved ==
  ASSUME NEW f \in Frames, NEW j \in Nat \ {0}
  PROVE  [f EXCEPT !.i = j] \in Frames /\ Is([f EXCEPT !.i = j], f.fn, f.si, j, f.name)
BY DEF Frames, Is

(* So is a frame that was given its soinfo.                                *)
LEMMA FrameGiven ==
  ASSUME NEW f \in Frames, NEW s \in PoolEntry
  PROVE  [f EXCEPT !.si = s] \in Frames /\ Is([f EXCEPT !.si = s], f.fn, s, f.i, f.name)
<1>1. s # NULL
  BY DEF PoolEntry, NULL
<1> QED BY <1>1 DEF Frames, Is

(* What the steps do to the stack and to the soinfo structures.            *)
Moving(fn, si, i, n) == \E f \in Frames : Sets(stack, stack', f) /\ Is(f, fn, si, i, n)
Calling(si, i, fn, s, n) ==
  \E f, g \in Frames : /\ Calls(stack, stack', f, g)
                       /\ Is(f, Top.fn, si, i, Top.name) /\ Is(g, fn, s, 0, n)
Only(a) == \A s \in Slots : s # a => info'[s] = info[s]

TypeInv == LinkerTypes /\ ListInv

(* The entries of the pool are slots, libdl_info is the only other one,    *)
(* and NULL is none.                                                       *)
LEMMA PoolEntries ==
  /\ PoolEntry \subseteq Slots /\ NULL \notin Slots /\ NOTHING \notin Slots
  /\ libdl_info \notin PoolEntry /\ Slots = PoolEntry \cup {libdl_info}
  /\ \A s \in Slots : s # libdl_info => s \in PoolEntry
BY LinkerAssumption DEF PoolEntry, Slots, NULL, NOTHING, libdl_info

(* find_library.                                                           *)
LEMMA FindLibraryStep ==
  ASSUME TypeInv, FindLibrary
  PROVE  /\ TypeInv' /\ UNCHANGED << lists, info, handles, debugMap >>
         /\ stack # << >> /\ Top.fn = "find_library"
         /\ \/ Pops(stack, stack') /\ ret' = NULL
            \/ /\ Pops(stack, stack') /\ ret' \in On(Solist) /\ ret' \in PoolEntry
               /\ info[ret'].linked /\ ~info[ret'].error /\ info[ret'].name = Top.name
            \/ Moving("load_library", NULL, 0, Top.name) /\ ret' = ret
<1> DEFINE si == Lookup(Top.name)
<1>1. /\ stack # << >> /\ Top.fn = "find_library"
      /\ IF si # NULL
         THEN Return(IF info[si].linked /\ ~info[si].error THEN si ELSE NULL)
         ELSE Become(Frame("load_library", NULL, 0, Top.name)) /\ ret' = ret
      /\ info' = info /\ UNCHANGED lists /\ handles' = handles /\ UNCHANGED debugMap
  BY DEF FindLibrary, InFn, pool
<1>2. Top \in Frames /\ Top.name \in Libraries /\ Top.name # LibDL
  BY <1>1, StackSteps, FrameFields DEF TypeInv, Finding
<1>3. si # NULL => si \in On(Solist) /\ si \in PoolEntry /\ info[si].name = Top.name
  <2>1. si # NULL => si \in On(Solist) /\ info[si].name = Top.name
    BY LookupRight DEF TypeInv
  <2>2. On(Solist) \subseteq Slots /\ info[libdl_info].name = LibDL
    BY ListsRight DEF TypeInv, LinkerTypes
  <2> HIDE DEF si
  <2> QED BY <1>2, <2>1, <2>2, PoolEntries
<1> HIDE DEF si
<1>4. CASE si # NULL /\ info[si].linked /\ ~info[si].error
  <2>1. stack' = Beneath /\ ret' = si
    BY <1>1, <1>4 DEF Return
  <2>2. stack' \in Seq(Frames) /\ Pops(stack, stack')
    BY <1>1, <2>1, StackSteps DEF TypeInv
  <2> QED BY <1>1, <1>3, <1>4, <2>1, <2>2, ListsSame DEF TypeInv, LinkerTypes
<1>5. CASE si # NULL /\ ~(info[si].linked /\ ~info[si].error)
  <2>1. stack' = Beneath /\ ret' = NULL
    BY <1>1, <1>5 DEF Return
  <2>2. stack' \in Seq(Frames) /\ Pops(stack, stack')
    BY <1>1, <2>1, StackSteps DEF TypeInv
  <2> QED BY <1>1, <2>1, <2>2, ListsSame DEF TypeInv, LinkerTypes
<1>6. CASE si = NULL
  <2> DEFINE f == Frame("load_library", NULL, 0, Top.name)
  <2>1. f \in Frames /\ Is(f, "load_library", NULL, 0, Top.name)
    BY <1>2, FrameMade DEF Finding, Holding
  <2>2. Become(f) /\ ret' = ret
    BY <1>1, <1>6
  <2> HIDE DEF f
  <2>3. stack' \in Seq(Frames) /\ Sets(stack, stack', f)
    BY <1>1, <2>1, <2>2, StackSteps DEF TypeInv
  <2>4. Moving("load_library", NULL, 0, Top.name)
    BY <2>1, <2>3 DEF Moving
  <2> QED BY <1>1, <2>2, <2>3, <2>4, ListsSame DEF TypeInv, LinkerTypes
<1> QED BY <1>4, <1>5, <1>6

(* load_library, as far as the soinfo.                                     *)
LEMMA LoadRefusedStep ==
  ASSUME TypeInv, LoadRefused
  PROVE  /\ TypeInv' /\ UNCHANGED << lists, info, handles, debugMap >>
         /\ stack # << >> /\ Top.fn = "load_library"
         /\ Pops(stack, stack') /\ ret' = NULL
<1>1. /\ stack # << >> /\ Top.fn = "load_library" /\ stack' = Beneath /\ ret' = NULL
      /\ info' = info /\ UNCHANGED lists /\ handles' = handles /\ UNCHANGED debugMap
  BY DEF LoadRefused, InFn, Return, pool
<1>2. stack' \in Seq(Frames) /\ Pops(stack, stack')
  BY <1>1, StackSteps DEF TypeInv
<1> QED BY <1>1, <1>2, ListsSame DEF TypeInv, LinkerTypes

(* The fields of a new soinfo and of a stub.                               *)
LEMMA SoinfoMade ==
  ASSUME NEW n \in Libraries
  PROVE  /\ Soinfo(n) \in Soinfos /\ Stub(n) \in Soinfos
         /\ Soinfo(n).name = n /\ ~Soinfo(n).linked /\ ~Soinfo(n).error
         /\ Soinfo(n).refcount = 0 /\ Soinfo(n).deps = << >> /\ Soinfo(n).image = "none"
         /\ ~Soinfo(n).constructors_called /\ Soinfo(n).inits = 0 /\ Soinfo(n).finis = 0
         /\ Stub(n).name = n /\ Stub(n).linked /\ ~Stub(n).error
         /\ Stub(n).refcount = 0 /\ Stub(n).deps = << >> /\ Stub(n).image = "none"
         /\ ~Stub(n).constructors_called /\ Stub(n).inits = 0 /\ Stub(n).finis = 0
<1>1. << >> \in Seq(PoolEntry \cup {NULL})
  OBVIOUS
<1>2. PICK r : r = Soinfo(n)
  OBVIOUS
<1>3. /\ r \in Soinfos /\ r.name = n /\ ~r.linked /\ ~r.error
      /\ r.refcount = 0 /\ r.deps = << >> /\ r.image = "none"
      /\ ~r.constructors_called /\ r.inits = 0 /\ r.finis = 0
  BY <1>1, <1>2 DEF Soinfo, Soinfos, Images
<1>4. PICK q : q = Stub(n)
  OBVIOUS
<1>5. q = [r EXCEPT !.linked = TRUE]
  BY <1>2, <1>4 DEF Stub
<1>6. /\ q \in Soinfos /\ q.name = n /\ q.linked /\ ~q.error
      /\ q.refcount = 0 /\ q.deps = << >> /\ q.image = "none"
      /\ ~q.constructors_called /\ q.inits = 0 /\ q.finis = 0
  BY <1>3, <1>5 DEF Soinfos
<1> QED BY <1>2, <1>3, <1>4, <1>6

(* A new soinfo in an entry of the pool.                                   *)
LEMMA SlotGiven ==
  ASSUME LinkerTypes, NEW a \in PoolEntry, NEW r \in Soinfos,
         info' = [info EXCEPT ![a] = r]
  PROVE  /\ info' \in [Slots -> Soinfos] /\ info'[libdl_info].name = LibDL
         /\ Only(a) /\ info'[a] = r
<1>1. a \in Slots /\ a # libdl_info /\ libdl_info \in Slots
  BY PoolEntries
<1> QED BY <1>1 DEF LinkerTypes, Only

(* load_library takes a soinfo, or there is none left.                     *)
LEMMA LoadAllocStep ==
  ASSUME TypeInv, LoadAlloc
  PROVE  /\ TypeInv' /\ handles' = handles
         /\ stack # << >> /\ Top.fn = "load_library" /\ Top.si = NULL
         /\ \/ Pops(stack, stack') /\ ret' = NULL /\ UNCHANGED << lists, info, debugMap >>
            \/ \E a \in PoolEntry :
                 /\ a \notin On(Solist) /\ On(Solist)' = On(Solist) \cup {a}
                 /\ Only(a) /\ info'[a] = Soinfo(Top.name) /\ Top.name \in Libraries
                 /\ Top.name # LibDL /\ ClearLinkMap(a)
                 /\ Moving("load_library", a, Top.i, Top.name) /\ ret' = ret
<1>1. /\ stack # << >> /\ Top.fn = "load_library" /\ Top.si = NULL /\ handles' = handles
      /\ IF CanAlloc
         THEN /\ AllocInfo(Soinfo(Top.name))
              /\ Become([Top EXCEPT !.si = AllocSlot])
              /\ ret' = ret
         ELSE Return(NULL) /\ UNCHANGED << pool, debugMap >>
  BY DEF LoadAlloc, InFn
<1>2. Top \in Frames /\ Top.name \in Libraries /\ Top.name # LibDL
  BY <1>1, StackSteps, FrameFields DEF TypeInv, Finding
<1>3. CASE ~CanAlloc
  <2>1. stack' = Beneath /\ ret' = NULL /\ info' = info /\ UNCHANGED << lists, debugMap >>
    BY <1>1, <1>3 DEF Return, pool
  <2>2. stack' \in Seq(Frames) /\ Pops(stack, stack')
    BY <1>1, <2>1, StackSteps DEF TypeInv
  <2> QED BY <1>1, <2>1, <2>2, ListsSame DEF TypeInv, LinkerTypes
<1>4. CASE CanAlloc
  <2>1. /\ AllocInfo(Soinfo(Top.name)) /\ ret' = ret
        /\ Become([Top EXCEPT !.si = AllocSlot])
    BY <1>1, <1>4
  <2>2. /\ ListInv' /\ On(Solist)' = On(Solist) \cup {AllocSlot}
        /\ AllocSlot \in PoolEntry /\ AllocSlot \notin On(Solist)
    BY <2>1, AllocKeeps DEF TypeInv
  <2>3. PICK a : a = AllocSlot
    OBVIOUS
  <2>4. info' = [info EXCEPT ![a] = Soinfo(Top.name)] /\ ClearLinkMap(a)
    BY <2>1, <2>3 DEF AllocInfo
  <2>5. PICK r : r = Soinfo(Top.name)
    OBVIOUS
  <2>6. r \in Soinfos /\ info' = [info EXCEPT ![a] = r]
    BY <1>2, <2>4, <2>5, SoinfoMade
  <2>7. /\ info' \in [Slots -> Soinfos] /\ info'[libdl_info].name = LibDL
        /\ Only(a) /\ info'[a] = r
    BY <2>2, <2>3, <2>6, SlotGiven DEF TypeInv
  <2>8. PICK f : f = [Top EXCEPT !.si = a]
    OBVIOUS
  <2>9. f \in Frames /\ Is(f, "load_library", a, Top.i, Top.name)
    BY <1>1, <1>2, <2>2, <2>3, <2>8, FrameGiven
  <2>10. Become(f)
    BY <2>1, <2>3, <2>8
  <2>11. stack' \in Seq(Frames) /\ Sets(stack, stack', f)
    BY <1>1, <2>9, <2>10, StackSteps DEF TypeInv
  <2>12. Moving("load_library", a, Top.i, Top.name)
    BY <2>9, <2>11 DEF Moving
  <2>13. TypeInv'
    BY <1>1, <2>1, <2>2, <2>7, <2>11 DEF TypeInv, LinkerTypes
  <2>14. On(Solist)' = On(Solist) \cup {a} /\ a \in PoolEntry /\ a \notin On(Solist)
    BY <2>2, <2>3
  <2> QED BY <1>1, <1>2, <2>1, <2>4, <2>5, <2>7, <2>12, <2>13, <2>14
<1> QED BY <1>3, <1>4

(* A change inside the soinfo of an entry of the pool.                     *)
LEMMA InfoFields ==
  ASSUME LinkerTypes, NEW s \in Slots
  PROVE  /\ info[s] \in Soinfos
         /\ info[s].name \in Libraries /\ info[s].linked \in BOOLEAN
         /\ info[s].error \in BOOLEAN /\ info[s].refcount \in Int
         /\ info[s].constructors_called \in BOOLEAN /\ info[s].image \in Images
         /\ info[s].deps \in Seq(PoolEntry \cup {NULL})
         /\ info[s].inits \in Nat /\ info[s].finis \in Nat
<1>1. info[s] \in Soinfos
  BY DEF LinkerTypes
<1> QED BY <1>1 DEF Soinfos

(* load_segments, and a load that fails.                                   *)
LEMMA LoadSegmentsStep ==
  ASSUME TypeInv, LoadSegments
  PROVE  /\ TypeInv' /\ UNCHANGED << lists, ret, handles, debugMap >>
         /\ stack # << >> /\ Top.fn = "load_library" /\ Top.si \in PoolEntry
         /\ Only(Top.si) /\ info'[Top.si] = [info[Top.si] EXCEPT !.image = "mapped"]
         /\ Moving("link_image", Top.si, 1, Top.name)
<1>1. /\ stack # << >> /\ Top.fn = "load_library" /\ Top.si # NULL
      /\ info' = [info EXCEPT ![Top.si].image = "mapped"]
      /\ Become(Frame("link_image", Top.si, 1, Top.name))
      /\ UNCHANGED << lists, ret, handles, debugMap >>
  BY DEF LoadSegments, InFn
<1>2. Top \in Frames /\ Top.name \in Libraries /\ Top.si \in PoolEntry
  BY <1>1, StackSteps, FrameFields DEF TypeInv
<1>3. PICK a \in PoolEntry : a = Top.si
  BY <1>2
<1>4. PICK r : r = [info[a] EXCEPT !.image = "mapped"]
  OBVIOUS
<1>5. a \in Slots
  BY <1>3, PoolEntries
<1>6. r \in Soinfos
  BY <1>4, <1>5, InfoFields DEF TypeInv, Soinfos, Images
<1>7. info' = [info EXCEPT ![a] = r]
  BY <1>1, <1>3, <1>4, <1>5 DEF TypeInv, LinkerTypes
<1>8. /\ info' \in [Slots -> Soinfos] /\ info'[libdl_info].name = LibDL
      /\ Only(a) /\ info'[a] = r
  BY <1>6, <1>7, SlotGiven DEF TypeInv
<1>9. PICK f : f = Frame("link_image", Top.si, 1, Top.name)
  OBVIOUS
<1>10. f \in Frames /\ Is(f, "link_image", Top.si, 1, Top.name)
  <2>1. PICK s \in PoolEntry, n \in Libraries : s = Top.si /\ n = Top.name
    BY <1>2
  <2>2. s # NULL
    BY <1>1, <2>1
  <2>3. /\ Frame("link_image", s, 1, n) \in Frames
        /\ Is(Frame("link_image", s, 1, n), "link_image", s, 1, n)
    BY <2>2, FrameMade DEF Finding, Holding
  <2> QED BY <1>9, <2>1, <2>3
<1>11. stack' \in Seq(Frames) /\ Sets(stack, stack', f)
  BY <1>1, <1>9, <1>10, StackSteps DEF TypeInv
<1>12. Moving("link_image", Top.si, 1, Top.name)
  BY <1>10, <1>11 DEF Moving
<1>13. TypeInv'
  BY <1>1, <1>8, <1>11, ListsSame DEF TypeInv, LinkerTypes
<1> QED BY <1>1, <1>2, <1>3, <1>4, <1>8, <1>12, <1>13

(* load_library frees its soinfo.                                          *)
LEMMA LoadFailsStep ==
  ASSUME TypeInv, LoadFails
  PROVE  /\ TypeInv' /\ UNCHANGED << info, handles, debugMap >>
         /\ stack # << >> /\ Top.fn = "load_library" /\ Top.si \in PoolEntry
         /\ On(Solist)' = On(Solist) \ {Top.si} /\ Pops(stack, stack') /\ ret' = NULL
<1>1. /\ stack # << >> /\ Top.fn = "load_library" /\ Top.si # NULL
      /\ FreeInfo(Top.si) /\ stack' = Beneath /\ ret' = NULL
      /\ UNCHANGED << info, socount, handles, debugMap >>
  BY DEF LoadFails, InFn, Return
<1>2. Top.si \in PoolEntry
  BY <1>1, StackSteps, FrameFields DEF TypeInv
<1>3. stack' \in Seq(Frames) /\ Pops(stack, stack')
  BY <1>1, StackSteps DEF TypeInv
<1>4. PICK a : a = Top.si
  OBVIOUS
<1>5. ListInv' /\ On(Solist)' = On(Solist) \ {a}
  BY <1>1, <1>2, <1>4, FreeKeeps DEF TypeInv
<1>6. TypeInv'
  BY <1>1, <1>3, <1>5 DEF TypeInv, LinkerTypes
<1> QED BY <1>1, <1>2, <1>3, <1>4, <1>5, <1>6

(* link_image: the four ways it fails.                                     *)
LinkFails == LinkParseFail \/ (LinkNeeded /\ ret = NULL) \/ LinkRelocFail
             \/ (LinkFinish /\ LinkFail(TRUE))

(* link_image fails in one of four places, always in the same way.         *)
LEMMA LinkFailStep ==
  ASSUME TypeInv, LinkFails
  PROVE  /\ TypeInv' /\ UNCHANGED << lists, handles, debugMap >>
         /\ stack # << >> /\ Top.fn = "link_image" /\ Top.si \in PoolEntry
         /\ Only(Top.si)
         /\ \E b \in BOOLEAN :
              info'[Top.si] = [info[Top.si] EXCEPT !.error = TRUE, !.linked = b,
                                                   !.image = "unmapped"]
         /\ Pops(stack, stack') /\ ret' = NULL
<1>1. PICK b \in BOOLEAN :
        /\ stack # << >> /\ Top.fn = "link_image"
        /\ info' = [info EXCEPT ![Top.si].error = TRUE, ![Top.si].linked = b,
                                ![Top.si].image = "unmapped"]
        /\ stack' = Beneath /\ ret' = NULL
        /\ UNCHANGED << lists, handles, debugMap >>
  <2>1. \E b \in BOOLEAN : LinkFail(b) /\ stack # << >> /\ Top.fn = "link_image"
                           /\ UNCHANGED << lists, handles >>
    BY DEF LinkFails, LinkParseFail, LinkNeeded, LinkRelocFail, LinkFinish, InFn
  <2> QED BY <2>1 DEF LinkFail, Return
<1>2. Top.si \in PoolEntry
  BY <1>1, StackSteps, FrameFields DEF TypeInv, Holding
<1>3. PICK a \in PoolEntry : a = Top.si
  BY <1>2
<1>4. PICK r : r = [info[a] EXCEPT !.error = TRUE, !.linked = b, !.image = "unmapped"]
  OBVIOUS
<1>5. a \in Slots
  BY <1>3, PoolEntries
<1>6. r \in Soinfos
  BY <1>4, <1>5, InfoFields DEF TypeInv, Soinfos, Images
<1>7. info' = [info EXCEPT ![a] = r]
  BY <1>1, <1>3, <1>4, <1>5 DEF TypeInv, LinkerTypes
<1>8. /\ info' \in [Slots -> Soinfos] /\ info'[libdl_info].name = LibDL
      /\ Only(a) /\ info'[a] = r
  BY <1>6, <1>7, SlotGiven DEF TypeInv
<1>9. stack' \in Seq(Frames) /\ Pops(stack, stack')
  BY <1>1, StackSteps DEF TypeInv
<1>10. TypeInv'
  BY <1>1, <1>8, <1>9, ListsSame DEF TypeInv, LinkerTypes
<1> QED BY <1>1, <1>2, <1>3, <1>4, <1>8, <1>9, <1>10

(* link_image looks for the next library it needs.                         *)
LEMMA LinkFindStep ==
  ASSUME TypeInv, LibDLUnnamed, LinkFind
  PROVE  /\ TypeInv' /\ UNCHANGED << lists, info, ret, handles, debugMap >>
         /\ stack # << >> /\ Top.fn = "link_image" /\ Top.si \in PoolEntry /\ ret = NOTHING
         /\ Top.i \in 1 .. Len(NeededBy(Top.si))
         /\ Calling(Top.si, Top.i, "find_library", NULL, NeededBy(Top.si)[Top.i])
<1>1. /\ stack # << >> /\ Top.fn = "link_image" /\ Top.i <= Len(NeededBy(Top.si))
      /\ ret = NOTHING
      /\ Call(Frame("find_library", NULL, 0, NeededBy(Top.si)[Top.i]))
      /\ UNCHANGED << pool, ret, handles, debugMap >>
  BY DEF LinkFind, InFn
<1>2. info' = info /\ UNCHANGED lists /\ ret' = ret /\ handles' = handles /\ UNCHANGED debugMap
  BY <1>1 DEF pool
<1>3. Top \in Frames /\ Top.si \in PoolEntry /\ Top.i \in Nat /\ Top.i >= 1
  BY <1>1, StackSteps, FrameFields DEF TypeInv, Holding
<1>4. PICK n : n = NeededBy(Top.si)[Top.i]
  OBVIOUS
<1>5. NeededBy(Top.si) \in Seq(Libraries)
  BY <1>3, PoolEntries, InfoFields, LinkerAssumption DEF TypeInv, NeededBy
<1>6. Top.i \in 1 .. Len(NeededBy(Top.si))
  BY <1>1, <1>3, <1>5, LenProperties
<1>7. n \in Libraries
  BY <1>4, <1>5, <1>6, ElementOfSeq
<1>8. n # LibDL
  <2>1. info[Top.si].name \in Libraries
    BY <1>3, PoolEntries, InfoFields DEF TypeInv
  <2> QED BY <1>4, <1>6, <2>1 DEF LibDLUnnamed, NeededBy
<1>9. PICK g : g = Frame("find_library", NULL, 0, n)
  OBVIOUS
<1>10. g \in Frames /\ Is(g, "find_library", NULL, 0, n)
  BY <1>7, <1>8, <1>9, FrameMade DEF Finding, Holding
<1>11. stack' \in Seq(Frames) /\ Calls(stack, stack', Top, g)
  BY <1>1, <1>4, <1>9, <1>10, StackSteps DEF TypeInv
<1>12. Calling(Top.si, Top.i, "find_library", NULL, n)
  BY <1>3, <1>10, <1>11 DEF Calling, Is
<1>13. TypeInv'
  BY <1>2, <1>11, ListsSame DEF TypeInv, LinkerTypes
<1> QED BY <1>1, <1>2, <1>3, <1>4, <1>6, <1>12, <1>13

(* link_image records what was found, one more user of it.                 *)
LEMMA LinkNeededStep ==
  ASSUME TypeInv, LinkNeeded, ret # NULL
  PROVE  /\ TypeInv' /\ UNCHANGED << lists, handles, debugMap >>
         /\ stack # << >> /\ Top.fn = "link_image" /\ Top.si \in PoolEntry
         /\ ret \in PoolEntry /\ ret' = NOTHING
         /\ info' = [info EXCEPT ![Top.si].deps = Append(@, ret), ![ret].refcount = @ + 1]
         /\ Moving("link_image", Top.si, Top.i + 1, Top.name)
<1>1. /\ stack # << >> /\ Top.fn = "link_image" /\ ret # NOTHING /\ ret' = NOTHING
      /\ info' = [info EXCEPT ![Top.si].deps = Append(@, ret), ![ret].refcount = @ + 1]
      /\ Become([Top EXCEPT !.i = @ + 1])
      /\ UNCHANGED << lists, handles, debugMap >>
  BY DEF LinkNeeded, InFn
<1>2. Top \in Frames /\ Top.si \in PoolEntry /\ Top.i \in Nat
  BY <1>1, StackSteps, FrameFields DEF TypeInv, Holding
<1>3. ret \in PoolEntry
  BY <1>1 DEF TypeInv, LinkerTypes
<1>4. PICK a \in PoolEntry, b \in PoolEntry : a = Top.si /\ b = ret
  BY <1>2, <1>3
<1>5. a \in Slots /\ b \in Slots
  BY <1>4, PoolEntries
<1>6. PICK r : r = [info[a] EXCEPT !.deps = Append(@, b)]
  OBVIOUS
<1>7. r \in Soinfos
  <2>1. info[a] \in Soinfos /\ info[a].deps \in Seq(PoolEntry \cup {NULL})
    BY <1>5, InfoFields DEF TypeInv
  <2>2. Append(info[a].deps, b) \in Seq(PoolEntry \cup {NULL})
    BY <1>4, <2>1, AppendProperties
  <2> QED BY <1>6, <2>1, <2>2 DEF Soinfos
<1>8. PICK h : h = [info EXCEPT ![a] = r]
  OBVIOUS
<1>9. h \in [Slots -> Soinfos] /\ h[libdl_info].name = LibDL
  <2>1. a # libdl_info /\ libdl_info \in Slots
    BY PoolEntries
  <2> QED BY <1>5, <1>7, <1>8, <2>1 DEF TypeInv, LinkerTypes
<1>10. info' = [h EXCEPT ![b].refcount = @ + 1]
  BY <1>1, <1>4, <1>5, <1>6, <1>8 DEF TypeInv, LinkerTypes
<1>11. info' \in [Slots -> Soinfos] /\ info'[libdl_info].name = LibDL
  <2>1. PICK q : q = [h[b] EXCEPT !.refcount = @ + 1]
    OBVIOUS
  <2>2. h[b] \in Soinfos
    BY <1>5, <1>9
  <2>3. q \in Soinfos /\ q.name = h[b].name
    BY SMTT(20), <2>1, <2>2 DEF Soinfos
  <2>4. info' = [h EXCEPT ![b] = q]
    BY <1>5, <1>9, <1>10, <2>1
  <2>5. b # libdl_info /\ libdl_info \in Slots
    BY PoolEntries
  <2> QED BY <1>5, <1>9, <2>3, <2>4, <2>5
<1>12. PICK f : f = [Top EXCEPT !.i = Top.i + 1]
  OBVIOUS
<1>13. f \in Frames /\ Is(f, Top.fn, Top.si, Top.i + 1, Top.name)
  <2>1. Top.i + 1 \in Nat \ {0}
    BY <1>2
  <2> QED BY <1>2, <1>12, <2>1, FrameMoved
<1>14. stack' \in Seq(Frames) /\ Sets(stack, stack', f)
  <2>1. Become(f)
    BY <1>1, <1>12
  <2> QED BY <1>1, <1>13, <2>1, StackSteps DEF TypeInv
<1>15. Moving("link_image", Top.si, Top.i + 1, Top.name)
  BY SMTT(20), <1>1, <1>13, <1>14 DEF Moving, Is
<1>16. TypeInv'
  BY <1>1, <1>11, <1>14, ListsSame DEF TypeInv, LinkerTypes
<1> QED BY <1>1, <1>2, <1>3, <1>15, <1>16

(* link_image succeeds.                                                    *)
LEMMA LinkedStep ==
  ASSUME TypeInv, LinkFinish, ~LinkFail(TRUE)
  PROVE  /\ TypeInv' /\ UNCHANGED << lists, handles >> /\ InsertLinkMap(Top.si)
         /\ stack # << >> /\ Top.fn = "link_image" /\ Top.si \in PoolEntry /\ ret = NOTHING
         /\ Only(Top.si) /\ info'[Top.si] = [info[Top.si] EXCEPT !.linked = TRUE]
         /\ Top.i > Len(NeededBy(Top.si))
         /\ Pops(stack, stack') /\ ret' = Top.si
<1>1. /\ stack # << >> /\ Top.fn = "link_image" /\ ret = NOTHING
      /\ info' = [info EXCEPT ![Top.si].linked = TRUE]
      /\ Top.i > Len(NeededBy(Top.si))
      /\ stack' = Beneath /\ ret' = Top.si
      /\ InsertLinkMap(Top.si) /\ UNCHANGED << lists, handles >>
  BY DEF LinkFinish, InFn, Return
<1>2. Top.si \in PoolEntry
  BY <1>1, StackSteps, FrameFields DEF TypeInv, Holding
<1>3. PICK a \in PoolEntry : a = Top.si
  BY <1>2
<1>4. PICK r : r = [info[a] EXCEPT !.linked = TRUE]
  OBVIOUS
<1>5. a \in Slots
  BY <1>3, PoolEntries
<1>6. r \in Soinfos
  BY <1>4, <1>5, InfoFields DEF TypeInv, Soinfos
<1>7. info' = [info EXCEPT ![a] = r]
  BY <1>1, <1>3, <1>4, <1>5 DEF TypeInv, LinkerTypes
<1>8. /\ info' \in [Slots -> Soinfos] /\ info'[libdl_info].name = LibDL
      /\ Only(a) /\ info'[a] = r
  BY <1>6, <1>7, SlotGiven DEF TypeInv
<1>9. stack' \in Seq(Frames) /\ Pops(stack, stack')
  BY <1>1, StackSteps DEF TypeInv
<1>10. TypeInv'
  BY <1>1, <1>2, <1>8, <1>9, ListsSame DEF TypeInv, LinkerTypes
<1> QED BY <1>1, <1>2, <1>3, <1>4, <1>8, <1>9, <1>10

(* dlopen.                                                                 *)
LEMMA DlopenStep ==
  ASSUME TypeInv, LibDLUnnamed, NEW n \in Opened, Dlopen(n)
  PROVE  /\ TypeInv' /\ UNCHANGED << lists, info, ret, handles, debugMap >>
         /\ stack = << >> /\ n # LibDL
         /\ Len(stack') = 2 /\ stack' \in Seq(Frames)
         /\ Is(stack'[1], "dlopen", NULL, 0, n) /\ Is(stack'[2], "find_library", NULL, 0, n)
<1>1. /\ stack = << >>
      /\ stack' = << Frame("dlopen", NULL, 0, n), Frame("find_library", NULL, 0, n) >>
      /\ info' = info /\ UNCHANGED lists /\ ret' = ret /\ handles' = handles
      /\ UNCHANGED debugMap
  BY DEF Dlopen, Idle, pool
<1>2. n \in Libraries /\ n # LibDL
  BY LinkerAssumption DEF LibDLUnnamed
<1>3. PICK f, g : f = Frame("dlopen", NULL, 0, n) /\ g = Frame("find_library", NULL, 0, n)
  OBVIOUS
<1>4. f \in Frames /\ Is(f, "dlopen", NULL, 0, n)
  BY <1>2, <1>3, FrameMade DEF Finding, Holding
<1>5. g \in Frames /\ Is(g, "find_library", NULL, 0, n)
  BY <1>2, <1>3, FrameMade DEF Finding, Holding
<1>6. stack' = << f, g >>
  BY <1>1, <1>3
<1>7. stack' \in Seq(Frames) /\ Len(stack') = 2 /\ stack'[1] = f /\ stack'[2] = g
  BY <1>4, <1>5, <1>6
<1>8. TypeInv'
  BY <1>1, <1>7, ListsSame DEF TypeInv, LinkerTypes
<1> QED BY <1>1, <1>2, <1>4, <1>5, <1>7, <1>8

(* android_dlopen is given its library, or none.                           *)
LEMMA DlopenFoundStep ==
  ASSUME TypeInv, DlopenFound
  PROVE  /\ TypeInv' /\ UNCHANGED << lists, info, handles, debugMap >>
         /\ stack # << >> /\ Top.fn = "dlopen" /\ ret # NOTHING /\ ret' = NOTHING
         /\ \/ ret = NULL /\ Pops(stack, stack')
            \/ ret \in PoolEntry /\ Calling(ret, Top.i, "constructors", ret, Top.name)
<1>1. /\ stack # << >> /\ Top.fn = "dlopen" /\ ret # NOTHING /\ ret' = NOTHING
      /\ IF ret = NULL
         THEN stack' = Beneath
         ELSE CallFrom([Top EXCEPT !.si = ret], Frame("constructors", ret, 0, Top.name))
      /\ info' = info /\ UNCHANGED lists /\ handles' = handles /\ UNCHANGED debugMap
  BY DEF DlopenFound, InFn, pool
<1>2. Top \in Frames /\ Top.i \in Nat /\ Top.name \in Libraries
  BY <1>1, StackSteps, FrameFields DEF TypeInv
<1>3. CASE ret = NULL
  <2>1. stack' \in Seq(Frames) /\ Pops(stack, stack')
    BY <1>1, <1>3, StackSteps DEF TypeInv
  <2> QED BY <1>1, <1>3, <2>1, ListsSame DEF TypeInv, LinkerTypes
<1>4. CASE ret # NULL
  <2>1. ret \in PoolEntry
    BY <1>1, <1>4 DEF TypeInv, LinkerTypes
  <2>2. PICK f, g : f = [Top EXCEPT !.si = ret] /\ g = Frame("constructors", ret, 0, Top.name)
    OBVIOUS
  <2>3. f \in Frames /\ Is(f, Top.fn, ret, Top.i, Top.name)
    BY <1>2, <2>1, <2>2, FrameGiven
  <2>4. g \in Frames /\ Is(g, "constructors", ret, 0, Top.name)
    BY <1>2, <1>4, <2>1, <2>2, FrameMade DEF Finding, Holding
  <2>5. CallFrom(f, g)
    BY <1>1, <1>4, <2>2
  <2>6. stack' \in Seq(Frames) /\ Calls(stack, stack', f, g)
    BY <1>1, <2>3, <2>4, <2>5, StackSteps DEF TypeInv
  <2>7. Calling(ret, Top.i, "constructors", ret, Top.name)
    BY <2>3, <2>4, <2>6 DEF Calling
  <2>8. TypeInv'
    BY <1>1, <2>6, ListsSame DEF TypeInv, LinkerTypes
  <2> QED BY <1>1, <2>1, <2>7, <2>8
<1> QED BY <1>3, <1>4

(* android_dlopen hands out a handle.                                      *)
LEMMA DlopenReturnStep ==
  ASSUME TypeInv, DlopenReturn
  PROVE  /\ TypeInv' /\ UNCHANGED << lists, ret, debugMap >>
         /\ stack # << >> /\ Top.fn = "dlopen" /\ Top.si \in PoolEntry
         /\ Only(Top.si) /\ info'[Top.si] = [info[Top.si] EXCEPT !.refcount = @ + 1]
         /\ handles' = [handles EXCEPT ![Top.si] = @ + 1]
         /\ Pops(stack, stack')
<1>1. /\ stack # << >> /\ Top.fn = "dlopen" /\ Top.si # NULL
      /\ info' = [info EXCEPT ![Top.si].refcount = @ + 1]
      /\ handles' = [handles EXCEPT ![Top.si] = @ + 1]
      /\ stack' = Beneath /\ UNCHANGED << lists, ret, debugMap >>
  BY DEF DlopenReturn, InFn
<1>2. Top.si \in PoolEntry
  BY <1>1, StackSteps, FrameFields DEF TypeInv
<1>3. PICK a \in PoolEntry : a = Top.si
  BY <1>2
<1>4. PICK r : r = [info[a] EXCEPT !.refcount = @ + 1]
  OBVIOUS
<1>5. a \in Slots /\ a # libdl_info
  BY <1>3, PoolEntries
<1>6. r \in Soinfos
  BY SMTT(20), <1>4, <1>5, InfoFields DEF TypeInv, Soinfos
<1>7. info' = [info EXCEPT ![a] = r]
  BY <1>1, <1>3, <1>4, <1>5 DEF TypeInv, LinkerTypes
<1>8. /\ info' \in [Slots -> Soinfos] /\ info'[libdl_info].name = LibDL
      /\ Only(a) /\ info'[a] = r
  BY <1>6, <1>7, SlotGiven DEF TypeInv
<1>9. stack' \in Seq(Frames) /\ Pops(stack, stack')
  BY <1>1, StackSteps DEF TypeInv
<1>10. handles' \in [Slots -> Nat] /\ handles'[libdl_info] = 0
  BY <1>1, <1>3, <1>5 DEF TypeInv, LinkerTypes
<1>11. TypeInv'
  BY <1>1, <1>8, <1>9, <1>10, ListsSame DEF TypeInv, LinkerTypes
<1> QED BY <1>1, <1>2, <1>3, <1>4, <1>8, <1>9, <1>11

(* Constructors.                                                           *)
LEMMA CtorEnterStep ==
  ASSUME TypeInv, CtorEnter
  PROVE  /\ TypeInv' /\ UNCHANGED << lists, ret, handles, debugMap >>
         /\ stack # << >> /\ Top.fn = "constructors" /\ Top.si \in PoolEntry /\ Top.i = 0
         /\ \/ info[Top.si].constructors_called /\ Pops(stack, stack') /\ info' = info
            \/ /\ ~info[Top.si].constructors_called /\ Only(Top.si)
               /\ info'[Top.si] = [info[Top.si] EXCEPT !.constructors_called = TRUE]
               /\ Moving("constructors", Top.si, 1, Top.name)
<1>1. /\ stack # << >> /\ Top.fn = "constructors" /\ Top.i = 0
      /\ IF info[Top.si].constructors_called
         THEN stack' = Beneath /\ info' = info
         ELSE /\ info' = [info EXCEPT ![Top.si].constructors_called = TRUE]
              /\ Become([Top EXCEPT !.i = 1])
      /\ UNCHANGED << lists, ret, handles, debugMap >>
  BY DEF CtorEnter, InFn
<1>2. Top.si \in PoolEntry /\ Top \in Frames
  BY <1>1, StackSteps, FrameFields DEF TypeInv, Holding
<1>3. CASE info[Top.si].constructors_called
  <2>1. stack' \in Seq(Frames) /\ Pops(stack, stack')
    BY <1>1, <1>3, StackSteps DEF TypeInv
  <2> QED BY <1>1, <1>2, <1>3, <2>1, ListsSame DEF TypeInv, LinkerTypes
<1>4. CASE ~info[Top.si].constructors_called
  <2>1. PICK a \in PoolEntry : a = Top.si
    BY <1>2
  <2>2. PICK r : r = [info[a] EXCEPT !.constructors_called = TRUE]
    OBVIOUS
  <2>3. a \in Slots
    BY <2>1, PoolEntries
  <2>4. r \in Soinfos
    BY <2>2, <2>3, InfoFields DEF TypeInv, Soinfos
  <2>5. info' = [info EXCEPT ![a] = r]
    BY <1>1, <1>4, <2>1, <2>2, <2>3 DEF TypeInv, LinkerTypes
  <2>6. /\ info' \in [Slots -> Soinfos] /\ info'[libdl_info].name = LibDL
        /\ Only(a) /\ info'[a] = r
    BY <2>4, <2>5, SlotGiven DEF TypeInv
  <2>7. PICK f : f = [Top EXCEPT !.i = 1]
    OBVIOUS
  <2>8. f \in Frames /\ Is(f, "constructors", Top.si, 1, Top.name)
    <3>1. 1 \in Nat \ {0}
      OBVIOUS
    <3> QED BY <1>1, <1>2, <2>7, <3>1, FrameMoved
  <2>9. stack' \in Seq(Frames) /\ Sets(stack, stack', f)
    <3>1. Become(f)
      BY <1>1, <1>4, <2>7
    <3> QED BY <1>1, <2>8, <3>1, StackSteps DEF TypeInv
  <2>10. Moving("constructors", Top.si, 1, Top.name)
    BY <2>8, <2>9 DEF Moving
  <2>11. TypeInv'
    BY <1>1, <2>6, <2>9, ListsSame DEF TypeInv, LinkerTypes
  <2> QED BY <1>1, <1>2, <1>4, <2>1, <2>2, <2>6, <2>10, <2>11
<1> QED BY <1>3, <1>4

(* The DT_NEEDED entries are entries of the pool, or empty.                *)
LEMMA DepsFields ==
  ASSUME LinkerTypes, NEW s \in Slots
  PROVE  /\ Len(info[s].deps) \in Nat /\ DOMAIN info[s].deps = 1 .. Len(info[s].deps)
         /\ \A i \in 1 .. Len(info[s].deps) :
              /\ info[s].deps[i] \in PoolEntry \cup {NULL}
              /\ validate_soinfo(info[s].deps[i]) <=> info[s].deps[i] # NULL
              /\ info[s].deps[i] # NULL => info[s].deps[i] \in PoolEntry
<1>1. info[s].deps \in Seq(PoolEntry \cup {NULL})
  BY InfoFields
<1>2. \A i \in 1 .. Len(info[s].deps) : info[s].deps[i] \in PoolEntry \cup {NULL}
  BY <1>1, ElementOfSeq
<1> QED BY <1>1, <1>2, LenProperties, PoolEntries DEF validate_soinfo

(* call_constructors_recursive goes through what is needed.                *)
LEMMA CtorNeededStep ==
  ASSUME TypeInv, CtorNeeded
  PROVE  /\ TypeInv' /\ UNCHANGED << lists, info, ret, handles, debugMap >>
         /\ stack # << >> /\ Top.fn = "constructors" /\ Top.si \in PoolEntry
         /\ Top.i \in 1 .. Len(info[Top.si].deps)
         /\ LET lsi == info[Top.si].deps[Top.i]
            IN \/ /\ lsi \in PoolEntry
                  /\ Calling(Top.si, Top.i + 1, "constructors", lsi, Top.name)
               \/ lsi = NULL /\ Moving("constructors", Top.si, Top.i + 1, Top.name)
<1>1. /\ stack # << >> /\ Top.fn = "constructors" /\ Top.i \in DOMAIN info[Top.si].deps
      /\ LET lsi == info[Top.si].deps[Top.i]
         IN IF validate_soinfo(lsi)
            THEN CallFrom([Top EXCEPT !.i = @ + 1], Frame("constructors", lsi, 0, Top.name))
            ELSE Become([Top EXCEPT !.i = @ + 1])
      /\ info' = info /\ UNCHANGED lists /\ ret' = ret /\ handles' = handles
      /\ UNCHANGED debugMap
  BY DEF CtorNeeded, InFn, pool
<1>2. Top.si \in PoolEntry /\ Top \in Frames /\ Top.name \in Libraries /\ Top.i \in Nat
  BY <1>1, StackSteps, FrameFields DEF TypeInv, Holding
<1>3. PICK lsi : lsi = info[Top.si].deps[Top.i]
  OBVIOUS
<1>4. /\ Top.i \in 1 .. Len(info[Top.si].deps)
      /\ validate_soinfo(lsi) <=> lsi # NULL
      /\ lsi # NULL => lsi \in PoolEntry
  BY SMTT(20), <1>1, <1>2, <1>3, PoolEntries, DepsFields DEF TypeInv
<1>5. PICK f : f = [Top EXCEPT !.i = Top.i + 1]
  OBVIOUS
<1>6. f \in Frames /\ Is(f, "constructors", Top.si, Top.i + 1, Top.name)
  <2>1. Top.i + 1 \in Nat \ {0}
    BY <1>2
  <2> QED BY <1>1, <1>2, <1>5, <2>1, FrameMoved
<1>7. CASE lsi = NULL
  <2>1. Become(f)
    BY <1>1, <1>3, <1>4, <1>5, <1>7
  <2>2. stack' \in Seq(Frames) /\ Sets(stack, stack', f)
    BY <1>1, <1>6, <2>1, StackSteps DEF TypeInv
  <2>3. Moving("constructors", Top.si, Top.i + 1, Top.name)
    BY <1>6, <2>2 DEF Moving
  <2>4. TypeInv'
    BY <1>1, <2>2, ListsSame DEF TypeInv, LinkerTypes
  <2> QED BY <1>1, <1>2, <1>3, <1>4, <1>7, <2>3, <2>4
<1>8. CASE lsi # NULL
  <2>1. PICK g : g = Frame("constructors", lsi, 0, Top.name)
    OBVIOUS
  <2>2. g \in Frames /\ Is(g, "constructors", lsi, 0, Top.name)
    BY <1>2, <1>4, <1>8, <2>1, FrameMade DEF Finding, Holding
  <2>3. CallFrom(f, g)
    BY <1>1, <1>3, <1>4, <1>5, <1>8, <2>1
  <2>4. stack' \in Seq(Frames) /\ Calls(stack, stack', f, g)
    BY <1>1, <1>6, <2>2, <2>3, StackSteps DEF TypeInv
  <2>5. Calling(Top.si, Top.i + 1, "constructors", lsi, Top.name)
    BY <1>1, <1>6, <2>2, <2>4 DEF Calling
  <2>6. TypeInv'
    BY <1>1, <2>4, ListsSame DEF TypeInv, LinkerTypes
  <2> QED BY <1>1, <1>2, <1>3, <1>4, <1>8, <2>5, <2>6
<1> QED BY <1>7, <1>8

(* It comes to the init functions of the library itself.                   *)
LEMMA CtorInitStep ==
  ASSUME TypeInv, CtorInit
  PROVE  /\ TypeInv' /\ UNCHANGED << lists, info, ret, handles, debugMap >>
         /\ stack # << >> /\ Top.fn = "constructors" /\ Top.si \in PoolEntry
         /\ Top.i > Len(info[Top.si].deps) /\ Moving("init", Top.si, 0, Top.name)
<1>1. /\ stack # << >> /\ Top.fn = "constructors" /\ Top.i > Len(info[Top.si].deps)
      /\ Become(Frame("init", Top.si, 0, Top.name))
      /\ info' = info /\ UNCHANGED lists /\ ret' = ret /\ handles' = handles
      /\ UNCHANGED debugMap
  BY DEF CtorInit, InFn, pool
<1>2. Top.si \in PoolEntry /\ Top \in Frames /\ Top.name \in Libraries
  BY <1>1, StackSteps, FrameFields DEF TypeInv, Holding
<1>3. PICK f : f = Frame("init", Top.si, 0, Top.name)
  OBVIOUS
<1>4. f \in Frames /\ Is(f, "init", Top.si, 0, Top.name)
  <2>1. Top.si # NULL
    BY <1>2, PoolEntries
  <2> QED BY <1>2, <1>3, <2>1, FrameMade DEF Finding, Holding
<1>5. stack' \in Seq(Frames) /\ Sets(stack, stack', f)
  BY <1>1, <1>3, <1>4, StackSteps DEF TypeInv
<1>6. Moving("init", Top.si, 0, Top.name)
  BY <1>4, <1>5 DEF Moving
<1>7. TypeInv'
  BY <1>1, <1>5, ListsSame DEF TypeInv, LinkerTypes
<1> QED BY <1>1, <1>2, <1>6, <1>7

(* The init functions return.                                              *)
LEMMA InitReturnsStep ==
  ASSUME TypeInv, InitReturns
  PROVE  /\ TypeInv' /\ UNCHANGED << lists, ret, handles, debugMap >>
         /\ stack # << >> /\ Top.fn = "init" /\ Top.si \in PoolEntry
         /\ Only(Top.si) /\ info'[Top.si] = [info[Top.si] EXCEPT !.inits = @ + 1]
         /\ Pops(stack, stack')
<1>1. /\ stack # << >> /\ Top.fn = "init"
      /\ info' = [info EXCEPT ![Top.si].inits = @ + 1]
      /\ stack' = Beneath /\ UNCHANGED << lists, ret, handles, debugMap >>
  BY DEF InitReturns, InFn
<1>2. Top.si \in PoolEntry
  BY <1>1, StackSteps, FrameFields DEF TypeInv, Holding
<1>3. PICK a \in PoolEntry : a = Top.si
  BY <1>2
<1>4. PICK r : r = [info[a] EXCEPT !.inits = @ + 1]
  OBVIOUS
<1>5. a \in Slots
  BY <1>3, PoolEntries
<1>6. r \in Soinfos
  BY SMTT(20), <1>4, <1>5, InfoFields DEF TypeInv, Soinfos
<1>7. info' = [info EXCEPT ![a] = r]
  BY <1>1, <1>3, <1>4, <1>5 DEF TypeInv, LinkerTypes
<1>8. /\ info' \in [Slots -> Soinfos] /\ info'[libdl_info].name = LibDL
      /\ Only(a) /\ info'[a] = r
  BY <1>6, <1>7, SlotGiven DEF TypeInv
<1>9. stack' \in Seq(Frames) /\ Pops(stack, stack')
  BY <1>1, StackSteps DEF TypeInv
<1>10. TypeInv'
  BY <1>1, <1>8, <1>9, ListsSame DEF TypeInv, LinkerTypes
<1> QED BY <1>1, <1>2, <1>3, <1>4, <1>8, <1>9, <1>10

(* dlclose.                                                                *)
LEMMA DlcloseStep ==
  ASSUME TypeInv, NEW s \in Slots, Dlclose(s)
  PROVE  /\ TypeInv' /\ UNCHANGED << lists, info, ret, debugMap >>
         /\ stack = << >> /\ s \in PoolEntry /\ handles[s] > 0
         /\ handles' = [handles EXCEPT ![s] = @ - 1]
         /\ Len(stack') = 1 /\ stack' \in Seq(Frames)
         /\ Is(stack'[1], "unload", s, 0, info[s].name)
<1>1. /\ stack = << >> /\ handles[s] > 0
      /\ handles' = [handles EXCEPT ![s] = @ - 1]
      /\ stack' = << Frame("unload", s, 0, info[s].name) >>
      /\ info' = info /\ UNCHANGED lists /\ ret' = ret /\ UNCHANGED debugMap
  BY DEF Dlclose, Idle, pool
<1>2. s \in PoolEntry /\ s # libdl_info /\ s # NULL
  <2>1. handles[libdl_info] = 0
    BY DEF TypeInv, LinkerTypes
  <2> QED BY <1>1, <2>1, PoolEntries
<1>3. PICK f : f = Frame("unload", s, 0, info[s].name)
  OBVIOUS
<1>4. f \in Frames /\ Is(f, "unload", s, 0, info[s].name)
  <2>1. info[s].name \in Libraries
    BY InfoFields DEF TypeInv
  <2> QED BY <1>2, <1>3, <2>1, FrameMade DEF Finding, Holding
<1>5. stack' = << f >>
  BY <1>1, <1>3
<1>6. stack' \in Seq(Frames) /\ Len(stack') = 1 /\ stack'[1] = f
  BY <1>4, <1>5
<1>7. handles' \in [Slots -> Nat] /\ handles'[libdl_info] = 0
  <2>1. handles[s] \in Nat /\ handles[s] - 1 \in Nat
    BY <1>1 DEF TypeInv, LinkerTypes
  <2> QED BY <1>1, <1>2, <2>1 DEF TypeInv, LinkerTypes
<1>8. TypeInv'
  BY <1>1, <1>6, <1>7, ListsSame DEF TypeInv, LinkerTypes
<1> QED BY <1>1, <1>2, <1>4, <1>6, <1>8

(* unload_library drops one user, the last one or not.                     *)
LEMMA UnloadEnterStep ==
  ASSUME TypeInv, UnloadEnter
  PROVE  /\ TypeInv' /\ UNCHANGED << lists, ret, handles, debugMap >>
         /\ stack # << >> /\ Top.fn = "unload" /\ Top.si \in PoolEntry /\ Top.i = 0
         /\ \/ /\ info[Top.si].refcount = 1 /\ info' = info
               /\ Calling(Top.si, 1, "fini", Top.si, Top.name)
            \/ /\ info[Top.si].refcount # 1 /\ Only(Top.si)
               /\ info'[Top.si] = [info[Top.si] EXCEPT !.refcount = @ - 1]
               /\ Pops(stack, stack')
<1>1. /\ stack # << >> /\ Top.fn = "unload" /\ Top.i = 0
      /\ IF info[Top.si].refcount = 1
         THEN /\ CallFrom([Top EXCEPT !.i = 1], Frame("fini", Top.si, 0, Top.name))
              /\ info' = info
         ELSE /\ info' = [info EXCEPT ![Top.si].refcount = @ - 1]
              /\ stack' = Beneath
      /\ UNCHANGED << lists, ret, handles, debugMap >>
  BY DEF UnloadEnter, InFn
<1>2. Top.si \in PoolEntry /\ Top \in Frames /\ Top.name \in Libraries
  BY <1>1, StackSteps, FrameFields DEF TypeInv, Holding
<1>3. CASE info[Top.si].refcount # 1
  <2>1. PICK a \in PoolEntry : a = Top.si
    BY <1>2
  <2>2. PICK r : r = [info[a] EXCEPT !.refcount = @ - 1]
    OBVIOUS
  <2>3. a \in Slots
    BY <2>1, PoolEntries
  <2>4. r \in Soinfos
    BY SMTT(20), <2>2, <2>3, InfoFields DEF TypeInv, Soinfos
  <2>5. info' = [info EXCEPT ![a] = r]
    BY <1>1, <1>3, <2>1, <2>2, <2>3 DEF TypeInv, LinkerTypes
  <2>6. /\ info' \in [Slots -> Soinfos] /\ info'[libdl_info].name = LibDL
        /\ Only(a) /\ info'[a] = r
    BY <2>4, <2>5, SlotGiven DEF TypeInv
  <2>7. stack' \in Seq(Frames) /\ Pops(stack, stack')
    BY <1>1, <1>3, StackSteps DEF TypeInv
  <2>8. TypeInv'
    BY <1>1, <2>6, <2>7, ListsSame DEF TypeInv, LinkerTypes
  <2> QED BY <1>1, <1>2, <1>3, <2>1, <2>2, <2>6, <2>7, <2>8
<1>4. CASE info[Top.si].refcount = 1
  <2>1. PICK f, g : f = [Top EXCEPT !.i = 1] /\ g = Frame("fini", Top.si, 0, Top.name)
    OBVIOUS
  <2>2. f \in Frames /\ Is(f, Top.fn, Top.si, 1, Top.name)
    <3>1. 1 \in Nat \ {0}
      OBVIOUS
    <3> QED BY <1>2, <2>1, <3>1, FrameMoved
  <2>3. g \in Frames /\ Is(g, "fini", Top.si, 0, Top.name)
    <3>1. Top.si # NULL
      BY <1>2, PoolEntries
    <3> QED BY <1>2, <2>1, <3>1, FrameMade DEF Finding, Holding
  <2>4. CallFrom(f, g)
    BY <1>1, <1>4, <2>1
  <2>5. stack' \in Seq(Frames) /\ Calls(stack, stack', f, g)
    BY <1>1, <2>2, <2>3, <2>4, StackSteps DEF TypeInv
  <2>6. Calling(Top.si, 1, "fini", Top.si, Top.name)
    BY <2>2, <2>3, <2>5 DEF Calling
  <2>7. TypeInv'
    BY <1>1, <1>4, <2>5, ListsSame DEF TypeInv, LinkerTypes
  <2> QED BY <1>1, <1>2, <1>4, <2>6, <2>7
<1> QED BY <1>3, <1>4

(* The fini functions return.                                              *)
LEMMA FiniReturnsStep ==
  ASSUME TypeInv, FiniReturns
  PROVE  /\ TypeInv' /\ UNCHANGED << lists, ret, handles, debugMap >>
         /\ stack # << >> /\ Top.fn = "fini" /\ Top.si \in PoolEntry
         /\ Only(Top.si) /\ info'[Top.si] = [info[Top.si] EXCEPT !.finis = @ + 1]
         /\ Pops(stack, stack')
<1>1. /\ stack # << >> /\ Top.fn = "fini"
      /\ info' = [info EXCEPT ![Top.si].finis = @ + 1]
      /\ stack' = Beneath /\ UNCHANGED << lists, ret, handles, debugMap >>
  BY DEF FiniReturns, InFn
<1>2. Top.si \in PoolEntry
  BY <1>1, StackSteps, FrameFields DEF TypeInv, Holding
<1>3. PICK a \in PoolEntry : a = Top.si
  BY <1>2
<1>4. PICK r : r = [info[a] EXCEPT !.finis = @ + 1]
  OBVIOUS
<1>5. a \in Slots
  BY <1>3, PoolEntries
<1>6. r \in Soinfos
  BY SMTT(20), <1>4, <1>5, InfoFields DEF TypeInv, Soinfos
<1>7. info' = [info EXCEPT ![a] = r]
  BY <1>1, <1>3, <1>4, <1>5 DEF TypeInv, LinkerTypes
<1>8. /\ info' \in [Slots -> Soinfos] /\ info'[libdl_info].name = LibDL
      /\ Only(a) /\ info'[a] = r
  BY <1>6, <1>7, SlotGiven DEF TypeInv
<1>9. stack' \in Seq(Frames) /\ Pops(stack, stack')
  BY <1>1, StackSteps DEF TypeInv
<1>10. TypeInv'
  BY <1>1, <1>8, <1>9, ListsSame DEF TypeInv, LinkerTypes
<1> QED BY <1>1, <1>2, <1>3, <1>4, <1>8, <1>9, <1>10

(* unload_library drops the next library that is needed.                   *)
LEMMA UnloadNeededStep ==
  ASSUME TypeInv, UnloadNeeded
  PROVE  /\ TypeInv' /\ UNCHANGED << lists, ret, handles, debugMap >>
         /\ stack # << >> /\ Top.fn = "unload" /\ Top.si \in PoolEntry
         /\ Top.i \in 1 .. Len(info[Top.si].deps)
         /\ Only(Top.si)
         /\ info'[Top.si] = [info[Top.si] EXCEPT !.deps = [@ EXCEPT ![Top.i] = NULL]]
         /\ LET lsi == info[Top.si].deps[Top.i]
            IN \/ /\ lsi \in PoolEntry
                  /\ Calling(Top.si, Top.i + 1, "unload", lsi, Top.name)
               \/ lsi = NULL /\ Moving("unload", Top.si, Top.i + 1, Top.name)
<1>1. /\ stack # << >> /\ Top.fn = "unload" /\ Top.i \in DOMAIN info[Top.si].deps
      /\ info' = [info EXCEPT ![Top.si].deps[Top.i] = NULL]
      /\ LET lsi == info[Top.si].deps[Top.i]
         IN IF validate_soinfo(lsi)
            THEN CallFrom([Top EXCEPT !.i = @ + 1], Frame("unload", lsi, 0, Top.name))
            ELSE Become([Top EXCEPT !.i = @ + 1])
      /\ UNCHANGED << lists, ret, handles, debugMap >>
  BY DEF UnloadNeeded, InFn
<1>2. Top.si \in PoolEntry /\ Top \in Frames /\ Top.name \in Libraries /\ Top.i \in Nat
  BY <1>1, StackSteps, FrameFields DEF TypeInv, Holding
<1>3. PICK lsi : lsi = info[Top.si].deps[Top.i]
  OBVIOUS
<1>4. /\ Top.i \in 1 .. Len(info[Top.si].deps)
      /\ validate_soinfo(lsi) <=> lsi # NULL
      /\ lsi # NULL => lsi \in PoolEntry
  BY SMTT(20), <1>1, <1>2, <1>3, PoolEntries, DepsFields DEF TypeInv
<1>5. PICK f : f = [Top EXCEPT !.i = Top.i + 1]
  OBVIOUS
<1>6. f \in Frames /\ Is(f, "unload", Top.si, Top.i + 1, Top.name)
  <2>1. Top.i + 1 \in Nat \ {0}
    BY <1>2
  <2> QED BY <1>1, <1>2, <1>5, <2>1, FrameMoved
<1>7. PICK a \in PoolEntry : a = Top.si
  BY <1>2
<1>8. PICK d : d = [info[a].deps EXCEPT ![Top.i] = NULL]
  OBVIOUS
<1>9. PICK r : r = [info[a] EXCEPT !.deps = d]
  OBVIOUS
<1>10. a \in Slots
  BY <1>7, PoolEntries
<1>11. r \in Soinfos
  <2>1. info[a] \in Soinfos /\ info[a].deps \in Seq(PoolEntry \cup {NULL})
    BY <1>10, InfoFields DEF TypeInv
  <2>2. d \in Seq(PoolEntry \cup {NULL})
    BY <1>4, <1>7, <1>8, <2>1, ExceptSeq
  <2> QED BY <1>9, <2>1, <2>2 DEF Soinfos
<1>12. info' = [info EXCEPT ![a] = r]
  BY <1>1, <1>7, <1>8, <1>9, <1>10 DEF TypeInv, LinkerTypes
<1>13. /\ info' \in [Slots -> Soinfos] /\ info'[libdl_info].name = LibDL
       /\ Only(a) /\ info'[a] = r
  BY <1>11, <1>12, SlotGiven DEF TypeInv
<1>14. info'[Top.si] = [info[Top.si] EXCEPT !.deps = [@ EXCEPT ![Top.i] = NULL]]
  BY <1>7, <1>8, <1>9, <1>13
<1>15. CASE lsi = NULL
  <2>1. Become(f)
    BY <1>1, <1>3, <1>4, <1>5, <1>15
  <2>2. stack' \in Seq(Frames) /\ Sets(stack, stack', f)
    BY <1>1, <1>6, <2>1, StackSteps DEF TypeInv
  <2>3. Moving("unload", Top.si, Top.i + 1, Top.name)
    BY <1>6, <2>2 DEF Moving
  <2>4. TypeInv'
    BY SMTT(20), <1>1, <1>13, <2>2, ListsSame DEF TypeInv, LinkerTypes
  <2> QED BY <1>1, <1>2, <1>3, <1>4, <1>7, <1>13, <1>14, <1>15, <2>3, <2>4
<1>16. CASE lsi # NULL
  <2>1. PICK g : g = Frame("unload", lsi, 0, Top.name)
    OBVIOUS
  <2>2. g \in Frames /\ Is(g, "unload", lsi, 0, Top.name)
    BY SMTT(20), <1>2, <1>4, <1>16, <2>1, FrameMade DEF Finding, Holding
  <2>3. CallFrom(f, g)
    BY <1>1, <1>3, <1>4, <1>5, <1>16, <2>1
  <2>4. stack' \in Seq(Frames) /\ Calls(stack, stack', f, g)
    BY <1>1, <1>6, <2>2, <2>3, StackSteps DEF TypeInv
  <2>5. Calling(Top.si, Top.i + 1, "unload", lsi, Top.name)
    BY <1>1, <1>6, <2>2, <2>4 DEF Calling
  <2>6. TypeInv'
    BY <1>1, <1>13, <2>4, ListsSame DEF TypeInv, LinkerTypes
  <2> QED BY <1>1, <1>2, <1>3, <1>4, <1>7, <1>13, <1>14, <1>16, <2>5, <2>6
<1> QED BY <1>15, <1>16

(* unload_library frees the soinfo.                                        *)
LEMMA UnloadFreeStep ==
  ASSUME TypeInv, UnloadFree
  PROVE  /\ TypeInv' /\ UNCHANGED << ret, handles >> /\ RemoveLinkMap(Top.si)
         /\ stack # << >> /\ Top.fn = "unload" /\ Top.si \in PoolEntry
         /\ Top.i > 0 /\ Top.i > Len(info[Top.si].deps)
         /\ Only(Top.si)
         /\ info'[Top.si] = [info[Top.si] EXCEPT !.refcount = 0,
                               !.image = IF @ = "none" THEN @ ELSE "unmapped"]
         /\ On(Solist)' = On(Solist) \ {Top.si} /\ Pops(stack, stack')
<1>1. /\ stack # << >> /\ Top.fn = "unload" /\ Top.i > 0 /\ Top.i > Len(info[Top.si].deps)
      /\ info' = [info EXCEPT ![Top.si].refcount = 0,
                              ![Top.si].image = IF @ = "none" THEN @ ELSE "unmapped"]
      /\ RemoveLinkMap(Top.si) /\ FreeInfo(Top.si) /\ stack' = Beneath
      /\ UNCHANGED << socount, ret, handles >>
  BY DEF UnloadFree, AboutToFree, InFn
<1>2. Top.si \in PoolEntry
  BY <1>1, StackSteps, FrameFields DEF TypeInv, Holding
<1>3. PICK a \in PoolEntry : a = Top.si
  BY <1>2
<1>4. PICK r : r = [info[a] EXCEPT !.refcount = 0,
                      !.image = IF @ = "none" THEN @ ELSE "unmapped"]
  OBVIOUS
<1>5. a \in Slots
  BY <1>3, PoolEntries
<1>6. r \in Soinfos
  <2>1. PICK im : im = IF info[a].image = "none" THEN info[a].image ELSE "unmapped"
    OBVIOUS
  <2>2. info[a] \in Soinfos /\ info[a].image \in Images
    BY <1>5, InfoFields DEF TypeInv
  <2>3. im \in Images
    BY <2>1, <2>2 DEF Images
  <2>4. r = [info[a] EXCEPT !.refcount = 0, !.image = im]
    BY <1>4, <2>1, <2>2 DEF Soinfos
  <2>5. PICK q : q = [info[a] EXCEPT !.refcount = 0]
    OBVIOUS
  <2>6. q \in Soinfos
    BY <2>2, <2>5 DEF Soinfos
  <2>7. r = [q EXCEPT !.image = im]
    BY <2>4, <2>5
  <2> QED BY <2>3, <2>6, <2>7 DEF Soinfos
<1>7. info' = [info EXCEPT ![a] = r]
  <2>1. info[a] \in Soinfos /\ info \in [Slots -> Soinfos]
    BY <1>5, InfoFields DEF TypeInv, LinkerTypes
  <2> QED BY <1>1, <1>3, <1>4, <1>5, <2>1 DEF Soinfos
<1>8. /\ info' \in [Slots -> Soinfos] /\ info'[libdl_info].name = LibDL
      /\ Only(a) /\ info'[a] = r
  BY <1>6, <1>7, SlotGiven DEF TypeInv
<1>9. stack' \in Seq(Frames) /\ Pops(stack, stack')
  BY <1>1, StackSteps DEF TypeInv
<1>10. ListInv' /\ On(Solist)' = On(Solist) \ {a}
  BY <1>1, <1>3, FreeKeeps DEF TypeInv
<1>11. TypeInv'
  BY <1>1, <1>8, <1>9, <1>10 DEF TypeInv, LinkerTypes
<1> QED BY <1>1, <1>2, <1>3, <1>4, <1>8, <1>9, <1>10, <1>11

(* What the host does.                                                     *)
LEMMA LibraryCreateStep ==
  ASSUME TypeInv, NEW n \in Stubs, LibraryCreate(n)
  PROVE  /\ TypeInv' /\ UNCHANGED << stack, ret, handles >>
         /\ stack = << >> /\ n \in Libraries
         /\ \A s \in On(Solist) : info[s].name # n
         /\ \E a \in PoolEntry :
              /\ a \notin On(Solist) /\ On(Solist)' = On(Solist) \cup {a}
              /\ Only(a) /\ info'[a] = Stub(n) /\ ClearLinkMap(a)
<1>1. /\ stack = << >> /\ Lookup(n) = NULL /\ AllocInfo(Stub(n))
      /\ UNCHANGED << stack, ret, handles >>
  BY DEF LibraryCreate, Idle
<1>2. n \in Libraries
  BY LinkerAssumption
<1>3. /\ ListInv' /\ On(Solist)' = On(Solist) \cup {AllocSlot}
      /\ AllocSlot \in PoolEntry /\ AllocSlot \notin On(Solist)
  BY <1>1, AllocKeeps DEF TypeInv
<1>4. PICK a, r : a = AllocSlot /\ r = Stub(n)
  OBVIOUS
<1>5. info' = [info EXCEPT ![a] = r] /\ ClearLinkMap(a)
  BY <1>1, <1>4 DEF AllocInfo
<1>6. r \in Soinfos
  BY <1>2, <1>4, SoinfoMade
<1>7. /\ info' \in [Slots -> Soinfos] /\ info'[libdl_info].name = LibDL
      /\ Only(a) /\ info'[a] = r
  BY <1>3, <1>4, <1>5, <1>6, SlotGiven DEF TypeInv
<1>8. TypeInv'
  BY <1>1, <1>3, <1>7 DEF TypeInv, LinkerTypes
<1>9. On(Solist)' = On(Solist) \cup {a} /\ a \in PoolEntry /\ a \notin On(Solist)
  BY <1>3, <1>4
<1>10. \A s \in On(Solist) : info[s].name # n
  BY <1>1, LookupRight DEF TypeInv
<1> QED BY <1>1, <1>2, <1>4, <1>5, <1>7, <1>8, <1>9, <1>10

(* The host removes a stub nobody uses.                                    *)
LEMMA LibraryDestroyStep ==
  ASSUME TypeInv, NEW s \in Slots, LibraryDestroy(s)
  PROVE  /\ TypeInv' /\ UNCHANGED << info, stack, ret, handles, debugMap >>
         /\ stack = << >> /\ s \in PoolEntry /\ s \in On(Solist)
         /\ info[s].image = "none" /\ info[s].refcount = 0
         /\ On(Solist)' = On(Solist) \ {s}
<1>1. /\ stack = << >> /\ s \in On(Solist) /\ s # libdl_info
      /\ info[s].image = "none" /\ info[s].refcount = 0 /\ FreeInfo(s)
      /\ UNCHANGED << info, socount, stack, ret, handles, debugMap >>
  BY DEF LibraryDestroy, Idle
<1>2. s \in PoolEntry
  BY <1>1, PoolEntries
<1>3. ListInv' /\ On(Solist)' = On(Solist) \ {s}
  BY <1>1, <1>2, FreeKeeps DEF TypeInv
<1>4. TypeInv'
  BY <1>1, <1>3 DEF TypeInv, LinkerTypes
<1> QED BY <1>1, <1>2, <1>3, <1>4

-----------------------------------------------------------------------------
(* A step of a call in progress, and a step of the linker.                 *)
LEMMA InsideCases ==
  ASSUME Inside
  PROVE  \/ FindLibrary \/ LoadRefused \/ LoadAlloc \/ LoadSegments \/ LoadFails
         \/ LinkFails \/ LinkFind \/ (LinkNeeded /\ ret # NULL)
         \/ (LinkFinish /\ ~LinkFail(TRUE))
         \/ DlopenFound \/ DlopenReturn
         \/ CtorEnter \/ CtorNeeded \/ CtorInit \/ InitReturns
         \/ UnloadEnter \/ FiniReturns \/ UnloadNeeded \/ UnloadFree
BY DEF Inside, Find, Link, Open, Ctors, Unload, LinkFails

(* The types and the lists, at every step.                                 *)
LEMMA TypesInitially ==
  ASSUME Init
  PROVE  TypeInv
<1>1. PICK order \in [1 .. StubCount -> Stubs] :
        info = [s \in Slots |-> IF s = libdl_info THEN Stub(LibDL)
                                ELSE IF s <= StubCount THEN Stub(order[s])
                                ELSE Soinfo(LibDL)]
  BY DEF Init
<1>2. /\ next = [s \in Slots |-> IF s < StubCount THEN s + 1 ELSE NULL]
      /\ freelist = NULL /\ sonext = StubCount /\ socount = StubCount
      /\ stack = << >> /\ ret = NOTHING /\ handles = [s \in Slots |-> 0]
  BY DEF Init
<1>3. /\ SO_MAX \in Nat /\ Stubs \subseteq Libraries /\ LibDL \in Libraries
      /\ libdl_info \in Slots
  BY LinkerAssumption DEF Slots, libdl_info
<1>4. StubCount \in 0 .. SO_MAX
  <2>1. Cardinality(Stubs) <= SO_MAX
    BY LinkerAssumption
  <2>2. IsFiniteSet(Stubs)
    BY LinkerAssumption
  <2>3. Cardinality(Stubs) \in Nat
    BY <2>2, FS_CardinalityType
  <2> QED BY <1>3, <2>1, <2>3 DEF StubCount
<1>5. PICK N \in 0 .. SO_MAX : N = StubCount
  BY <1>4
<1>6. \A s \in Slots : info[s] \in Soinfos
  <2>1. ASSUME NEW s \in Slots PROVE info[s] \in Soinfos
    <3>1. CASE s = libdl_info
      BY <1>1, <1>3, <3>1, SoinfoMade
    <3>2. CASE s # libdl_info /\ s <= StubCount
      <4>1. s \in 1 .. StubCount
        BY <1>3, <1>5, <3>2 DEF Slots, libdl_info
      <4>2. order[s] \in Libraries
        BY <1>3, <4>1
      <4> QED BY <1>1, <3>2, <4>2, SoinfoMade
    <3>3. CASE s # libdl_info /\ ~(s <= StubCount)
      BY <1>1, <1>3, <3>3, SoinfoMade
    <3> QED BY <3>1, <3>2, <3>3
  <2> QED BY <2>1
<1>7. info \in [Slots -> Soinfos] /\ info[libdl_info].name = LibDL
  <2>1. info = [s \in Slots |-> info[s]]
    BY <1>1
  <2>2. info[libdl_info] = Stub(LibDL)
    BY <1>1, <1>3
  <2> QED BY <1>3, <1>6, <2>1, <2>2, SoinfoMade
<1>8. LinkerTypes
  <2>1. << >> \in Seq(Frames)
    OBVIOUS
  <2> QED BY <1>2, <1>3, <1>7, <2>1 DEF LinkerTypes
<1>9. PICK l : l = [k \in 1 .. N + 1 |-> k - 1]
  OBVIOUS
<1>10. l \in Seq(Slots) /\ Len(l) = N + 1 /\ \A k \in 1 .. N + 1 : l[k] = k - 1
  <2>1. \A k \in 1 .. N + 1 : k - 1 \in Slots
    BY <1>3 DEF Slots
  <2>2. N + 1 \in Nat
    BY <1>3
  <2> QED BY <1>9, <2>1, <2>2
<1>11. Chains(next, l, << >>, freelist, sonext, socount)
  <2>1. next \in [Slots -> Slots \cup {NULL}]
    <3>1. \A s \in Slots : (IF s < StubCount THEN s + 1 ELSE NULL) \in Slots \cup {NULL}
      BY <1>3, <1>5 DEF Slots
    <3> QED BY <1>2, <3>1
  <2>2. IsChain(next, l, libdl_info)
    <3>1. ASSUME NEW i \in 1 .. Len(l)
          PROVE  next[l[i]] = IF i = Len(l) THEN NULL ELSE l[i + 1]
      <4>1. l[i] = i - 1 /\ i - 1 \in Slots /\ i \in Int
        BY <1>3, <1>10 DEF Slots
      <4>2. next[i - 1] = IF i - 1 < N THEN (i - 1) + 1 ELSE NULL
        BY <1>2, <1>5, <4>1
      <4>3. CASE i = N + 1
        BY <1>5, <1>10, <4>1, <4>2, <4>3
      <4>4. CASE i # N + 1
        <5>1. i + 1 \in 1 .. N + 1 /\ i - 1 < N
          BY <1>3, <1>10, <4>4
        <5>2. l[i + 1] = i
          BY <1>10, <5>1
        <5> QED BY <1>10, <4>1, <4>2, <4>4, <5>1, <5>2
      <4> QED BY <4>3, <4>4
    <3>2. libdl_info = l[1] /\ Len(l) # 0
      BY <1>3, <1>10 DEF libdl_info
    <3> QED BY <1>10, <3>1, <3>2 DEF IsChain
  <2>3. << >> \in Seq(Slots) /\ Len(<< >>) = 0 /\ 1 .. 0 = {}
    OBVIOUS
  <2>4. IsChain(next, << >>, freelist)
    BY <1>2, <2>3 DEF IsChain
  <2>5. Once(l) /\ Once(<< >>)
    BY <1>10, <2>3 DEF Once
  <2>6. ASSUME NEW s \in 0 .. socount PROVE \E i \in 1 .. Len(l) : l[i] = s
    <3>1. s + 1 \in 1 .. Len(l) /\ (s + 1) - 1 = s
      BY <1>2, <1>5, <1>10, <2>6
    <3> QED BY <1>10, <3>1
  <2>7. \A i \in 1 .. Len(l) : l[i] \in 0 .. socount
    BY <1>2, <1>5, <1>10
  <2>8. /\ socount \in 0 .. SO_MAX /\ Len(l) + Len(<< >>) = socount + 1
        /\ Len(l) >= 1 /\ sonext = l[Len(l)]
    BY <1>2, <1>3, <1>5, <1>10, <2>3
  <2> QED BY <2>1, <2>2, <2>3, <2>4, <2>5, <2>6, <2>7, <2>8 DEF Chains
<1>12. ListInv
  BY <1>11, ListsAre
<1> QED BY <1>8, <1>12 DEF TypeInv

(* Every step keeps the types and both lists well formed.                  *)
LEMMA TypesStep ==
  ASSUME LibDLUnnamed, TypeInv, [Next]_vars
  PROVE  TypeInv'
<1>1. CASE UNCHANGED vars
  <2>1. /\ info' = info /\ UNCHANGED lists /\ stack' = stack /\ ret' = ret
        /\ handles' = handles
    BY <1>1 DEF vars, pool
  <2> QED BY <2>1, ListsSame DEF TypeInv, LinkerTypes
<1>2. CASE \E n \in Opened : Dlopen(n)
  BY <1>2, DlopenStep
<1>3. CASE \E s \in Slots : Dlclose(s)
  BY <1>3, DlcloseStep
<1>4. CASE \E s \in Slots : LibraryDestroy(s)
  BY <1>4, LibraryDestroyStep
<1>5. CASE \E n \in Stubs : LibraryCreate(n)
  BY <1>5, LibraryCreateStep
<1>6. CASE Inside
  <2>1. CASE FindLibrary \/ LoadRefused \/ LoadAlloc \/ LoadSegments \/ LoadFails
    BY SMTT(20), <2>1, FindLibraryStep, LoadRefusedStep, LoadAllocStep, LoadSegmentsStep, LoadFailsStep
  <2>2. CASE LinkFails \/ LinkFind \/ (LinkNeeded /\ ret # NULL)
             \/ (LinkFinish /\ ~LinkFail(TRUE))
    BY <2>2, LinkFailStep, LinkFindStep, LinkNeededStep, LinkedStep
  <2>3. CASE DlopenFound \/ DlopenReturn
    BY <2>3, DlopenFoundStep, DlopenReturnStep
  <2>4. CASE CtorEnter \/ CtorNeeded \/ CtorInit \/ InitReturns
    BY <2>4, CtorEnterStep, CtorNeededStep, CtorInitStep, InitReturnsStep
  <2>5. CASE UnloadEnter \/ FiniReturns \/ UnloadNeeded \/ UnloadFree
    BY <2>5, UnloadEnterStep, FiniReturnsStep, UnloadNeededStep, UnloadFreeStep
  <2> QED BY <1>6, <2>1, <2>2, <2>3, <2>4, <2>5, InsideCases
<1> QED BY <1>1, <1>2, <1>3, <1>4, <1>5, <1>6 DEF Next

(* free_info and alloc_info never lose an entry of the pool, share one     *)
(* between the two lists or put one on a list twice, whatever the order of *)
(* loads, failures, unloads and calls of the host; the condition on        *)
(* libdl.so is needed: the run LinkerLibdl shows what happens without it.  *)
THEOREM ListsAlwaysWellFormed ==
  ASSUME LibDLUnnamed
  PROVE  Spec => []ListsWellFormed
<1>1. Init => TypeInv
  BY TypesInitially
<1>2. TypeInv /\ [Next]_vars => TypeInv'
  BY TypesStep
<1>3. TypeInv => ListsWellFormed
  BY ListsRight DEF TypeInv
<1> QED BY <1>1, <1>2, <1>3, PTL DEF Spec

-----------------------------------------------------------------------------
(* What a step leaves alone in every soinfo.                               *)
SameName   == \A s \in Slots : info'[s].name = info[s].name
SameLinked == \A s \in Slots : info'[s].linked = info[s].linked
SameError  == \A s \in Slots : info'[s].error = info[s].error
SameCount  == \A s \in Slots : info'[s].refcount = info[s].refcount
SameCalled ==
  \A s \in Slots : info'[s].constructors_called = info[s].constructors_called
SameImage  == \A s \in Slots : info'[s].image = info[s].image
SameDeps   == \A s \in Slots : info'[s].deps = info[s].deps
SameInits  == \A s \in Slots : info'[s].inits = info[s].inits
SameFinis  == \A s \in Slots : info'[s].finis = info[s].finis
AllSame ==
  /\ SameName /\ SameLinked /\ SameError /\ SameCount /\ SameCalled /\ SameImage
  /\ SameDeps /\ SameInits /\ SameFinis

(* A step that leaves info alone leaves every field alone.                 *)
LEMMA SameInfo ==
  ASSUME info' = info
  PROVE  AllSame
BY DEF AllSame, SameName, SameLinked, SameError, SameCount, SameCalled, SameImage,
       SameDeps, SameInits, SameFinis

(* Mapping a file changes the image of its soinfo only.                    *)
LEMMA LoadSegmentsFields ==
  ASSUME TypeInv, LoadSegments
  PROVE  /\ SameName /\ SameLinked /\ SameError /\ SameCount /\ SameCalled /\ SameDeps
         /\ SameInits /\ SameFinis
         /\ info'[Top.si].image = "mapped"
         /\ \A s \in Slots : s # Top.si => info'[s].image = info[s].image
<1>1. PICK a \in Slots : a = Top.si
  BY LoadSegmentsStep, PoolEntries
<1>2. Only(a) /\ info'[a] = [info[a] EXCEPT !.image = "mapped"] /\ info[a] \in Soinfos
  BY <1>1, LoadSegmentsStep, InfoFields DEF TypeInv
<1>3. PICK r : r = [info[a] EXCEPT !.image = "mapped"]
  OBVIOUS
<1>4. /\ r.name = info[a].name /\ r.linked = info[a].linked /\ r.error = info[a].error
      /\ r.refcount = info[a].refcount /\ r.deps = info[a].deps
      /\ r.constructors_called = info[a].constructors_called
      /\ r.inits = info[a].inits /\ r.finis = info[a].finis /\ r.image = "mapped"
  BY <1>2, <1>3 DEF Soinfos
<1> QED BY ZenonT(30), <1>1, <1>2, <1>3, <1>4 DEF Only, SameName, SameLinked, SameError, SameCount,
       SameCalled, SameDeps, SameInits, SameFinis

(* A failure marks the soinfo and unmaps its image.                        *)
LEMMA LinkFailFields ==
  ASSUME TypeInv, LinkFails
  PROVE  /\ SameName /\ SameCount /\ SameCalled /\ SameDeps /\ SameInits /\ SameFinis
         /\ info'[Top.si].error /\ info'[Top.si].image = "unmapped"
         /\ \A s \in Slots :
              s # Top.si => /\ info'[s].image = info[s].image
                            /\ info'[s].linked = info[s].linked
                            /\ info'[s].error = info[s].error
<1>1. PICK a \in Slots : a = Top.si
  BY LinkFailStep, PoolEntries
<1>2. PICK b \in BOOLEAN :
        info'[a] = [info[a] EXCEPT !.error = TRUE, !.linked = b, !.image = "unmapped"]
  BY <1>1, LinkFailStep
<1>3. Only(a) /\ info[a] \in Soinfos
  BY <1>1, LinkFailStep, InfoFields DEF TypeInv
<1>4. PICK r : r = [info[a] EXCEPT !.error = TRUE, !.linked = b, !.image = "unmapped"]
  OBVIOUS
<1>5. /\ r.name = info[a].name /\ r.refcount = info[a].refcount /\ r.deps = info[a].deps
      /\ r.constructors_called = info[a].constructors_called
      /\ r.inits = info[a].inits /\ r.finis = info[a].finis
      /\ r.error = TRUE /\ r.image = "unmapped"
  BY <1>3, <1>4 DEF Soinfos
<1>6. \A s \in Slots : info'[s] = IF s = a THEN r ELSE info[s]
  BY <1>2, <1>3, <1>4 DEF Only
<1>7. SameName /\ SameCount /\ SameCalled
  BY <1>5, <1>6 DEF SameName, SameCount, SameCalled
<1>8. SameDeps /\ SameInits /\ SameFinis
  BY <1>5, <1>6 DEF SameDeps, SameInits, SameFinis
<1> QED BY <1>1, <1>5, <1>6, <1>7, <1>8

(* Success sets FLAG_LINKED only.                                          *)
LEMMA LinkedFields ==
  ASSUME TypeInv, LinkFinish, ~LinkFail(TRUE)
  PROVE  /\ SameName /\ SameError /\ SameCount /\ SameCalled /\ SameImage /\ SameDeps
         /\ SameInits /\ SameFinis
         /\ info'[Top.si].linked
         /\ \A s \in Slots : s # Top.si => info'[s].linked = info[s].linked
<1>1. PICK a \in Slots : a = Top.si
  BY LinkedStep, PoolEntries
<1>2. Only(a) /\ info'[a] = [info[a] EXCEPT !.linked = TRUE] /\ info[a] \in Soinfos
  BY <1>1, LinkedStep, InfoFields DEF TypeInv
<1>3. PICK r : r = [info[a] EXCEPT !.linked = TRUE]
  OBVIOUS
<1>4. /\ r.name = info[a].name /\ r.image = info[a].image /\ r.error = info[a].error
      /\ r.refcount = info[a].refcount /\ r.deps = info[a].deps
      /\ r.constructors_called = info[a].constructors_called
      /\ r.inits = info[a].inits /\ r.finis = info[a].finis /\ r.linked = TRUE
  BY <1>2, <1>3 DEF Soinfos
<1>5. \A s \in Slots : info'[s] = IF s = a THEN r ELSE info[s]
  BY <1>2, <1>3 DEF Only
<1>6. SameName /\ SameError /\ SameCount /\ SameCalled
  BY <1>4, <1>5 DEF SameName, SameError, SameCount, SameCalled
<1>7. SameImage /\ SameDeps /\ SameInits /\ SameFinis
  BY <1>4, <1>5 DEF SameImage, SameDeps, SameInits, SameFinis
<1> QED BY <1>1, <1>4, <1>5, <1>6, <1>7

(* A recorded library is appended to one list and counted once.            *)
LEMMA LinkNeededFields ==
  ASSUME TypeInv, LinkNeeded, ret # NULL
  PROVE  /\ SameName /\ SameLinked /\ SameError /\ SameCalled /\ SameImage
         /\ SameInits /\ SameFinis
         /\ info'[Top.si].deps = Append(info[Top.si].deps, ret)
         /\ \A s \in Slots : s # Top.si => info'[s].deps = info[s].deps
         /\ info'[ret].refcount = info[ret].refcount + 1
         /\ \A s \in Slots : s # ret => info'[s].refcount = info[s].refcount
<1>1. PICK a \in Slots, b \in Slots : a = Top.si /\ b = ret
  BY LinkNeededStep, PoolEntries
<1>2. info' = [info EXCEPT ![a].deps = Append(@, b), ![b].refcount = @ + 1]
  BY <1>1, LinkNeededStep
<1>3. PICK r : r = [info[a] EXCEPT !.deps = Append(@, b)]
  OBVIOUS
<1>4. info[a] \in Soinfos /\ info[b] \in Soinfos /\ info \in [Slots -> Soinfos]
  BY InfoFields DEF TypeInv, LinkerTypes
<1>5. /\ DOMAIN r = DOMAIN info[a]
      /\ r.name = info[a].name /\ r.linked = info[a].linked /\ r.error = info[a].error
      /\ r.refcount = info[a].refcount /\ r.image = info[a].image
      /\ r.constructors_called = info[a].constructors_called
      /\ r.inits = info[a].inits /\ r.finis = info[a].finis
      /\ r.deps = Append(info[a].deps, b)
  BY <1>3, <1>4 DEF Soinfos
<1>6. PICK h : h = [info EXCEPT ![a] = r]
  OBVIOUS
<1>7. PICK q : q = [h[b] EXCEPT !.refcount = @ + 1]
  OBVIOUS
<1>8. info' = [h EXCEPT ![b] = q]
  <2>1. info' = [h EXCEPT ![b].refcount = @ + 1]
    BY <1>2, <1>3, <1>4, <1>6
  <2> QED BY <1>4, <1>6, <1>7, <2>1
<1>9. /\ DOMAIN h[b] = DOMAIN info[b]
      /\ h[b].name = info[b].name /\ h[b].linked = info[b].linked
      /\ h[b].error = info[b].error /\ h[b].refcount = info[b].refcount
      /\ h[b].image = info[b].image
      /\ h[b].constructors_called = info[b].constructors_called
      /\ h[b].inits = info[b].inits /\ h[b].finis = info[b].finis
  BY <1>4, <1>5, <1>6
<1>10. /\ q.name = info[b].name /\ q.linked = info[b].linked /\ q.error = info[b].error
       /\ q.refcount = info[b].refcount + 1 /\ q.image = info[b].image
       /\ q.constructors_called = info[b].constructors_called
       /\ q.inits = info[b].inits /\ q.finis = info[b].finis /\ q.deps = h[b].deps
  <2>1. DOMAIN h[b] = {"name", "linked", "error", "refcount", "constructors_called",
                       "image", "deps", "inits", "finis"}
    BY <1>4, <1>9 DEF Soinfos
  <2> QED BY <1>7, <1>9, <2>1
<1>11. \A s \in Slots : info'[s] = IF s = b THEN q ELSE IF s = a THEN r ELSE info[s]
  BY <1>4, <1>6, <1>8
<1>12. h[b].deps = IF a = b THEN r.deps ELSE info[b].deps
  BY <1>4, <1>6
<1>13. ASSUME NEW s \in Slots
       PROVE  /\ info'[s].name = info[s].name /\ info'[s].linked = info[s].linked
              /\ info'[s].error = info[s].error /\ info'[s].image = info[s].image
              /\ info'[s].constructors_called = info[s].constructors_called
              /\ info'[s].inits = info[s].inits /\ info'[s].finis = info[s].finis
  <2>1. CASE s = b
    BY <1>10, <1>11, <2>1
  <2>2. CASE s # b /\ s = a
    BY <1>5, <1>11, <2>2
  <2>3. CASE s # b /\ s # a
    BY <1>11, <2>3
  <2> QED BY <2>1, <2>2, <2>3
<1>14. SameName /\ SameLinked /\ SameError /\ SameCalled /\ SameImage /\ SameInits /\ SameFinis
  BY <1>13 DEF SameName, SameLinked, SameError, SameCalled, SameImage, SameInits, SameFinis
<1>15. info'[a].deps = Append(info[a].deps, b)
  BY <1>5, <1>10, <1>11, <1>12
<1>16. ASSUME NEW s \in Slots, s # a PROVE info'[s].deps = info[s].deps
  BY <1>10, <1>11, <1>12, <1>16
<1>17. info'[b].refcount = info[b].refcount + 1
  BY <1>10, <1>11
<1>18. ASSUME NEW s \in Slots, s # b PROVE info'[s].refcount = info[s].refcount
  BY <1>5, <1>11, <1>18
<1> QED BY <1>1, <1>14, <1>15, <1>16, <1>17, <1>18

(* Handing out a handle changes one count only.                            *)
LEMMA DlopenReturnFields ==
  ASSUME TypeInv, DlopenReturn
  PROVE  /\ SameName /\ SameLinked /\ SameError /\ SameCalled /\ SameImage /\ SameDeps
         /\ SameInits /\ SameFinis
         /\ info'[Top.si].refcount = info[Top.si].refcount + 1
         /\ \A s \in Slots : s # Top.si => info'[s].refcount = info[s].refcount
<1>1. PICK a \in Slots : a = Top.si
  BY DlopenReturnStep, PoolEntries
<1>2. /\ Only(a) /\ info'[a] = [info[a] EXCEPT !.refcount = @ + 1]
      /\ info[a] \in Soinfos
  BY <1>1, DlopenReturnStep, InfoFields DEF TypeInv
<1>3. PICK r : r = [info[a] EXCEPT !.refcount = @ + 1]
  OBVIOUS
<1>4. /\ r.name = info[a].name /\ r.linked = info[a].linked /\ r.error = info[a].error
      /\ r.refcount = info[a].refcount + 1 /\ r.deps = info[a].deps
      /\ r.constructors_called = info[a].constructors_called
      /\ r.inits = info[a].inits /\ r.finis = info[a].finis /\ r.image = info[a].image
  BY <1>2, <1>3 DEF Soinfos
<1>5. ASSUME NEW s \in Slots
      PROVE  /\ info'[s].name = info[s].name /\ info'[s].linked = info[s].linked
             /\ info'[s].error = info[s].error /\ info'[s].constructors_called = info[s].constructors_called
             /\ info'[s].image = info[s].image /\ info'[s].deps = info[s].deps
             /\ info'[s].inits = info[s].inits /\ info'[s].finis = info[s].finis
  <2>1. CASE s = a
    BY <1>2, <1>3, <1>4, <2>1
  <2>2. CASE s # a
    BY <1>2, <2>2 DEF Only
  <2> QED BY <2>1, <2>2
<1>6. /\ info'[a].refcount = info[a].refcount + 1
      /\ \A s \in Slots : s # a => info'[s].refcount = info[s].refcount
  BY <1>2, <1>3, <1>4 DEF Only
<1> QED BY <1>1, <1>5, <1>6 DEF SameName, SameLinked, SameError,
       SameCalled, SameImage, SameDeps, SameInits, SameFinis

(* The flag constructors_called is all that is set.                        *)
LEMMA CtorEnterFields ==
  ASSUME TypeInv, CtorEnter
  PROVE  /\ SameName /\ SameLinked /\ SameError /\ SameCount /\ SameImage /\ SameDeps
         /\ SameInits /\ SameFinis
         /\ info'[Top.si].constructors_called
         /\ \A s \in Slots :
              s # Top.si => info'[s].constructors_called = info[s].constructors_called
<1>1. PICK a \in Slots : a = Top.si
  BY CtorEnterStep, PoolEntries
<1>2. CASE info' = info
  <2>1. info[a].constructors_called
    BY <1>1, <1>2, CtorEnterStep, InfoFields DEF TypeInv, Soinfos
  <2> QED BY <1>1, <1>2, <2>1, SameInfo DEF AllSame
<1>3. CASE Only(a) /\ info'[a] = [info[a] EXCEPT !.constructors_called = TRUE]
  <2>1. info[a] \in Soinfos
    BY InfoFields DEF TypeInv
  <2>2. PICK r : r = [info[a] EXCEPT !.constructors_called = TRUE]
    OBVIOUS
  <2>3. /\ r.name = info[a].name /\ r.linked = info[a].linked /\ r.error = info[a].error
        /\ r.refcount = info[a].refcount /\ r.deps = info[a].deps
        /\ r.constructors_called = TRUE
        /\ r.inits = info[a].inits /\ r.finis = info[a].finis /\ r.image = info[a].image
    BY <2>1, <2>2 DEF Soinfos
  <2>4. \A s \in Slots : info'[s] = IF s = a THEN r ELSE info[s]
    BY <1>3, <2>2 DEF Only
  <2>5. SameName /\ SameLinked /\ SameError /\ SameCount
    BY <2>3, <2>4 DEF SameName, SameLinked, SameError, SameCount
  <2>6. SameImage /\ SameDeps /\ SameInits /\ SameFinis
    BY <2>3, <2>4 DEF SameImage, SameDeps, SameInits, SameFinis
  <2> QED BY <1>1, <2>3, <2>4, <2>5, <2>6
<1> QED BY <1>1, <1>2, <1>3, CtorEnterStep

(* The init functions of one library have run once more.                   *)
LEMMA InitReturnsFields ==
  ASSUME TypeInv, InitReturns
  PROVE  /\ SameName /\ SameLinked /\ SameError /\ SameCount /\ SameCalled /\ SameImage
         /\ SameDeps /\ SameFinis
         /\ info'[Top.si].inits = info[Top.si].inits + 1
         /\ \A s \in Slots : s # Top.si => info'[s].inits = info[s].inits
<1>1. PICK a \in Slots : a = Top.si
  BY InitReturnsStep, PoolEntries
<1>2. Only(a) /\ info'[a] = [info[a] EXCEPT !.inits = @ + 1] /\ info[a] \in Soinfos
  BY <1>1, InitReturnsStep, InfoFields DEF TypeInv
<1>3. PICK r : r = [info[a] EXCEPT !.inits = @ + 1]
  OBVIOUS
<1>4. /\ r.name = info[a].name /\ r.linked = info[a].linked /\ r.error = info[a].error
      /\ r.refcount = info[a].refcount /\ r.deps = info[a].deps
      /\ r.constructors_called = info[a].constructors_called
      /\ r.inits = info[a].inits + 1 /\ r.finis = info[a].finis /\ r.image = info[a].image
  BY <1>2, <1>3 DEF Soinfos
<1>5. ASSUME NEW s \in Slots
      PROVE  /\ info'[s].name = info[s].name /\ info'[s].linked = info[s].linked
             /\ info'[s].error = info[s].error /\ info'[s].refcount = info[s].refcount
             /\ info'[s].constructors_called = info[s].constructors_called /\ info'[s].image = info[s].image
             /\ info'[s].deps = info[s].deps /\ info'[s].finis = info[s].finis
  <2>1. CASE s = a
    BY <1>2, <1>3, <1>4, <2>1
  <2>2. CASE s # a
    BY <1>2, <2>2 DEF Only
  <2> QED BY <2>1, <2>2
<1>6. /\ info'[a].inits = info[a].inits + 1
      /\ \A s \in Slots : s # a => info'[s].inits = info[s].inits
  BY <1>2, <1>3, <1>4 DEF Only
<1> QED BY <1>1, <1>5, <1>6 DEF SameName, SameLinked, SameError, SameCount,
       SameCalled, SameImage, SameDeps, SameFinis

(* Dropping a user that is not the last changes one count only.            *)
LEMMA UnloadEnterFields ==
  ASSUME TypeInv, UnloadEnter, info[Top.si].refcount # 1
  PROVE  /\ SameName /\ SameLinked /\ SameError /\ SameCalled /\ SameImage
         /\ SameDeps /\ SameInits /\ SameFinis
         /\ info'[Top.si].refcount = info[Top.si].refcount - 1
         /\ \A s \in Slots : s # Top.si => info'[s].refcount = info[s].refcount
<1>1. PICK a \in Slots : a = Top.si
  BY UnloadEnterStep, PoolEntries
<1>2. /\ Only(a) /\ info'[a] = [info[a] EXCEPT !.refcount = @ - 1]
      /\ info[a] \in Soinfos
  BY <1>1, UnloadEnterStep, InfoFields DEF TypeInv
<1>3. PICK r : r = [info[a] EXCEPT !.refcount = @ - 1]
  OBVIOUS
<1>4. /\ r.name = info[a].name /\ r.linked = info[a].linked /\ r.error = info[a].error
      /\ r.refcount = info[a].refcount - 1 /\ r.deps = info[a].deps
      /\ r.constructors_called = info[a].constructors_called
      /\ r.inits = info[a].inits /\ r.finis = info[a].finis /\ r.image = info[a].image
  BY <1>2, <1>3 DEF Soinfos
<1>5. \A s \in Slots : info'[s] = IF s = a THEN r ELSE info[s]
  BY <1>2, <1>3 DEF Only
<1>6. SameName /\ SameLinked /\ SameError /\ SameCalled
  BY <1>4, <1>5 DEF SameName, SameLinked, SameError, SameCalled
<1>7. SameImage /\ SameDeps /\ SameInits /\ SameFinis
  BY <1>4, <1>5 DEF SameImage, SameDeps, SameInits, SameFinis
<1> QED BY <1>1, <1>4, <1>5, <1>6, <1>7

(* The fini functions of one library have run once more.                   *)
LEMMA FiniReturnsFields ==
  ASSUME TypeInv, FiniReturns
  PROVE  /\ SameName /\ SameLinked /\ SameError /\ SameCount /\ SameCalled /\ SameImage
         /\ SameDeps /\ SameInits
         /\ info'[Top.si].finis = info[Top.si].finis + 1
         /\ \A s \in Slots : s # Top.si => info'[s].finis = info[s].finis
<1>1. PICK a \in Slots : a = Top.si
  BY FiniReturnsStep, PoolEntries
<1>2. Only(a) /\ info'[a] = [info[a] EXCEPT !.finis = @ + 1] /\ info[a] \in Soinfos
  BY <1>1, FiniReturnsStep, InfoFields DEF TypeInv
<1>3. PICK r : r = [info[a] EXCEPT !.finis = @ + 1]
  OBVIOUS
<1>4. /\ r.name = info[a].name /\ r.linked = info[a].linked /\ r.error = info[a].error
      /\ r.refcount = info[a].refcount /\ r.deps = info[a].deps
      /\ r.constructors_called = info[a].constructors_called
      /\ r.inits = info[a].inits /\ r.finis = info[a].finis + 1 /\ r.image = info[a].image
  BY <1>2, <1>3 DEF Soinfos
<1>5. ASSUME NEW s \in Slots
      PROVE  /\ info'[s].name = info[s].name /\ info'[s].linked = info[s].linked
             /\ info'[s].error = info[s].error /\ info'[s].refcount = info[s].refcount
             /\ info'[s].constructors_called = info[s].constructors_called /\ info'[s].image = info[s].image
             /\ info'[s].deps = info[s].deps /\ info'[s].inits = info[s].inits
  <2>1. CASE s = a
    BY <1>2, <1>3, <1>4, <2>1
  <2>2. CASE s # a
    BY <1>2, <2>2 DEF Only
  <2> QED BY <2>1, <2>2
<1>6. /\ info'[a].finis = info[a].finis + 1
      /\ \A s \in Slots : s # a => info'[s].finis = info[s].finis
  BY <1>2, <1>3, <1>4 DEF Only
<1> QED BY <1>1, <1>5, <1>6 DEF SameName, SameLinked, SameError, SameCount,
       SameCalled, SameImage, SameDeps, SameInits

(* One record is cleared.                                                  *)
LEMMA UnloadNeededFields ==
  ASSUME TypeInv, UnloadNeeded
  PROVE  /\ SameName /\ SameLinked /\ SameError /\ SameCount /\ SameCalled /\ SameImage
         /\ SameInits /\ SameFinis
         /\ info'[Top.si].deps = [info[Top.si].deps EXCEPT ![Top.i] = NULL]
         /\ \A s \in Slots : s # Top.si => info'[s].deps = info[s].deps
<1>1. PICK a \in Slots : a = Top.si
  BY UnloadNeededStep, PoolEntries
<1>2. /\ Only(a) /\ info[a] \in Soinfos
      /\ info'[a] = [info[a] EXCEPT !.deps = [@ EXCEPT ![Top.i] = NULL]]
  BY <1>1, UnloadNeededStep, InfoFields DEF TypeInv
<1>3. PICK d : d = [info[a].deps EXCEPT ![Top.i] = NULL]
  OBVIOUS
<1>4. PICK r : r = [info[a] EXCEPT !.deps = d]
  OBVIOUS
<1>5. info'[a] = r
  BY <1>2, <1>3, <1>4
<1>6. /\ r.name = info[a].name /\ r.linked = info[a].linked /\ r.error = info[a].error
      /\ r.refcount = info[a].refcount /\ r.deps = d
      /\ r.constructors_called = info[a].constructors_called
      /\ r.inits = info[a].inits /\ r.finis = info[a].finis /\ r.image = info[a].image
  BY <1>2, <1>4 DEF Soinfos
<1> QED BY <1>1, <1>2, <1>3, <1>5, <1>6 DEF Only, SameName, SameLinked, SameError, SameCount,
       SameCalled, SameImage, SameInits, SameFinis

(* The soinfo freed has no users and no image.                             *)
LEMMA UnloadFreeFields ==
  ASSUME TypeInv, UnloadFree
  PROVE  /\ SameName /\ SameLinked /\ SameError /\ SameCalled /\ SameDeps
         /\ SameInits /\ SameFinis
         /\ info'[Top.si].refcount = 0
         /\ info'[Top.si].image = "none" <=> info[Top.si].image = "none"
         /\ \A s \in Slots : s # Top.si => /\ info'[s].refcount = info[s].refcount
                                           /\ info'[s].image = info[s].image
<1>1. PICK a \in Slots : a = Top.si
  BY UnloadFreeStep, PoolEntries
<1>2. /\ Only(a) /\ info[a] \in Soinfos
      /\ info'[a] = [info[a] EXCEPT !.refcount = 0,
                       !.image = IF @ = "none" THEN @ ELSE "unmapped"]
  BY <1>1, UnloadFreeStep, InfoFields DEF TypeInv
<1>3. PICK im : im = IF info[a].image = "none" THEN info[a].image ELSE "unmapped"
  OBVIOUS
<1>4. PICK r : r = [info[a] EXCEPT !.refcount = 0, !.image = im]
  OBVIOUS
<1>5. info'[a] = r
  BY <1>2, <1>3, <1>4 DEF Soinfos
<1>6. /\ r.name = info[a].name /\ r.linked = info[a].linked /\ r.error = info[a].error
      /\ r.refcount = 0 /\ r.deps = info[a].deps
      /\ r.constructors_called = info[a].constructors_called
      /\ r.inits = info[a].inits /\ r.finis = info[a].finis /\ r.image = im
  BY <1>2, <1>4 DEF Soinfos
<1> QED BY <1>1, <1>2, <1>3, <1>5, <1>6 DEF Only, SameName, SameLinked, SameError,
       SameCalled, SameDeps, SameInits, SameFinis

-----------------------------------------------------------------------------
(* The calls in progress.  The innermost call of a dlopen finds, loads and *)
(* links; then it runs constructors; a dlclose unloads.  Only a call that  *)
(* looks for a library returns something to the one beneath it.            *)
Building(s) ==
  /\ Len(s) >= 1 /\ s[1].fn = "dlopen" /\ s[1].si = NULL
  /\ \A k \in 2 .. Len(s) : s[k].fn \in Finding \cup {"link_image"}
  /\ \A k \in 2 .. Len(s) - 1 : s[k].fn = "link_image"
Starting(s) ==
  /\ Len(s) >= 1 /\ s[1].fn = "dlopen" /\ s[1].si # NULL
  /\ \A k \in 2 .. Len(s) : s[k].fn \in {"constructors", "init"}
  /\ \A k \in 2 .. Len(s) - 1 : s[k].fn = "constructors"
Closing(s) ==
  /\ Len(s) >= 1 /\ s[1].fn = "unload"
  /\ \A k \in 2 .. Len(s) : s[k].fn \in {"unload", "fini"}
  /\ \A k \in 2 .. Len(s) - 1 : s[k].fn = "unload"
  /\ \A k \in 2 .. Len(s) :
       s[k].fn = "fini" => s[k - 1].si = s[k].si /\ s[k - 1].i = 1
Shape(s) == Len(s) = 0 \/ Building(s) \/ Starting(s) \/ Closing(s)
ReturnsTo(s, r) ==
  r # NOTHING => /\ Len(s) >= 1
                 /\ \/ s[Len(s)].fn = "link_image"
                    \/ s[Len(s)].fn = "dlopen" /\ s[Len(s)].si = NULL
ShapeInv == Shape(stack) /\ ReturnsTo(stack, ret)

(* The innermost call is the first one or has one beneath it.              *)
LEMMA OneOrMore == \A n \in Nat \ {0} : n = 1 \/ (n >= 2 /\ n > 1 /\ n \in 2 .. n)
OBVIOUS

(* The innermost call says what the others are.                            *)
LEMMA ShapeTop ==
  ASSUME NEW s, Len(s) \in Nat \ {0}, Shape(s)
  PROVE  /\ s[Len(s)].fn \in Finding \cup {"link_image"} => Building(s) /\ Len(s) >= 2
         /\ s[Len(s)].fn = "dlopen" =>
              /\ Len(s) = 1
              /\ s[Len(s)].si = NULL => Building(s)
              /\ s[Len(s)].si # NULL => Starting(s)
         /\ s[Len(s)].fn \in {"constructors", "init"} => Starting(s) /\ Len(s) >= 2
         /\ s[Len(s)].fn = "unload" => Closing(s)
         /\ s[Len(s)].fn = "fini" => Closing(s) /\ Len(s) >= 2
<1>1. CASE Building(s)
  <2>1. Len(s) = 1 => s[Len(s)].fn = "dlopen" /\ s[Len(s)].si = NULL
    BY <1>1 DEF Building
  <2>2. Len(s) > 1 => s[Len(s)].fn \in Finding \cup {"link_image"}
    BY <1>1 DEF Building
  <2> QED BY SMTT(20), <1>1, <2>1, <2>2 DEF Finding
<1>2. CASE Starting(s)
  <2>1. Len(s) = 1 => s[Len(s)].fn = "dlopen" /\ s[Len(s)].si # NULL
    BY <1>2 DEF Starting
  <2>2. Len(s) > 1 => s[Len(s)].fn \in {"constructors", "init"}
    BY <1>2 DEF Starting
  <2>3. CASE Len(s) = 1
    BY <1>2, <2>1, <2>3 DEF Finding
  <2>4. CASE Len(s) > 1
    BY <1>2, <2>2, <2>4 DEF Finding
  <2> QED BY <2>3, <2>4, OneOrMore
<1>3. CASE Closing(s)
  <2>1. Len(s) = 1 => s[Len(s)].fn = "unload"
    BY <1>3 DEF Closing
  <2>2. Len(s) > 1 => s[Len(s)].fn \in {"unload", "fini"}
    BY <1>3 DEF Closing
  <2>3. CASE Len(s) = 1
    BY <1>3, <2>1, <2>3 DEF Finding
  <2>4. CASE Len(s) > 1
    BY <1>3, <2>2, <2>4 DEF Finding
  <2> QED BY <2>3, <2>4, OneOrMore
<1> QED BY <1>1, <1>2, <1>3 DEF Shape

(* A return keeps the shape.                                               *)
LEMMA ShapePops ==
  ASSUME NEW s, NEW t, Len(s) \in Nat \ {0}, Shape(s), Pops(s, t)
  PROVE  /\ Shape(t) /\ Len(t) \in Nat
         /\ Building(s) /\ Len(s) >= 2 =>
              /\ Building(t)
              /\ \/ t[Len(t)].fn = "link_image"
                 \/ t[Len(t)].fn = "dlopen" /\ t[Len(t)].si = NULL
         /\ Starting(s) /\ Len(s) >= 2 => Starting(t)
         /\ Closing(s) /\ Len(s) >= 2 => Closing(t)
<1>1. Len(t) = Len(s) - 1 /\ \A k \in 1 .. Len(s) - 1 : t[k] = s[k]
  BY DEF Pops
<1>2. CASE Len(s) = 1
  BY <1>1, <1>2 DEF Shape
<1>3. CASE Len(s) >= 2 /\ Building(s)
  <2>1. Len(t) >= 1 /\ t[1].fn = "dlopen" /\ t[1].si = NULL
    BY <1>1, <1>3 DEF Building
  <2>2. \A k \in 2 .. Len(t) : t[k].fn = "link_image"
    BY <1>1, <1>3 DEF Building
  <2>3. Building(t)
    BY <1>1, <2>1, <2>2 DEF Building
  <2>4. t[Len(t)].fn = "link_image" \/ (t[Len(t)].fn = "dlopen" /\ t[Len(t)].si = NULL)
    <3>1. Len(t) \in Nat \ {0}
      BY <1>1, <1>3
    <3>2. Len(t) = 1 \/ Len(t) \in 2 .. Len(t)
      BY <3>1, OneOrMore
    <3>3. CASE Len(t) = 1
      BY <2>1, <3>3
    <3>4. CASE Len(t) \in 2 .. Len(t)
      BY <2>2, <3>4
    <3> QED BY <3>2, <3>3, <3>4
  <2>5. ~Starting(s) /\ ~Closing(s)
    BY <1>3 DEF Building, Starting, Closing
  <2> QED BY <1>1, <2>3, <2>4, <2>5 DEF Shape
<1>4. CASE Len(s) >= 2 /\ Starting(s)
  <2>1. Len(t) >= 1 /\ t[1].fn = "dlopen" /\ t[1].si # NULL
    BY <1>1, <1>4 DEF Starting
  <2>2. \A k \in 2 .. Len(t) : t[k].fn = "constructors"
    BY <1>1, <1>4 DEF Starting
  <2>3. Starting(t)
    BY <1>1, <2>1, <2>2 DEF Starting
  <2>5. ~Building(s) /\ ~Closing(s)
    BY <1>4 DEF Building, Starting, Closing
  <2> QED BY <1>1, <2>3, <2>5 DEF Shape
<1>5. CASE Len(s) >= 2 /\ Closing(s)
  <2>1. Len(t) >= 1 /\ t[1].fn = "unload"
    BY <1>1, <1>5 DEF Closing
  <2>2. \A k \in 2 .. Len(t) : t[k].fn = "unload"
    BY <1>1, <1>5 DEF Closing
  <2>3. Closing(t)
    BY <1>1, <2>1, <2>2 DEF Closing
  <2>5. ~Building(s) /\ ~Starting(s)
    BY <1>5 DEF Building, Starting, Closing
  <2> QED BY <1>1, <2>3, <2>5 DEF Shape
<1>6. Len(s) = 1 \/ Len(s) >= 2
  BY OneOrMore
<1>7. Len(s) >= 2 => Building(s) \/ Starting(s) \/ Closing(s)
  BY DEF Shape
<1> QED BY <1>2, <1>3, <1>4, <1>5, <1>6, <1>7

(* So does a step within the innermost call,                               *)
LEMMA ShapeSets ==
  ASSUME NEW s, NEW t, NEW f, Len(s) \in Nat \ {0}, Sets(s, t, f)
  PROVE  /\ Building(s) /\ Len(s) >= 2 /\ f.fn \in Finding \cup {"link_image"} => Building(t)
         /\ Starting(s) /\ Len(s) >= 2 /\ f.fn \in {"constructors", "init"} => Starting(t)
         /\ Closing(s) /\ f.fn = "unload" => Closing(t)
<1>1. Len(t) = Len(s) /\ t[Len(s)] = f /\ \A k \in 1 .. Len(s) - 1 : t[k] = s[k]
  BY DEF Sets
<1>2. ASSUME Building(s), Len(s) >= 2, f.fn \in Finding \cup {"link_image"}
      PROVE  Building(t)
  <2>1. t[1].fn = "dlopen" /\ t[1].si = NULL
    BY <1>1, <1>2 DEF Building
  <2>2. \A k \in 2 .. Len(t) - 1 : t[k].fn = "link_image"
    BY <1>1, <1>2 DEF Building
  <2>3. \A k \in 2 .. Len(t) : k = Len(t) \/ k \in 2 .. Len(t) - 1
    BY <1>1
  <2> QED BY <1>1, <1>2, <2>1, <2>2, <2>3 DEF Building
<1>3. ASSUME Starting(s), Len(s) >= 2, f.fn \in {"constructors", "init"}
      PROVE  Starting(t)
  <2>1. t[1].fn = "dlopen" /\ t[1].si # NULL
    BY <1>1, <1>3 DEF Starting
  <2>2. \A k \in 2 .. Len(t) - 1 : t[k].fn = "constructors"
    BY <1>1, <1>3 DEF Starting
  <2>3. \A k \in 2 .. Len(t) : k = Len(t) \/ k \in 2 .. Len(t) - 1
    BY <1>1
  <2> QED BY <1>1, <1>3, <2>1, <2>2, <2>3 DEF Starting
<1>4. ASSUME Closing(s), f.fn = "unload"
      PROVE  Closing(t)
  <2>1. t[1].fn = "unload"
    BY <1>1, <1>4 DEF Closing
  <2>2. \A k \in 2 .. Len(t) - 1 : t[k].fn = "unload"
    BY <1>1, <1>4 DEF Closing
  <2>3. \A k \in 2 .. Len(t) : k = Len(t) \/ k \in 2 .. Len(t) - 1
    BY <1>1
  <2>4. \A k \in 2 .. Len(t) : t[k].fn = "unload"
    BY <1>1, <1>4, <2>2, <2>3
  <2> QED BY <1>1, <1>4, <2>1, <2>4 DEF Closing
<1> QED BY <1>2, <1>3, <1>4

(* and a call.                                                             *)
LEMMA ShapeCalls ==
  ASSUME NEW s, NEW t, NEW f, NEW g, Len(s) \in Nat \ {0}, Calls(s, t, f, g)
  PROVE  /\ Building(s) /\ Len(s) >= 2 /\ f.fn = "link_image" /\ g.fn = "find_library"
              => Building(t)
         /\ Len(s) = 1 /\ f.fn = "dlopen" /\ f.si # NULL /\ g.fn = "constructors"
              => Starting(t)
         /\ Starting(s) /\ Len(s) >= 2 /\ f.fn = "constructors" /\ g.fn = "constructors"
              => Starting(t)
         /\ Closing(s) /\ f.fn = "unload"
              /\ (g.fn = "unload" \/ (g.fn = "fini" /\ g.si = f.si /\ f.i = 1)) => Closing(t)
<1>1. /\ Len(t) = Len(s) + 1 /\ t[Len(s)] = f /\ t[Len(s) + 1] = g
      /\ \A k \in 1 .. Len(s) - 1 : t[k] = s[k]
  BY DEF Calls
<1>2. ASSUME Building(s), Len(s) >= 2, f.fn = "link_image", g.fn = "find_library"
      PROVE  Building(t)
  <2>1. t[1].fn = "dlopen" /\ t[1].si = NULL
    BY <1>1, <1>2 DEF Building
  <2>2. \A k \in 2 .. Len(s) - 1 : t[k].fn = "link_image"
    BY <1>1, <1>2 DEF Building
  <2>3. \A k \in 2 .. Len(s) : k = Len(s) \/ k \in 2 .. Len(s) - 1
    BY <1>1
  <2>4. \A k \in 2 .. Len(t) - 1 : t[k].fn = "link_image"
    BY <1>1, <1>2, <2>2, <2>3
  <2>5. \A k \in 2 .. Len(t) : k = Len(t) \/ k \in 2 .. Len(t) - 1
    BY <1>1
  <2> QED BY <1>1, <1>2, <2>1, <2>4, <2>5 DEF Building, Finding
<1>3. ASSUME Len(s) = 1, f.fn = "dlopen", f.si # NULL, g.fn = "constructors"
      PROVE  Starting(t)
  BY <1>1, <1>3 DEF Starting
<1>4. ASSUME Starting(s), Len(s) >= 2, f.fn = "constructors", g.fn = "constructors"
      PROVE  Starting(t)
  <2>1. t[1].fn = "dlopen" /\ t[1].si # NULL
    BY <1>1, <1>4 DEF Starting
  <2>2. \A k \in 2 .. Len(s) - 1 : t[k].fn = "constructors"
    BY <1>1, <1>4 DEF Starting
  <2>3. \A k \in 2 .. Len(s) : k = Len(s) \/ k \in 2 .. Len(s) - 1
    BY <1>1
  <2>4. \A k \in 2 .. Len(t) - 1 : t[k].fn = "constructors"
    BY <1>1, <1>4, <2>2, <2>3
  <2>5. \A k \in 2 .. Len(t) : k = Len(t) \/ k \in 2 .. Len(t) - 1
    BY <1>1
  <2> QED BY <1>1, <1>4, <2>1, <2>4, <2>5 DEF Starting
<1>5. ASSUME Closing(s), f.fn = "unload",
             g.fn = "unload" \/ (g.fn = "fini" /\ g.si = f.si /\ f.i = 1)
      PROVE  Closing(t)
  <2>1. t[1].fn = "unload"
    BY <1>1, <1>5 DEF Closing
  <2>2. \A k \in 2 .. Len(s) - 1 : t[k].fn = "unload"
    BY <1>1, <1>5 DEF Closing
  <2>3. \A k \in 2 .. Len(s) : k = Len(s) \/ k \in 2 .. Len(s) - 1
    BY <1>1
  <2>4. \A k \in 2 .. Len(t) - 1 : t[k].fn = "unload"
    BY <1>1, <1>5, <2>2, <2>3
  <2>5. \A k \in 2 .. Len(t) : k = Len(t) \/ k \in 2 .. Len(t) - 1
    BY <1>1
  <2>6. \A k \in 2 .. Len(t) : t[k].fn = "fini" => t[k - 1].si = t[k].si /\ t[k - 1].i = 1
    <3>1. SUFFICES ASSUME NEW k \in 2 .. Len(t), t[k].fn = "fini"
                   PROVE  t[k - 1].si = t[k].si /\ t[k - 1].i = 1
      OBVIOUS
    <3>2. k = Len(t)
      BY <2>4, <2>5, <3>1
    <3>3. t[k] = g /\ t[k - 1] = f
      BY <1>1, <3>2
    <3> QED BY <1>5, <3>1, <3>3
  <2>7. \A k \in 2 .. Len(t) : t[k].fn \in {"unload", "fini"}
    BY <1>1, <1>5, <2>4, <2>5
  <2>8. Len(t) >= 1
    BY <1>1
  <2> QED BY <2>1, <2>4, <2>6, <2>7, <2>8 DEF Closing
<1> QED BY <1>2, <1>3, <1>4, <1>5

(* The length of the stack, and its frames.                                *)
LEMMA StackLength ==
  ASSUME TypeInv
  PROVE  /\ Len(stack) \in Nat /\ (stack # << >> => Len(stack) \in Nat \ {0})
         /\ (stack = << >> <=> Len(stack) = 0)
         /\ \A k \in 1 .. Len(stack) : stack[k] \in Frames
<1>1. stack \in Seq(Frames)
  BY DEF TypeInv, LinkerTypes
<1> QED BY <1>1

(* The shape of the calls in progress, at every step.                      *)
LEMMA ShapeInitially ==
  ASSUME Init
  PROVE  ShapeInv
BY DEF Init, ShapeInv, Shape, ReturnsTo

(* Every step of a call keeps the shape of the stack.                      *)
LEMMA ShapeInside ==
  ASSUME LibDLUnnamed, TypeInv, ShapeInv, Inside
  PROVE  ShapeInv'
<1> USE DEF ShapeInv
<1>0. stack # << >>
  BY DEF Inside, Find, Link, Open, Ctors, Unload, FindLibrary, LoadRefused, LoadAlloc,
     LoadSegments, LoadFails, LinkParseFail, LinkFind, LinkNeeded, LinkRelocFail, LinkFinish,
     DlopenFound, DlopenReturn, CtorEnter, CtorNeeded, CtorInit, InitReturns, UnloadEnter,
     FiniReturns, UnloadNeeded, UnloadFree, AboutToFree, InFn
<1>1. PICK n \in Nat \ {0} : n = Len(stack)
  BY <1>0, StackLength
<1>2. /\ Shape(stack) /\ Len(stack) \in Nat \ {0} /\ Top = stack[Len(stack)]
      /\ ReturnsTo(stack, ret)
  BY <1>1 DEF Top
<1>3. /\ Top.fn \in Finding \cup {"link_image"} => Building(stack) /\ Len(stack) >= 2
      /\ Top.fn = "dlopen" =>
           /\ Len(stack) = 1
           /\ Top.si = NULL => Building(stack)
           /\ Top.si # NULL => Starting(stack)
      /\ Top.fn \in {"constructors", "init"} => Starting(stack) /\ Len(stack) >= 2
      /\ Top.fn = "unload" => Closing(stack)
      /\ Top.fn = "fini" => Closing(stack) /\ Len(stack) >= 2
  BY <1>2, ShapeTop
<1>4. /\ Top.fn # "link_image" /\ (Top.fn = "dlopen" => Top.si # NULL) => ret = NOTHING
      /\ ret = NOTHING => ReturnsTo(stack', ret)
  BY <1>2 DEF ReturnsTo
<1>5. ASSUME Pops(stack, stack')
      PROVE  /\ Shape(stack')
             /\ Top.fn \in Finding \cup {"link_image"} => ReturnsTo(stack', ret')
  <2>1. /\ Shape(stack') /\ Len(stack') \in Nat
        /\ Building(stack) /\ Len(stack) >= 2 =>
             /\ Building(stack')
             /\ \/ stack'[Len(stack')].fn = "link_image"
                \/ stack'[Len(stack')].fn = "dlopen" /\ stack'[Len(stack')].si = NULL
    BY <1>2, <1>5, ShapePops
  <2> QED BY <1>3, <2>1 DEF ReturnsTo, Building
<1>6. ASSUME NEW fn, NEW si, NEW i, NEW m, Moving(fn, si, i, m)
      PROVE  /\ Len(stack) >= 2 /\ Building(stack) /\ fn \in Finding \cup {"link_image"}
                  => Shape(stack')
             /\ Len(stack) >= 2 /\ Starting(stack) /\ fn \in {"constructors", "init"}
                  => Shape(stack')
             /\ Closing(stack) /\ fn = "unload" => Shape(stack')
  <2>1. PICK f \in Frames : Sets(stack, stack', f) /\ Is(f, fn, si, i, m)
    BY <1>6 DEF Moving
  <2>2. /\ Building(stack) /\ Len(stack) >= 2 /\ f.fn \in Finding \cup {"link_image"}
             => Building(stack')
        /\ Starting(stack) /\ Len(stack) >= 2 /\ f.fn \in {"constructors", "init"}
             => Starting(stack')
        /\ Closing(stack) /\ f.fn = "unload" => Closing(stack')
    BY <1>2, <2>1, ShapeSets
  <2> QED BY <2>1, <2>2 DEF Shape, Is
<1>7. ASSUME NEW si, NEW i, NEW fn, NEW s, NEW m, Calling(si, i, fn, s, m)
      PROVE  /\ Len(stack) >= 2 /\ Building(stack) /\ Top.fn = "link_image"
                  /\ fn = "find_library" => Shape(stack')
             /\ Len(stack) = 1 /\ Top.fn = "dlopen" /\ si # NULL /\ fn = "constructors"
                  => Shape(stack')
             /\ Len(stack) >= 2 /\ Starting(stack) /\ Top.fn = "constructors"
                  /\ fn = "constructors" => Shape(stack')
             /\ Closing(stack) /\ Top.fn = "unload"
                  /\ (fn = "unload" \/ (fn = "fini" /\ s = si /\ i = 1)) => Shape(stack')
  <2>1. PICK f \in Frames, g \in Frames :
          Calls(stack, stack', f, g) /\ Is(f, Top.fn, si, i, Top.name) /\ Is(g, fn, s, 0, m)
    BY <1>7 DEF Calling
  <2>2. /\ Building(stack) /\ Len(stack) >= 2 /\ f.fn = "link_image" /\ g.fn = "find_library"
             => Building(stack')
        /\ Len(stack) = 1 /\ f.fn = "dlopen" /\ f.si # NULL /\ g.fn = "constructors"
             => Starting(stack')
        /\ Starting(stack) /\ Len(stack) >= 2 /\ f.fn = "constructors"
             /\ g.fn = "constructors" => Starting(stack')
        /\ Closing(stack) /\ f.fn = "unload"
             /\ (g.fn = "unload" \/ (g.fn = "fini" /\ g.si = f.si /\ f.i = 1))
             => Closing(stack')
    BY <1>2, <2>1, ShapeCalls
  <2> QED BY <2>1, <2>2 DEF Shape, Is
<1> HIDE DEF ShapeInv
<1>8. SUFFICES Shape(stack') /\ ReturnsTo(stack', ret')
  BY DEF ShapeInv
<1>9. NULL # NOTHING /\ "link_image" \notin Finding /\ "dlopen" \notin Finding
      /\ "find_library" \in Finding /\ "load_library" \in Finding /\ NULL \notin PoolEntry
  BY PoolEntries DEF NULL, NOTHING, Finding
<1>10. CASE FindLibrary
  BY <1>3, <1>4, <1>5, <1>6, <1>9, <1>10, FindLibraryStep DEF Finding
<1>11. CASE LoadRefused
  BY <1>3, <1>5, <1>9, <1>11, LoadRefusedStep
<1>12. CASE LoadAlloc
  BY <1>3, <1>4, <1>5, <1>6, <1>9, <1>12, LoadAllocStep
<1>13. CASE LoadSegments
  BY <1>3, <1>4, <1>5, <1>6, <1>9, <1>13, LoadSegmentsStep
<1>14. CASE LoadFails
  BY <1>3, <1>5, <1>9, <1>14, LoadFailsStep
<1>15. CASE LinkFails
  BY <1>3, <1>5, <1>9, <1>15, LinkFailStep
<1>16. CASE LinkFind
  BY <1>3, <1>4, <1>7, <1>9, <1>16, LinkFindStep
<1>17. CASE LinkNeeded /\ ret # NULL
  BY <1>3, <1>6, <1>9, <1>17, LinkNeededStep DEF ReturnsTo
<1>18. CASE LinkFinish /\ ~LinkFail(TRUE)
  BY <1>3, <1>5, <1>9, <1>18, LinkedStep
<1>19. CASE DlopenFound
  <2>1. ret' = NOTHING /\ ReturnsTo(stack', ret')
    BY <1>19, DlopenFoundStep DEF ReturnsTo
  <2> QED BY <1>3, <1>5, <1>7, <1>9, <1>19, <2>1, DlopenFoundStep
<1>20. CASE DlopenReturn
  BY <1>4, <1>5, <1>9, <1>20, DlopenReturnStep
<1>21. CASE CtorEnter
  BY <1>3, <1>4, <1>5, <1>6, <1>21, CtorEnterStep
<1>22. CASE CtorNeeded
  BY <1>3, <1>4, <1>6, <1>7, <1>22, CtorNeededStep
<1>23. CASE CtorInit
  BY <1>3, <1>4, <1>6, <1>23, CtorInitStep
<1>24. CASE InitReturns
  BY <1>4, <1>5, <1>24, InitReturnsStep
<1>25. CASE UnloadEnter
  BY <1>3, <1>4, <1>5, <1>7, <1>25, UnloadEnterStep
<1>26. CASE FiniReturns
  BY <1>4, <1>5, <1>26, FiniReturnsStep
<1>27. CASE UnloadNeeded
  BY <1>3, <1>4, <1>6, <1>7, <1>27, UnloadNeededStep
<1>28. CASE UnloadFree
  BY <1>4, <1>5, <1>28, UnloadFreeStep
<1> QED BY <1>10, <1>11, <1>12, <1>13, <1>14, <1>15, <1>16, <1>17, <1>18, <1>19, <1>20,
           <1>21, <1>22, <1>23, <1>24, <1>25, <1>26, <1>27, <1>28, InsideCases

(* So does every step.                                                     *)
LEMMA ShapeStep ==
  ASSUME LibDLUnnamed, TypeInv, ShapeInv, [Next]_vars
  PROVE  ShapeInv'
<1>1. CASE UNCHANGED vars
  BY <1>1 DEF ShapeInv, vars
<1>2. ASSUME NEW n \in Opened, Dlopen(n) PROVE ShapeInv'
  <2>1. /\ Len(stack') = 2 /\ ret' = ret /\ stack = << >>
        /\ Is(stack'[1], "dlopen", NULL, 0, n) /\ Is(stack'[2], "find_library", NULL, 0, n)
    BY <1>2, DlopenStep
  <2>2. ret = NOTHING
    BY <2>1 DEF ShapeInv, ReturnsTo
  <2>3. Building(stack')
    BY <2>1 DEF Building, Is, Finding
  <2> QED BY <2>1, <2>2, <2>3 DEF ShapeInv, Shape, ReturnsTo
<1>3. ASSUME NEW s \in Slots, Dlclose(s) PROVE ShapeInv'
  <2>1. /\ Len(stack') = 1 /\ ret' = ret /\ stack = << >>
        /\ Is(stack'[1], "unload", s, 0, info[s].name)
    BY <1>3, DlcloseStep
  <2>2. ret = NOTHING
    BY <2>1 DEF ShapeInv, ReturnsTo
  <2>3. Closing(stack')
    BY <2>1 DEF Closing, Is
  <2> QED BY <2>1, <2>2, <2>3 DEF ShapeInv, Shape, ReturnsTo
<1>4. ASSUME NEW s \in Slots, LibraryDestroy(s) PROVE ShapeInv'
  BY <1>4, LibraryDestroyStep DEF ShapeInv
<1>5. ASSUME NEW n \in Stubs, LibraryCreate(n) PROVE ShapeInv'
  BY <1>5, LibraryCreateStep DEF ShapeInv
<1>6. CASE Inside
  BY <1>6, ShapeInside
<1> QED BY <1>1, <1>2, <1>3, <1>4, <1>5, <1>6 DEF Next

-----------------------------------------------------------------------------
(* The entries that a dlopen works on.  They are on solist,                *)
PlacedAt(f, on) ==
  f.fn \in {"dlopen", "load_library", "link_image"} /\ f.si # NULL => f.si \in on
Placed ==
  /\ \A k \in 1 .. Len(stack) : PlacedAt(stack[k], On(Solist))
  /\ ret \notin {NOTHING, NULL} => ret \in On(Solist)

(* one that load_library has just got is new,                              *)
Loading ==
  InFn("load_library") /\ Top.si # NULL =>
    /\ info[Top.si] = Soinfo(Top.name)
    /\ \A k \in 1 .. Len(stack) - 1 : stack[k].si # Top.si

(* and one being linked is mapped, not linked, and linked by one call.     *)
LinkingOf(f, x) ==
  f.fn = "link_image" =>
    /\ x.name = f.name /\ f.i = Len(x.deps) + 1
    /\ x.image = "mapped" /\ ~x.linked /\ ~x.error /\ ~x.constructors_called
Linking ==
  /\ \A k \in 1 .. Len(stack) : LinkingOf(stack[k], info[stack[k].si])
  /\ \A j, k \in 1 .. Len(stack) :
       stack[j].fn = "link_image" /\ stack[k].fn = "link_image" /\ stack[j].si = stack[k].si
         => j = k
WorkInv == Placed /\ Loading /\ Linking

(* What is known of the calls beneath the innermost one.                   *)
LEMMA WorkBeneath ==
  ASSUME TypeInv, ShapeInv, WorkInv, stack # << >>, NEW k \in 1 .. Len(stack) - 1
  PROVE  /\ stack[k] \in Frames /\ k \in 1 .. Len(stack) /\ k # Len(stack)
         /\ stack[k].fn \notin Finding /\ stack[k].fn \notin {"init", "fini"}
         /\ stack[k].fn = "dlopen" => k = 1
         /\ stack[k].fn = "link_image" => Building(stack)
         /\ stack[k].fn \in {"dlopen", "link_image"} => Building(stack) \/ Starting(stack)
         /\ Building(stack) =>
              /\ stack[k].fn \in {"dlopen", "link_image"}
              /\ stack[k].fn = "dlopen" => stack[k].si = NULL
         /\ stack[k].fn = "link_image" =>
              /\ stack[k].si \in On(Solist) /\ stack[k].si \in PoolEntry
              /\ LinkingOf(stack[k], info[stack[k].si])
              /\ Top.fn = "link_image" => stack[k].si # Top.si
         /\ Top.fn = "load_library" /\ Top.si # NULL => stack[k].si # Top.si
<1>1. PICK n \in Nat \ {0} : n = Len(stack)
  BY StackLength
<1>2. k \in 1 .. Len(stack) /\ k # Len(stack) /\ n \in 1 .. Len(stack)
      /\ (k = 1 \/ k \in 2 .. Len(stack) - 1)
  BY <1>1
<1>3. stack[k] \in Frames /\ Top = stack[n]
  BY <1>1, <1>2, StackLength DEF Top
<1>4. /\ stack[k].fn = "link_image" => stack[k].si \in PoolEntry /\ stack[k].si # NULL
      /\ stack[k].fn \in Finding \cup Holding \cup {"dlopen"}
  BY <1>3, FrameFields, PoolEntries DEF Holding
<1>5. /\ PlacedAt(stack[k], On(Solist)) /\ LinkingOf(stack[k], info[stack[k].si])
      /\ stack[n].fn = "link_image" /\ stack[k].fn = "link_image" => stack[k].si # stack[n].si
  BY <1>1, <1>2 DEF WorkInv, Placed, Linking
<1>6. Building(stack) \/ Starting(stack) \/ Closing(stack)
  BY <1>1 DEF ShapeInv, Shape
<1>7. CASE Building(stack)
  <2>1. (k = 1 => stack[k].fn = "dlopen" /\ stack[k].si = NULL)
        /\ (k # 1 => stack[k].fn = "link_image")
    BY <1>2, <1>7 DEF Building
  <2>2. Top.fn = "load_library" /\ Top.si # NULL => stack[k].si # Top.si
    BY <1>3 DEF WorkInv, Loading, InFn
  <2> QED BY <1>2, <1>3, <1>4, <1>5, <1>7, <2>1, <2>2 DEF PlacedAt, Finding
<1>8. CASE Starting(stack)
  <2>1. (k = 1 => stack[k].fn = "dlopen") /\ (k # 1 => stack[k].fn = "constructors")
    BY <1>2, <1>8 DEF Starting
  <2>2. Top.fn # "load_library" /\ ~Building(stack)
    BY <1>1, <1>3, <1>8, OneOrMore DEF Starting, Building
  <2> QED BY <1>2, <1>3, <1>4, <1>5, <1>8, <2>1, <2>2 DEF PlacedAt, Finding
<1>9. CASE Closing(stack)
  <2>1. stack[k].fn = "unload"
    BY <1>2, <1>9 DEF Closing
  <2>2. Top.fn # "load_library" /\ ~Building(stack)
    BY <1>1, <1>3, <1>9, OneOrMore DEF Closing, Building
  <2> QED BY <1>2, <1>3, <1>4, <1>5, <1>9, <2>1, <2>2 DEF PlacedAt, Finding
<1> QED BY <1>6, <1>7, <1>8, <1>9

(* A return while a library is being looked for.                           *)
LEMMA WorkPops ==
  ASSUME TypeInv, ShapeInv, WorkInv, stack # << >>, Pops(stack, stack'),
         NEW on, on = On(Solist)',
         \A k \in 1 .. Len(stack) - 1 :
           stack[k].fn \in {"dlopen", "link_image"} /\ stack[k].si # NULL
             => stack[k].si \in on,
         \A k \in 1 .. Len(stack) - 1 :
           stack[k].fn = "link_image" => LinkingOf(stack[k], info'[stack[k].si]),
         ret' \notin {NOTHING, NULL} => ret' \in on
  PROVE  WorkInv'
<1>1. PICK n \in Nat \ {0} : n = Len(stack)
  BY StackLength
<1>2. Len(stack') = n - 1 /\ \A k \in 1 .. n - 1 : stack'[k] = stack[k]
  BY <1>1 DEF Pops
<1>3. \A k \in 1 .. n - 1 : stack[k].fn \notin Finding /\ k \in 1 .. n
  BY <1>1, WorkBeneath
<1>4. Placed'
  <2>1. ASSUME NEW k \in 1 .. n - 1 PROVE PlacedAt(stack'[k], on)
    BY <1>1, <1>2, <1>3 DEF PlacedAt, Finding
  <2> QED BY <1>2, <2>1 DEF Placed
<1>5. Loading'
  <2>1. n - 1 = 0 \/ n - 1 \in 1 .. n - 1
    OBVIOUS
  <2>2. CASE n - 1 = 0
    BY <1>2, <2>2 DEF Loading, InFn
  <2>3. CASE n - 1 \in 1 .. n - 1
    <3>1. stack'[n - 1].fn \notin Finding
      BY <1>2, <1>3, <2>3
    <3> QED BY <1>2, <3>1 DEF Loading, InFn, Top, Finding
  <2> QED BY <2>1, <2>2, <2>3
<1>6. Linking'
  <2>1. ASSUME NEW k \in 1 .. n - 1 PROVE LinkingOf(stack'[k], info'[stack'[k].si])
    BY SMTT(20), <1>1, <1>2 DEF LinkingOf
  <2>2. ASSUME NEW j \in 1 .. n - 1, NEW k \in 1 .. n - 1,
               stack'[j].fn = "link_image", stack'[k].fn = "link_image",
               stack'[j].si = stack'[k].si
        PROVE  j = k
    BY <1>1, <1>2, <1>3, <2>2 DEF WorkInv, Linking
  <2> QED BY <1>2, <2>1, <2>2 DEF Linking
<1> QED BY <1>4, <1>5, <1>6 DEF WorkInv

(* A step to another place of the innermost call.                          *)
LEMMA WorkSets ==
  ASSUME TypeInv, ShapeInv, WorkInv, stack # << >>, NEW f, Sets(stack, stack', f),
         NEW on, on = On(Solist)',
         \A k \in 1 .. Len(stack) - 1 :
           stack[k].fn \in {"dlopen", "link_image"} /\ stack[k].si # NULL
             => stack[k].si \in on,
         \A k \in 1 .. Len(stack) - 1 :
           stack[k].fn = "link_image" =>
             /\ LinkingOf(stack[k], info'[stack[k].si])
             /\ f.fn = "link_image" => f.si # stack[k].si,
         PlacedAt(f, on), LinkingOf(f, info'[f.si]),
         f.fn = "load_library" /\ f.si # NULL =>
           /\ info'[f.si] = Soinfo(f.name)
           /\ \A k \in 1 .. Len(stack) - 1 : stack[k].si # f.si,
         ret' \notin {NOTHING, NULL} => ret' \in on
  PROVE  WorkInv'
<1>1. PICK n \in Nat \ {0} : n = Len(stack)
  BY StackLength
<1>2. Len(stack') = n /\ stack'[n] = f /\ \A k \in 1 .. n - 1 : stack'[k] = stack[k]
  BY <1>1 DEF Sets
<1>3. \A k \in 1 .. n - 1 : stack[k].fn \notin Finding /\ k \in 1 .. n
  BY <1>1, WorkBeneath
<1>4. \A k \in 1 .. n : k = n \/ k \in 1 .. n - 1
  OBVIOUS
<1>5. Placed'
  <2>1. ASSUME NEW k \in 1 .. n - 1 PROVE PlacedAt(stack'[k], on)
    BY <1>1, <1>2, <1>3 DEF PlacedAt, Finding
  <2> QED BY <1>2, <1>4, <2>1 DEF Placed
<1>6. Loading'
  <2>1. SUFFICES ASSUME f.fn = "load_library", f.si # NULL
                 PROVE  /\ info'[f.si] = Soinfo(f.name)
                        /\ \A k \in 1 .. n - 1 : stack'[k].si # f.si
    BY <1>2 DEF Loading, InFn, Top
  <2> QED BY <1>1, <1>2, <2>1
<1>7. Linking'
  <2>1. ASSUME NEW k \in 1 .. n - 1 PROVE LinkingOf(stack'[k], info'[stack'[k].si])
    BY SMTT(20), <1>1, <1>2 DEF LinkingOf
  <2>2. LinkingOf(stack'[n], info'[stack'[n].si])
    BY <1>2
  <2>3. \A k \in 1 .. n : LinkingOf(stack'[k], info'[stack'[k].si])
    BY <1>4, <2>1, <2>2
  <2>4. ASSUME NEW j \in 1 .. n, NEW k \in 1 .. n,
               stack'[j].fn = "link_image", stack'[k].fn = "link_image",
               stack'[j].si = stack'[k].si
        PROVE  j = k
    <3>1. CASE j \in 1 .. n - 1 /\ k \in 1 .. n - 1
      BY <1>1, <1>2, <1>3, <2>4, <3>1 DEF WorkInv, Linking
    <3>2. CASE j = n /\ k \in 1 .. n - 1
      BY <1>1, <1>2, <2>4, <3>2
    <3>3. CASE j \in 1 .. n - 1 /\ k = n
      BY <1>1, <1>2, <2>4, <3>3
    <3> QED BY <1>4, <3>1, <3>2, <3>3
  <2> QED BY <1>2, <2>3, <2>4 DEF Linking
<1> QED BY <1>5, <1>6, <1>7 DEF WorkInv

(* A call: what is called holds no entry yet.                              *)
LEMMA WorkCalls ==
  ASSUME TypeInv, ShapeInv, WorkInv, stack # << >>, NEW f, NEW g,
         Calls(stack, stack', f, g), On(Solist)' = On(Solist),
         \A k \in 1 .. Len(stack) - 1 :
           stack[k].fn = "link_image" =>
             /\ LinkingOf(stack[k], info'[stack[k].si])
             /\ f.fn = "link_image" => f.si # stack[k].si,
         PlacedAt(f, On(Solist)), LinkingOf(f, info'[f.si]), f.fn # "load_library",
         g.fn \notin {"dlopen", "load_library", "link_image"},
         ret' \notin {NOTHING, NULL} => ret' \in On(Solist)
  PROVE  WorkInv'
<1>1. PICK n \in Nat \ {0} : n = Len(stack)
  BY StackLength
<1>2. /\ Len(stack') = n + 1 /\ stack'[n] = f /\ stack'[n + 1] = g
      /\ \A k \in 1 .. n - 1 : stack'[k] = stack[k]
  BY <1>1 DEF Calls
<1>3. \A k \in 1 .. n - 1 : stack[k].fn \notin Finding /\ k \in 1 .. n
  BY <1>1, WorkBeneath
<1>4. \A k \in 1 .. n + 1 : k = n + 1 \/ k = n \/ k \in 1 .. n - 1
  OBVIOUS
<1>5. Placed'
  <2>1. ASSUME NEW k \in 1 .. n - 1 PROVE PlacedAt(stack'[k], On(Solist))
    <3>1. PlacedAt(stack[k], On(Solist))
      BY <1>1, <1>3 DEF WorkInv, Placed
    <3> QED BY <1>2, <3>1
  <2>2. PlacedAt(stack'[n + 1], On(Solist)) /\ PlacedAt(stack'[n], On(Solist))
    BY <1>2 DEF PlacedAt
  <2>3. \A k \in 1 .. Len(stack') : PlacedAt(stack'[k], On(Solist))
    BY <1>2, <1>4, <2>1, <2>2
  <2> QED BY <2>3 DEF Placed
<1>6. Loading'
  BY <1>2 DEF Loading, InFn, Top
<1>7. Linking'
  <2>1. ASSUME NEW k \in 1 .. n - 1 PROVE LinkingOf(stack'[k], info'[stack'[k].si])
    <3>1. stack'[k] = stack[k] /\ k \in 1 .. Len(stack) - 1
      BY <1>1, <1>2
    <3>2. CASE stack[k].fn = "link_image"
      BY <3>1, <3>2
    <3>3. CASE stack[k].fn # "link_image"
      BY <3>1, <3>3 DEF LinkingOf
    <3> QED BY <3>2, <3>3
  <2>2. /\ LinkingOf(stack'[n], info'[stack'[n].si])
        /\ LinkingOf(stack'[n + 1], info'[stack'[n + 1].si])
    BY <1>2 DEF LinkingOf
  <2>3. \A k \in 1 .. n + 1 : LinkingOf(stack'[k], info'[stack'[k].si])
    BY <1>4, <2>1, <2>2
  <2>4. ASSUME NEW j \in 1 .. n + 1, NEW k \in 1 .. n + 1,
               stack'[j].fn = "link_image", stack'[k].fn = "link_image",
               stack'[j].si = stack'[k].si
        PROVE  j = k
    <3>0. j # n + 1 /\ k # n + 1
      BY <1>2, <2>4
    <3>1. CASE j \in 1 .. n - 1 /\ k \in 1 .. n - 1
      BY <1>1, <1>2, <1>3, <2>4, <3>1 DEF WorkInv, Linking
    <3>2. CASE j = n /\ k \in 1 .. n - 1
      BY <1>1, <1>2, <2>4, <3>2
    <3>3. CASE j \in 1 .. n - 1 /\ k = n
      BY <1>1, <1>2, <2>4, <3>3
    <3> QED BY <1>4, <3>0, <3>1, <3>2, <3>3
  <2> QED BY <1>2, <2>3, <2>4 DEF Linking
<1> QED BY <1>5, <1>6, <1>7 DEF WorkInv

(* At first no call is in progress.                                        *)
LEMMA WorkInitially ==
  ASSUME Init
  PROVE  WorkInv
<1>1. stack = << >> /\ ret = NOTHING
  BY DEF Init
<1> QED BY <1>1 DEF WorkInv, Placed, Loading, Linking, InFn

(* The entries a dlopen works on, at every step of a call.                 *)
LEMMA WorkInside ==
  ASSUME LibDLUnnamed, TypeInv, ShapeInv, WorkInv, Inside
  PROVE  WorkInv'
<1>0. stack # << >>
  BY DEF Inside, Find, Link, Open, Ctors, Unload, FindLibrary, LoadRefused, LoadAlloc,
     LoadSegments, LoadFails, LinkParseFail, LinkFind, LinkNeeded, LinkRelocFail, LinkFinish,
     DlopenFound, DlopenReturn, CtorEnter, CtorNeeded, CtorInit, InitReturns, UnloadEnter,
     FiniReturns, UnloadNeeded, UnloadFree, AboutToFree, InFn
<1>1. PICK n \in Nat \ {0} : n = Len(stack)
  BY <1>0, StackLength
<1>2. /\ PlacedAt(Top, On(Solist)) /\ LinkingOf(Top, info[Top.si])
      /\ ret \notin {NOTHING, NULL} => ret \in On(Solist)
      /\ \A k \in 1 .. n - 1 : PlacedAt(stack[k], On(Solist))
  <2>1. n \in 1 .. n /\ \A k \in 1 .. n - 1 : k \in 1 .. n
    OBVIOUS
  <2> QED BY <1>1, <2>1 DEF WorkInv, Placed, Linking, Top
<1>3. \A k \in 1 .. n - 1 :
        stack[k].fn \in {"dlopen", "link_image"} /\ stack[k].si # NULL
          => stack[k].si \in On(Solist)
  BY <1>2 DEF PlacedAt
<1>4. \A k \in 1 .. n - 1 :
        stack[k].fn = "link_image" =>
          /\ LinkingOf(stack[k], info[stack[k].si])
          /\ Top.fn = "link_image" => stack[k].si # Top.si
          /\ stack[k].si \in On(Solist) /\ stack[k].si \in PoolEntry /\ Building(stack)
  BY <1>0, <1>1, WorkBeneath
<1>5. Top.fn = "load_library" /\ Top.si # NULL =>
        /\ info[Top.si] = Soinfo(Top.name)
        /\ \A k \in 1 .. n - 1 : stack[k].si # Top.si
  BY <1>0, <1>1 DEF WorkInv, Loading, InFn
<1>6. /\ Top.fn \in {"constructors", "init", "unload", "fini"} => ~Building(stack)
      /\ Top.fn = "dlopen" => n = 1
  <2>1. Shape(stack) /\ Len(stack) \in Nat \ {0} /\ Top = stack[Len(stack)]
    BY <1>1 DEF ShapeInv, Top
  <2>2. /\ Top.fn \in {"constructors", "init"} => Starting(stack) /\ Len(stack) >= 2
        /\ Top.fn \in {"unload", "fini"} => Closing(stack)
        /\ Top.fn = "dlopen" => n = 1
    BY <1>1, <2>1, ShapeTop
  <2> QED BY <2>2 DEF Building, Starting, Closing
<1>7. Top.fn \in {"constructors", "init", "unload", "fini", "dlopen"} =>
        \A k \in 1 .. n - 1 : stack[k].fn # "link_image"
  BY <1>4, <1>6
<1>8. NULL # NOTHING /\ NULL \notin PoolEntry /\ NOTHING \notin PoolEntry
      /\ PoolEntry \subseteq Slots
  BY PoolEntries DEF NULL, NOTHING
<1>9. \A a \in PoolEntry :
        Only(a) /\ (\A k \in 1 .. n - 1 : stack[k].fn = "link_image" => stack[k].si # a)
          => \A k \in 1 .. n - 1 :
               stack[k].fn = "link_image" => LinkingOf(stack[k], info'[stack[k].si])
  BY <1>4, <1>8 DEF Only
<1>10. CASE FindLibrary
  <2>1. /\ On(Solist)' = On(Solist) /\ info' = info
        /\ \/ Pops(stack, stack') /\ (ret' = NULL \/ ret' \in On(Solist))
           \/ Moving("load_library", NULL, 0, Top.name) /\ ret' = ret
    BY <1>10, FindLibraryStep, ListsSame
  <2>2. CASE Pops(stack, stack') /\ (ret' = NULL \/ ret' \in On(Solist))
    BY <1>0, <1>1, <1>3, <1>4, <2>1, <2>2, WorkPops
  <2>3. CASE Moving("load_library", NULL, 0, Top.name) /\ ret' = ret
    <3>1. PICK f : Sets(stack, stack', f) /\ Is(f, "load_library", NULL, 0, Top.name)
      BY <2>3 DEF Moving
    <3>2. f.fn = "load_library" /\ f.si = NULL
          /\ PlacedAt(f, On(Solist)) /\ LinkingOf(f, info'[f.si])
      BY <3>1 DEF Is, PlacedAt, LinkingOf
    <3> QED BY <1>0, <1>1, <1>2, <1>3, <1>4, <2>1, <2>3, <3>1, <3>2, WorkSets
  <2> QED BY <2>1, <2>2, <2>3
<1>11. CASE LoadRefused
  <2>1. /\ On(Solist)' = On(Solist) /\ info' = info /\ Pops(stack, stack') /\ ret' = NULL
    BY <1>11, LoadRefusedStep, ListsSame
  <2> QED BY <1>0, <1>1, <1>3, <1>4, <2>1, WorkPops
<1>12. CASE LoadAlloc
  <2>1. \/ Pops(stack, stack') /\ ret' = NULL /\ UNCHANGED lists /\ info' = info
        \/ \E a \in PoolEntry :
             /\ a \notin On(Solist) /\ On(Solist)' = On(Solist) \cup {a}
             /\ Only(a) /\ info'[a] = Soinfo(Top.name)
             /\ Moving("load_library", a, Top.i, Top.name) /\ ret' = ret
    BY <1>12, LoadAllocStep
  <2>2. CASE Pops(stack, stack') /\ ret' = NULL /\ UNCHANGED lists /\ info' = info
    BY <1>0, <1>1, <1>3, <1>4, <2>2, WorkPops, ListsSame
  <2>3. CASE \E a \in PoolEntry :
               /\ a \notin On(Solist) /\ On(Solist)' = On(Solist) \cup {a}
               /\ Only(a) /\ info'[a] = Soinfo(Top.name)
               /\ Moving("load_library", a, Top.i, Top.name) /\ ret' = ret
    <3>1. PICK a \in PoolEntry :
             /\ a \notin On(Solist) /\ On(Solist)' = On(Solist) \cup {a}
             /\ Only(a) /\ info'[a] = Soinfo(Top.name)
             /\ Moving("load_library", a, Top.i, Top.name) /\ ret' = ret
      BY <2>3
    <3>2. PICK f : Sets(stack, stack', f) /\ Is(f, "load_library", a, Top.i, Top.name)
      BY <3>1 DEF Moving
    <3>3. /\ f.fn = "load_library" /\ f.si = a /\ f.name = Top.name
          /\ PlacedAt(f, On(Solist)') /\ LinkingOf(f, info'[f.si])
      BY <3>1, <3>2 DEF Is, PlacedAt, LinkingOf
    <3>4. \A k \in 1 .. n - 1 : stack[k].fn = "link_image" => stack[k].si # a
      BY <1>4, <3>1
    <3>5. Top.fn = "load_library"
      BY <1>12, LoadAllocStep
    <3>6. Building(stack)
      BY <1>1, <3>5, ShapeTop DEF ShapeInv, Top, Finding
    <3>7. \A k \in 1 .. n - 1 :
            /\ stack[k].fn \in {"dlopen", "link_image"}
            /\ stack[k].fn = "dlopen" => stack[k].si = NULL
      BY <1>0, <1>1, <3>6, WorkBeneath
    <3>8. \A k \in 1 .. n - 1 : stack[k].si # a
      BY <1>8, <3>4, <3>7
    <3>9. \A k \in 1 .. n - 1 :
            stack[k].fn = "link_image" => LinkingOf(stack[k], info'[stack[k].si])
      BY <1>9, <3>1, <3>4
    <3>10. PICK on : on = On(Solist)'
      OBVIOUS
    <3>11. \A k \in 1 .. n - 1 :
            stack[k].fn \in {"dlopen", "link_image"} /\ stack[k].si # NULL
              => stack[k].si \in on
      BY <1>3, <3>1, <3>10
    <3>12. ret' \notin {NOTHING, NULL} => ret' \in on
      BY <1>2, <3>1, <3>10
    <3> QED BY <1>0, <1>1, <3>1, <3>2, <3>3, <3>8, <3>9, <3>10, <3>11, <3>12, WorkSets
  <2> QED BY <2>1, <2>2, <2>3
<1>13. CASE LoadSegments
  <2>1. /\ On(Solist)' = On(Solist) /\ ret' = ret /\ Top.fn = "load_library"
        /\ Top.si \in PoolEntry /\ Only(Top.si)
        /\ info'[Top.si] = [info[Top.si] EXCEPT !.image = "mapped"]
        /\ Moving("link_image", Top.si, 1, Top.name)
    BY <1>13, LoadSegmentsStep, ListsSame
  <2>2. PICK f \in Frames : Sets(stack, stack', f) /\ Is(f, "link_image", Top.si, 1, Top.name)
    BY <2>1 DEF Moving
  <2>3. info[Top.si] = Soinfo(Top.name) /\ \A k \in 1 .. n - 1 : stack[k].si # Top.si
    BY <1>5, <1>8, <2>1
  <2>4. /\ f.fn = "link_image" /\ f.si = Top.si /\ f.i = 1 /\ f.name = Top.name
        /\ PlacedAt(f, On(Solist))
    BY <1>2, <2>1, <2>2 DEF Is, PlacedAt
  <2>5. LinkingOf(f, info'[f.si])
    <3>1. Top.name \in Libraries
      BY <2>2, <2>4, FrameFields
    <3>2. PICK r : r = info[Top.si]
      OBVIOUS
    <3>3. /\ r.name = Top.name /\ ~r.linked /\ ~r.error /\ r.deps = << >>
          /\ ~r.constructors_called /\ r \in Soinfos
      BY <2>3, <3>1, <3>2, SoinfoMade
    <3>4. PICK q : q = [r EXCEPT !.image = "mapped"]
      OBVIOUS
    <3>5. /\ q.name = Top.name /\ ~q.linked /\ ~q.error /\ q.deps = << >>
          /\ ~q.constructors_called /\ q.image = "mapped"
      BY <3>3, <3>4 DEF Soinfos
    <3>6. Len(q.deps) = 0
      BY <3>5
    <3>7. info'[f.si] = q
      BY <2>1, <2>4, <3>2, <3>4
    <3> QED BY <2>4, <3>5, <3>6, <3>7 DEF LinkingOf
  <2>6. \A k \in 1 .. n - 1 :
          stack[k].fn = "link_image" => LinkingOf(stack[k], info'[stack[k].si])
    BY <1>9, <2>1, <2>3
  <2> QED BY <1>0, <1>1, <1>2, <1>3, <2>1, <2>2, <2>3, <2>4, <2>5, <2>6, WorkSets
<1>14. CASE LoadFails
  <2>1. /\ On(Solist)' = On(Solist) \ {Top.si} /\ info' = info /\ Pops(stack, stack')
        /\ ret' = NULL /\ Top.fn = "load_library" /\ Top.si \in PoolEntry
    BY <1>14, LoadFailsStep
  <2>2. PICK on : on = On(Solist)'
    OBVIOUS
  <2>3. \A k \in 1 .. n - 1 :
          stack[k].fn \in {"dlopen", "link_image"} /\ stack[k].si # NULL
            => stack[k].si \in on
    BY <1>3, <1>5, <1>8, <2>1, <2>2
  <2> QED BY <1>0, <1>1, <1>4, <2>1, <2>2, <2>3, WorkPops
<1>15. CASE LinkFails
  <2>1. /\ On(Solist)' = On(Solist) /\ Only(Top.si) /\ Pops(stack, stack')
        /\ ret' = NULL /\ Top.fn = "link_image" /\ Top.si \in PoolEntry
    BY <1>15, LinkFailStep, ListsSame
  <2>2. \A k \in 1 .. n - 1 :
          stack[k].fn = "link_image" => LinkingOf(stack[k], info'[stack[k].si])
    BY <1>4, <1>9, <2>1
  <2> QED BY <1>0, <1>1, <1>3, <2>1, <2>2, WorkPops
<1>16. CASE LinkFind
  <2>1. /\ On(Solist)' = On(Solist) /\ info' = info /\ ret' = ret /\ Top.fn = "link_image"
        /\ Calling(Top.si, Top.i, "find_library", NULL, NeededBy(Top.si)[Top.i])
    BY <1>16, LinkFindStep, ListsSame
  <2>2. PICK f \in Frames, g \in Frames :
          /\ Calls(stack, stack', f, g) /\ Is(f, Top.fn, Top.si, Top.i, Top.name)
          /\ Is(g, "find_library", NULL, 0, NeededBy(Top.si)[Top.i])
    BY <2>1 DEF Calling
  <2>3. /\ f.fn = "link_image" /\ f.si = Top.si /\ g.fn = "find_library"
        /\ PlacedAt(f, On(Solist)) /\ LinkingOf(f, info'[f.si])
    BY <1>2, <2>1, <2>2 DEF Is, PlacedAt, LinkingOf
  <2> QED BY <1>0, <1>1, <1>2, <1>4, <2>1, <2>2, <2>3, WorkCalls
<1>17. CASE LinkNeeded /\ ret # NULL
  <2>1. /\ On(Solist)' = On(Solist) /\ ret' = NOTHING /\ Top.fn = "link_image"
        /\ Top.si \in PoolEntry /\ ret \in PoolEntry
        /\ Moving("link_image", Top.si, Top.i + 1, Top.name)
    BY <1>17, LinkNeededStep, ListsSame
  <2>2. PICK f \in Frames :
          Sets(stack, stack', f) /\ Is(f, "link_image", Top.si, Top.i + 1, Top.name)
    BY <2>1 DEF Moving
  <2>3. /\ SameName /\ SameLinked /\ SameError /\ SameCalled /\ SameImage
        /\ info'[Top.si].deps = Append(info[Top.si].deps, ret)
        /\ \A s \in Slots : s # Top.si => info'[s].deps = info[s].deps
    BY <1>17, LinkNeededFields
  <2>4. \A k \in 1 .. n - 1 :
          stack[k].fn = "link_image" =>
            LinkingOf(stack[k], info'[stack[k].si]) /\ Top.si # stack[k].si
    BY ZenonT(30), <1>4, <1>8, <2>1, <2>3
       DEF LinkingOf, SameName, SameLinked, SameError, SameCalled, SameImage
  <2>5. /\ f.fn = "link_image" /\ f.si = Top.si /\ f.i = Top.i + 1 /\ f.name = Top.name
        /\ PlacedAt(f, On(Solist))
    BY <1>2, <2>1, <2>2 DEF Is, PlacedAt
  <2>6. LinkingOf(f, info'[f.si])
    <3>1. PICK d \in Seq(PoolEntry \cup {NULL}) : d = info[Top.si].deps
      BY <1>8, <2>1, InfoFields DEF TypeInv
    <3>2. Len(Append(d, ret)) = Len(d) + 1
      BY <2>1
    <3>3. Top.i = Len(d) + 1
      BY <1>2, <2>1, <3>1 DEF LinkingOf
    <3>4. f.i = Len(info'[f.si].deps) + 1
      BY <2>3, <2>5, <3>1, <3>2, <3>3
    <3> QED BY <1>2, <1>8, <2>1, <2>3, <2>5, <3>4
       DEF LinkingOf, SameName, SameLinked, SameError, SameCalled, SameImage
  <2> QED BY <1>0, <1>1, <1>3, <2>1, <2>2, <2>4, <2>5, <2>6, WorkSets
<1>18. CASE LinkFinish /\ ~LinkFail(TRUE)
  <2>1. /\ On(Solist)' = On(Solist) /\ Only(Top.si) /\ Pops(stack, stack')
        /\ ret' = Top.si /\ Top.fn = "link_image" /\ Top.si \in PoolEntry
    BY <1>18, LinkedStep, ListsSame
  <2>2. \A k \in 1 .. n - 1 :
          stack[k].fn = "link_image" => LinkingOf(stack[k], info'[stack[k].si])
    BY <1>4, <1>9, <2>1
  <2>3. ret' \in On(Solist)
    BY <1>2, <1>8, <2>1 DEF PlacedAt
  <2> QED BY <1>0, <1>1, <1>3, <2>1, <2>2, <2>3, WorkPops
<1>19. CASE DlopenFound
  <2>1. /\ On(Solist)' = On(Solist) /\ info' = info /\ ret' = NOTHING /\ Top.fn = "dlopen"
        /\ ret # NOTHING
        /\ \/ ret = NULL /\ Pops(stack, stack')
           \/ ret \in PoolEntry /\ Calling(ret, Top.i, "constructors", ret, Top.name)
    BY <1>19, DlopenFoundStep, ListsSame
  <2>2. CASE Pops(stack, stack')
    BY <1>0, <1>1, <1>3, <1>4, <2>1, <2>2, WorkPops
  <2>3. CASE ret \in PoolEntry /\ Calling(ret, Top.i, "constructors", ret, Top.name)
    <3>1. PICK f \in Frames, g \in Frames :
            /\ Calls(stack, stack', f, g) /\ Is(f, Top.fn, ret, Top.i, Top.name)
            /\ Is(g, "constructors", ret, 0, Top.name)
      BY <2>3 DEF Calling
    <3>2. /\ f.fn = "dlopen" /\ g.fn = "constructors"
          /\ PlacedAt(f, On(Solist)) /\ LinkingOf(f, info'[f.si])
      BY <1>2, <1>8, <2>1, <2>3, <3>1 DEF Is, PlacedAt, LinkingOf
    <3> QED BY <1>0, <1>1, <1>7, <2>1, <3>1, <3>2, WorkCalls
  <2> QED BY <2>1, <2>2, <2>3
<1>20. CASE DlopenReturn
  <2>1. /\ On(Solist)' = On(Solist) /\ ret' = ret /\ Top.fn = "dlopen" /\ Pops(stack, stack')
    BY <1>20, DlopenReturnStep, ListsSame
  <2> QED BY <1>0, <1>1, <1>2, <1>3, <1>7, <2>1, WorkPops
<1>21. CASE CtorEnter
  <2>1. /\ On(Solist)' = On(Solist) /\ ret' = ret /\ Top.fn = "constructors"
        /\ (Pops(stack, stack') \/ Moving("constructors", Top.si, 1, Top.name))
    BY <1>21, CtorEnterStep, ListsSame
  <2>2. CASE Pops(stack, stack')
    BY <1>0, <1>1, <1>2, <1>3, <1>7, <2>1, <2>2, WorkPops
  <2>3. CASE Moving("constructors", Top.si, 1, Top.name)
    <3>1. PICK f \in Frames :
            Sets(stack, stack', f) /\ Is(f, "constructors", Top.si, 1, Top.name)
      BY <2>3 DEF Moving
    <3>2. f.fn = "constructors" /\ PlacedAt(f, On(Solist)) /\ LinkingOf(f, info'[f.si])
      BY <3>1 DEF Is, PlacedAt, LinkingOf
    <3> QED BY <1>0, <1>1, <1>2, <1>3, <1>7, <2>1, <3>1, <3>2, WorkSets
  <2> QED BY <2>1, <2>2, <2>3
<1>22. CASE CtorNeeded
  <2>1. /\ On(Solist)' = On(Solist) /\ ret' = ret /\ Top.fn = "constructors"
        /\ \E s : \/ Calling(Top.si, Top.i + 1, "constructors", s, Top.name)
                  \/ Moving("constructors", Top.si, Top.i + 1, Top.name)
    BY <1>22, CtorNeededStep, ListsSame
  <2>2. CASE Moving("constructors", Top.si, Top.i + 1, Top.name)
    <3>1. PICK f \in Frames :
            Sets(stack, stack', f) /\ Is(f, "constructors", Top.si, Top.i + 1, Top.name)
      BY <2>2 DEF Moving
    <3>2. f.fn = "constructors" /\ PlacedAt(f, On(Solist)) /\ LinkingOf(f, info'[f.si])
      BY <3>1 DEF Is, PlacedAt, LinkingOf
    <3> QED BY <1>0, <1>1, <1>2, <1>3, <1>7, <2>1, <3>1, <3>2, WorkSets
  <2>3. ASSUME NEW s, Calling(Top.si, Top.i + 1, "constructors", s, Top.name) PROVE WorkInv'
    <3>1. PICK f \in Frames, g \in Frames :
            /\ Calls(stack, stack', f, g) /\ Is(f, Top.fn, Top.si, Top.i + 1, Top.name)
            /\ Is(g, "constructors", s, 0, Top.name)
      BY <2>3 DEF Calling
    <3>2. /\ f.fn = "constructors" /\ g.fn = "constructors"
          /\ PlacedAt(f, On(Solist)) /\ LinkingOf(f, info'[f.si])
      BY <2>1, <3>1 DEF Is, PlacedAt, LinkingOf
    <3> QED BY <1>0, <1>1, <1>2, <1>7, <2>1, <3>1, <3>2, WorkCalls
  <2> QED BY <2>1, <2>2, <2>3
<1>23. CASE CtorInit
  <2>1. /\ On(Solist)' = On(Solist) /\ ret' = ret /\ Top.fn = "constructors"
        /\ Moving("init", Top.si, 0, Top.name)
    BY <1>23, CtorInitStep, ListsSame
  <2>2. PICK f \in Frames : Sets(stack, stack', f) /\ Is(f, "init", Top.si, 0, Top.name)
    BY <2>1 DEF Moving
  <2>3. f.fn = "init" /\ PlacedAt(f, On(Solist)) /\ LinkingOf(f, info'[f.si])
    BY <2>2 DEF Is, PlacedAt, LinkingOf
  <2> QED BY <1>0, <1>1, <1>2, <1>3, <1>7, <2>1, <2>2, <2>3, WorkSets
<1>24. CASE InitReturns
  <2>1. /\ On(Solist)' = On(Solist) /\ ret' = ret /\ Top.fn = "init" /\ Pops(stack, stack')
    BY <1>24, InitReturnsStep, ListsSame
  <2> QED BY <1>0, <1>1, <1>2, <1>3, <1>7, <2>1, WorkPops
<1>25. CASE UnloadEnter
  <2>1. /\ On(Solist)' = On(Solist) /\ ret' = ret /\ Top.fn = "unload"
        /\ (Pops(stack, stack') \/ Calling(Top.si, 1, "fini", Top.si, Top.name))
    BY <1>25, UnloadEnterStep, ListsSame
  <2>2. CASE Pops(stack, stack')
    BY <1>0, <1>1, <1>2, <1>3, <1>7, <2>1, <2>2, WorkPops
  <2>3. CASE Calling(Top.si, 1, "fini", Top.si, Top.name)
    <3>1. PICK f \in Frames, g \in Frames :
            /\ Calls(stack, stack', f, g) /\ Is(f, Top.fn, Top.si, 1, Top.name)
            /\ Is(g, "fini", Top.si, 0, Top.name)
      BY <2>3 DEF Calling
    <3>2. /\ f.fn = "unload" /\ g.fn = "fini"
          /\ PlacedAt(f, On(Solist)) /\ LinkingOf(f, info'[f.si])
      BY <2>1, <3>1 DEF Is, PlacedAt, LinkingOf
    <3> QED BY <1>0, <1>1, <1>2, <1>7, <2>1, <3>1, <3>2, WorkCalls
  <2> QED BY <2>1, <2>2, <2>3
<1>26. CASE FiniReturns
  <2>1. /\ On(Solist)' = On(Solist) /\ ret' = ret /\ Top.fn = "fini" /\ Pops(stack, stack')
    BY <1>26, FiniReturnsStep, ListsSame
  <2> QED BY <1>0, <1>1, <1>2, <1>3, <1>7, <2>1, WorkPops
<1>27. CASE UnloadNeeded
  <2>1. /\ On(Solist)' = On(Solist) /\ ret' = ret /\ Top.fn = "unload"
        /\ \E s : \/ Calling(Top.si, Top.i + 1, "unload", s, Top.name)
                  \/ Moving("unload", Top.si, Top.i + 1, Top.name)
    BY <1>27, UnloadNeededStep, ListsSame
  <2>2. CASE Moving("unload", Top.si, Top.i + 1, Top.name)
    <3>1. PICK f \in Frames :
            Sets(stack, stack', f) /\ Is(f, "unload", Top.si, Top.i + 1, Top.name)
      BY <2>2 DEF Moving
    <3>2. f.fn = "unload" /\ PlacedAt(f, On(Solist)) /\ LinkingOf(f, info'[f.si])
      BY <3>1 DEF Is, PlacedAt, LinkingOf
    <3> QED BY <1>0, <1>1, <1>2, <1>3, <1>7, <2>1, <3>1, <3>2, WorkSets
  <2>3. ASSUME NEW s, Calling(Top.si, Top.i + 1, "unload", s, Top.name) PROVE WorkInv'
    <3>1. PICK f \in Frames, g \in Frames :
            /\ Calls(stack, stack', f, g) /\ Is(f, Top.fn, Top.si, Top.i + 1, Top.name)
            /\ Is(g, "unload", s, 0, Top.name)
      BY <2>3 DEF Calling
    <3>2. /\ f.fn = "unload" /\ g.fn = "unload"
          /\ PlacedAt(f, On(Solist)) /\ LinkingOf(f, info'[f.si])
      BY <2>1, <3>1 DEF Is, PlacedAt, LinkingOf
    <3> QED BY <1>0, <1>1, <1>2, <1>7, <2>1, <3>1, <3>2, WorkCalls
  <2> QED BY <2>1, <2>2, <2>3
<1>28. CASE UnloadFree
  <2>1. /\ On(Solist)' = On(Solist) \ {Top.si} /\ ret' = ret /\ Top.fn = "unload"
        /\ Pops(stack, stack')
    BY <1>28, UnloadFreeStep
  <2>2. Closing(stack) /\ ret = NOTHING
    <3>1. Shape(stack) /\ Len(stack) \in Nat \ {0} /\ Top = stack[Len(stack)]
      BY <1>1 DEF ShapeInv, Top
    <3> QED BY <2>1, <3>1, ShapeTop DEF ShapeInv, ReturnsTo
  <2>3. \A k \in 1 .. n - 1 : stack[k].fn \notin {"dlopen", "link_image"}
    BY <1>0, <1>1, <1>6, <2>1, <2>2, WorkBeneath DEF Starting, Closing
  <2> QED BY <1>0, <1>1, <2>1, <2>2, <2>3, WorkPops
<1> QED BY <1>10, <1>11, <1>12, <1>13, <1>14, <1>15, <1>16, <1>17, <1>18, <1>19, <1>20,
           <1>21, <1>22, <1>23, <1>24, <1>25, <1>26, <1>27, <1>28, InsideCases

(* Every step keeps each call where it should be.                          *)
LEMMA WorkStep ==
  ASSUME LibDLUnnamed, TypeInv, ShapeInv, WorkInv, [Next]_vars
  PROVE  WorkInv'
<1>1. CASE UNCHANGED vars
  <2>1. /\ stack' = stack /\ ret' = ret /\ info' = info /\ UNCHANGED lists
    BY <1>1 DEF vars, pool
  <2>2. On(Solist)' = On(Solist)
    BY <2>1, ListsSame
  <2>3. Placed'
    BY <2>1, <2>2 DEF WorkInv, Placed
  <2> QED BY <2>1, <2>3 DEF WorkInv, Loading, Linking, InFn, Top
<1>2. ASSUME ret' = ret, stack = << >>, stack' = << >> PROVE WorkInv'
  <2>1. ret' = NOTHING
    BY <1>2 DEF ShapeInv, ReturnsTo
  <2> QED BY <1>2, <2>1 DEF WorkInv, Placed, Loading, Linking, InFn
<1>3. ASSUME NEW n \in Opened, Dlopen(n) PROVE WorkInv'
  <2>1. /\ Len(stack') = 2 /\ ret' = ret /\ stack = << >>
        /\ Is(stack'[1], "dlopen", NULL, 0, n) /\ Is(stack'[2], "find_library", NULL, 0, n)
    BY <1>3, DlopenStep
  <2>2. ret' = NOTHING
    BY <2>1 DEF ShapeInv, ReturnsTo
  <2>3. \A k \in 1 .. 2 : k = 1 \/ k = 2
    OBVIOUS
  <2>4. Placed'
    BY <2>1, <2>2, <2>3 DEF Placed, PlacedAt, Is
  <2>5. Loading'
    BY <2>1 DEF Loading, InFn, Top, Is
  <2>6. Linking'
    BY <2>1, <2>3 DEF Linking, LinkingOf, Is
  <2> QED BY <2>4, <2>5, <2>6 DEF WorkInv
<1>4. ASSUME NEW s \in Slots, Dlclose(s) PROVE WorkInv'
  <2>1. /\ Len(stack') = 1 /\ ret' = ret /\ stack = << >>
        /\ Is(stack'[1], "unload", s, 0, info[s].name)
    BY <1>4, DlcloseStep
  <2>2. ret' = NOTHING
    BY <2>1 DEF ShapeInv, ReturnsTo
  <2>3. \A k \in 1 .. 1 : k = 1
    OBVIOUS
  <2>4. Placed'
    BY <2>1, <2>2, <2>3 DEF Placed, PlacedAt, Is
  <2>5. Loading'
    BY <2>1 DEF Loading, InFn, Top, Is
  <2>6. Linking'
    BY <2>1, <2>3 DEF Linking, LinkingOf, Is
  <2> QED BY <2>4, <2>5, <2>6 DEF WorkInv
<1>5. ASSUME NEW s \in Slots, LibraryDestroy(s) PROVE WorkInv'
  BY <1>2, <1>5, LibraryDestroyStep
<1>6. ASSUME NEW n \in Stubs, LibraryCreate(n) PROVE WorkInv'
  BY <1>2, <1>6, LibraryCreateStep
<1>7. CASE Inside
  BY <1>7, WorkInside
<1> QED BY <1>1, <1>3, <1>4, <1>5, <1>6, <1>7 DEF Next

-----------------------------------------------------------------------------
(* Who counts as using a library: the entries that record it as needed,    *)
(* and the unloads that drop it.                                           *)
Records(x, s) ==
  UNION { {d} \X { i \in DOMAIN x[d].deps : x[d].deps[i] = s } : d \in Slots }
Drops(t, s) == { k \in DOMAIN t : t[k].fn = "unload" /\ t[k].si = s }

(* BeingDropped is the set of unloads in progress of a library.            *)
LEMMA UsersAre ==
  ASSUME NEW s
  PROVE  /\ RecordedIn(s) = Records(info, s) /\ RecordedIn(s)' = Records(info', s)
         /\ BeingDropped(s) = Drops(stack, s) /\ BeingDropped(s)' = Drops(stack', s)
BY DEF RecordedIn, Records, BeingDropped, Drops

(* RecordedIn is the set of records of a library, and finite.              *)
LEMMA RecordsAre ==
  ASSUME NEW x \in [Slots -> Soinfos], NEW s
  PROVE  /\ \A d \in Slots : Len(x[d].deps) \in Nat /\ DOMAIN x[d].deps = 1 .. Len(x[d].deps)
         /\ \A p : p \in Records(x, s) <=>
              \E d \in Slots : \E i \in 1 .. Len(x[d].deps) :
                p = << d, i >> /\ x[d].deps[i] = s
         /\ IsFiniteSet(Records(x, s)) /\ Cardinality(Records(x, s)) \in Nat
<1>1. \A d \in Slots : x[d].deps \in Seq(PoolEntry \cup {NULL})
  BY DEF Soinfos
<1>2. \A d \in Slots : Len(x[d].deps) \in Nat /\ DOMAIN x[d].deps = 1 .. Len(x[d].deps)
  BY <1>1
<1> DEFINE Which(d) == { i \in DOMAIN x[d].deps : x[d].deps[i] = s }
           All == { {d} \X Which(d) : d \in Slots }
<1>3. ASSUME NEW d \in Slots PROVE IsFiniteSet({d} \X Which(d))
  <2>1. PICK n \in Nat : n = Len(x[d].deps)
    BY <1>2
  <2>2. IsFiniteSet(1 .. n)
    BY <2>1, FS_Interval
  <2>3. Which(d) \in SUBSET (1 .. n)
    BY <1>2, <2>1
  <2>4. IsFiniteSet(Which(d))
    BY <2>2, <2>3, FS_Subset
  <2>5. IsFiniteSet({d})
    BY FS_Singleton
  <2> HIDE DEF Which
  <2> QED BY <2>4, <2>5, FS_Product
<1>4. IsFiniteSet(Slots)
  <2>1. SO_MAX \in Nat
    BY LinkerAssumption
  <2> QED BY <2>1, FS_Interval DEF Slots
<1>5. IsFiniteSet(All)
  <2>1. PICK f : f = [d \in Slots |-> {d} \X Which(d)]
    OBVIOUS
  <2>2. f \in Surjection(Slots, All)
    <3>1. f \in [Slots -> All]
      BY <2>1
    <3>2. \A T \in All : \E d \in Slots : f[d] = T
      BY <2>1
    <3> HIDE DEF All
    <3> QED BY <3>1, <3>2 DEF Surjection
  <2> HIDE DEF All
  <2> QED BY <1>4, <2>2, FS_Surjection
<1>6. \A T \in All : IsFiniteSet(T)
  BY <1>3
<1>7. Records(x, s) = UNION All
  BY DEF Records
<1>8. IsFiniteSet(Records(x, s))
  <2> HIDE DEF All
  <2> QED BY <1>5, <1>6, <1>7, FS_UNION
<1>9. ASSUME NEW p
      PROVE  p \in Records(x, s) <=>
               \E d \in Slots : \E i \in 1 .. Len(x[d].deps) :
                 p = << d, i >> /\ x[d].deps[i] = s
  <2>1. p \in Records(x, s) <=> \E d \in Slots : p \in {d} \X Which(d)
    BY <1>7, ZenonT(60)
  <2>2. ASSUME NEW d \in Slots
        PROVE  p \in {d} \X Which(d) <=>
                 \E i \in 1 .. Len(x[d].deps) : p = << d, i >> /\ x[d].deps[i] = s
    BY <1>2
  <2> HIDE DEF Which
  <2> QED BY <2>1, <2>2
<1> QED BY <1>2, <1>8, <1>9, FS_CardinalityType

(* The entries that record s, when those of every soinfo stay or change.   *)
LEMMA RecordsSame ==
  ASSUME NEW x \in [Slots -> Soinfos], NEW y \in [Slots -> Soinfos], NEW s,
         \A d \in Slots :
           \/ y[d].deps = x[d].deps
           \/ /\ \A i \in 1 .. Len(x[d].deps) : x[d].deps[i] # s
              /\ \A i \in 1 .. Len(y[d].deps) : y[d].deps[i] # s
  PROVE  Records(y, s) = Records(x, s)
<1>1. /\ \A p : p \in Records(x, s) <=>
           \E d \in Slots : \E i \in 1 .. Len(x[d].deps) : p = << d, i >> /\ x[d].deps[i] = s
      /\ \A p : p \in Records(y, s) <=>
           \E d \in Slots : \E i \in 1 .. Len(y[d].deps) : p = << d, i >> /\ y[d].deps[i] = s
  BY RecordsAre
<1>2. ASSUME NEW p PROVE p \in Records(y, s) <=> p \in Records(x, s)
  <2>1. ASSUME NEW d \in Slots
        PROVE  (\E i \in 1 .. Len(x[d].deps) : p = << d, i >> /\ x[d].deps[i] = s)
               <=> (\E i \in 1 .. Len(y[d].deps) : p = << d, i >> /\ y[d].deps[i] = s)
    OBVIOUS
  <2> QED BY <1>1, <2>1
<1> QED BY <1>2

(* One more record is one more in its set.                                 *)
LEMMA RecordsAppend ==
  ASSUME NEW x \in [Slots -> Soinfos], NEW y \in [Slots -> Soinfos],
         NEW a \in Slots, NEW b \in PoolEntry,
         y[a].deps = Append(x[a].deps, b),
         \A d \in Slots : d # a => y[d].deps = x[d].deps
  PROVE  /\ Cardinality(Records(y, b)) = Cardinality(Records(x, b)) + 1
         /\ \A s \in Slots : s # b => Records(y, s) = Records(x, s)
<1>1. PICK n \in Nat : n = Len(x[a].deps)
  BY RecordsAre
<1>2. x[a].deps \in Seq(PoolEntry \cup {NULL})
  BY DEF Soinfos
<1>3. /\ Len(y[a].deps) = n + 1 /\ y[a].deps[n + 1] = b
      /\ \A i \in 1 .. n : y[a].deps[i] = x[a].deps[i]
  BY <1>1, <1>2
<1>4. \A s, p : p \in Records(x, s) <=>
        \E d \in Slots : \E i \in 1 .. Len(x[d].deps) : p = << d, i >> /\ x[d].deps[i] = s
  BY RecordsAre
<1>5. \A s, p : p \in Records(y, s) <=>
        \E d \in Slots : \E i \in 1 .. Len(y[d].deps) : p = << d, i >> /\ y[d].deps[i] = s
  BY RecordsAre
<1>6. ASSUME NEW s, NEW p
      PROVE  p \in Records(y, s) <=> p \in Records(x, s) \/ (s = b /\ p = << a, n + 1 >>)
  <2>1. (\E i \in 1 .. Len(y[a].deps) : p = << a, i >> /\ y[a].deps[i] = s)
        <=> \/ \E i \in 1 .. Len(x[a].deps) : p = << a, i >> /\ x[a].deps[i] = s
            \/ s = b /\ p = << a, n + 1 >>
    <3>1. \A i \in 1 .. n + 1 : i = n + 1 \/ i \in 1 .. n
      OBVIOUS
    <3>2. n + 1 \in 1 .. n + 1 /\ \A i \in 1 .. n : i \in 1 .. n + 1
      OBVIOUS
    <3> QED BY <1>1, <1>3, <3>1, <3>2
  <2>2. \A d \in Slots : d # a =>
          ((\E i \in 1 .. Len(y[d].deps) : p = << d, i >> /\ y[d].deps[i] = s)
            <=> (\E i \in 1 .. Len(x[d].deps) : p = << d, i >> /\ x[d].deps[i] = s))
    OBVIOUS
  <2>3. p \in Records(x, s) <=>
          \E d \in Slots : \E i \in 1 .. Len(x[d].deps) : p = << d, i >> /\ x[d].deps[i] = s
    BY <1>4
  <2>4. p \in Records(y, s) <=>
          \E d \in Slots : \E i \in 1 .. Len(y[d].deps) : p = << d, i >> /\ y[d].deps[i] = s
    BY <1>5
  <2>5. p = << a, n + 1 >> => ~(\E d \in Slots : d # a /\ \E i \in 1 .. Len(x[d].deps) :
                                                             p = << d, i >>)
    OBVIOUS
  <2> QED BY <2>1, <2>2, <2>3, <2>4, <2>5
<1>7. Records(y, b) = Records(x, b) \cup {<< a, n + 1 >>}
  BY <1>6
<1>8. << a, n + 1 >> \notin Records(x, b)
  <2>1. SUFFICES ASSUME NEW d \in Slots, NEW i \in 1 .. Len(x[d].deps),
                        << a, n + 1 >> = << d, i >>
                 PROVE  FALSE
    BY <1>4
  <2>2. d = a /\ i = n + 1 /\ i \in 1 .. n
    BY <1>1, <2>1
  <2> QED BY <2>2
<1>9. Cardinality(Records(y, b)) = Cardinality(Records(x, b)) + 1
  BY ZenonT(30), <1>7, <1>8, RecordsAre, FS_AddElement
<1>10. ASSUME NEW s \in Slots, s # b PROVE Records(y, s) = Records(x, s)
  <2>1. \A p : p \in Records(y, s) <=> p \in Records(x, s)
    BY <1>6, <1>10
  <2> QED BY <2>1
<1> QED BY <1>9, <1>10

(* One record less is one less in its set.                                 *)
LEMMA RecordsDropped ==
  ASSUME NEW x \in [Slots -> Soinfos], NEW y \in [Slots -> Soinfos],
         NEW a \in Slots, NEW i \in 1 .. Len(x[a].deps),
         y[a].deps = [x[a].deps EXCEPT ![i] = NULL],
         \A d \in Slots : d # a => y[d].deps = x[d].deps
  PROVE  /\ \A s \in Slots : s # x[a].deps[i] => Records(y, s) = Records(x, s)
         /\ x[a].deps[i] # NULL =>
              Cardinality(Records(y, x[a].deps[i])) = Cardinality(Records(x, x[a].deps[i])) - 1
<1>1. PICK n \in Nat : n = Len(x[a].deps)
  BY RecordsAre
<1>2. x[a].deps \in Seq(PoolEntry \cup {NULL})
  BY DEF Soinfos
<1>3. PICK b : b = x[a].deps[i]
  OBVIOUS
<1>4. /\ Len(y[a].deps) = n /\ y[a].deps[i] = NULL
      /\ \A j \in 1 .. n : j # i => y[a].deps[j] = x[a].deps[j]
  BY <1>1, <1>2
<1>5. \A s, p : p \in Records(x, s) <=>
        \E d \in Slots : \E j \in 1 .. Len(x[d].deps) : p = << d, j >> /\ x[d].deps[j] = s
  BY RecordsAre
<1>6. \A s, p : p \in Records(y, s) <=>
        \E d \in Slots : \E j \in 1 .. Len(y[d].deps) : p = << d, j >> /\ y[d].deps[j] = s
  BY RecordsAre
<1>7. ASSUME NEW s, s # NULL, NEW p
      PROVE  p \in Records(y, s) <=> p \in Records(x, s) /\ ~(s = b /\ p = << a, i >>)
  <2>1. (\E j \in 1 .. Len(y[a].deps) : p = << a, j >> /\ y[a].deps[j] = s)
        <=> /\ \E j \in 1 .. Len(x[a].deps) : p = << a, j >> /\ x[a].deps[j] = s
            /\ ~(s = b /\ p = << a, i >>)
    BY <1>1, <1>3, <1>4, <1>7
  <2>2. \A d \in Slots : d # a =>
          ((\E j \in 1 .. Len(y[d].deps) : p = << d, j >> /\ y[d].deps[j] = s)
            <=> (/\ \E j \in 1 .. Len(x[d].deps) : p = << d, j >> /\ x[d].deps[j] = s
                 /\ ~(s = b /\ p = << a, i >>)))
    OBVIOUS
  <2>3. p \in Records(x, s) <=>
          \E d \in Slots : \E j \in 1 .. Len(x[d].deps) : p = << d, j >> /\ x[d].deps[j] = s
    BY <1>5
  <2>4. p \in Records(y, s) <=>
          \E d \in Slots : \E j \in 1 .. Len(y[d].deps) : p = << d, j >> /\ y[d].deps[j] = s
    BY <1>6
  <2> QED BY <2>1, <2>2, <2>3, <2>4
<1>8. \A s \in Slots : s # NULL
  BY PoolEntries
<1>9. ASSUME NEW s \in Slots, s # b PROVE Records(y, s) = Records(x, s)
  <2>1. \A p : p \in Records(y, s) <=> p \in Records(x, s)
    BY <1>7, <1>8, <1>9
  <2> QED BY <2>1
<1>10. ASSUME b # NULL PROVE Cardinality(Records(y, b)) = Cardinality(Records(x, b)) - 1
  <2>1. << a, i >> \in Records(x, b)
    BY <1>3, <1>5
  <2>2. Records(y, b) = Records(x, b) \ {<< a, i >>}
    BY <1>7, <1>10
  <2>3. IsFiniteSet(Records(x, b))
    BY RecordsAre
  <2> QED BY ZenonT(30), <2>1, <2>2, <2>3, FS_RemoveElement
<1> QED BY <1>3, <1>9, <1>10

(* The unloads that drop s, when a call returns, moves on or calls.        *)
LEMMA DropsAre ==
  ASSUME NEW t, Len(t) \in Nat, DOMAIN t = 1 .. Len(t), NEW s
  PROVE  /\ Drops(t, s) = { k \in 1 .. Len(t) : t[k].fn = "unload" /\ t[k].si = s }
         /\ IsFiniteSet(Drops(t, s)) /\ Cardinality(Drops(t, s)) \in Nat
<1>1. IsFiniteSet(1 .. Len(t))
  BY FS_Interval
<1>2. Drops(t, s) \in SUBSET (1 .. Len(t))
  BY DEF Drops
<1>3. IsFiniteSet(Drops(t, s))
  BY <1>1, <1>2, FS_Subset
<1> QED BY <1>3, FS_CardinalityType DEF Drops

(* A return ends the use of the innermost call, if it had one.             *)
LEMMA DropsPop ==
  ASSUME NEW S, NEW t \in Seq(S), NEW u \in Seq(S), t # << >>, Pops(t, u), NEW s
  PROVE  /\ t[Len(t)].fn = "unload" /\ t[Len(t)].si = s =>
              Cardinality(Drops(u, s)) = Cardinality(Drops(t, s)) - 1
         /\ ~(t[Len(t)].fn = "unload" /\ t[Len(t)].si = s) => Drops(u, s) = Drops(t, s)
<1>1. PICK n \in Nat \ {0} : n = Len(t)
  OBVIOUS
<1>2. /\ DOMAIN t = 1 .. n /\ DOMAIN u = 1 .. n - 1 /\ Len(u) = n - 1
      /\ \A k \in 1 .. n - 1 : u[k] = t[k]
  BY <1>1 DEF Pops
<1>3. /\ \A k \in 1 .. n : k = n \/ k \in 1 .. n - 1
      /\ \A k \in 1 .. n - 1 : k \in 1 .. n /\ k # n
      /\ n \in 1 .. n
  OBVIOUS
<1>4. Drops(u, s) = Drops(t, s) \ {n}
  BY <1>2, <1>3 DEF Drops
<1>5. n \in Drops(t, s) <=> t[n].fn = "unload" /\ t[n].si = s
  BY <1>2, <1>3 DEF Drops
<1>6. IsFiniteSet(Drops(t, s))
  BY <1>1, <1>2, DropsAre
<1>7. CASE t[n].fn = "unload" /\ t[n].si = s
  <2>1. PICK D : D = Drops(t, s)
    OBVIOUS
  <2>2. Cardinality(D \ {n}) = Cardinality(D) - 1
    BY <1>5, <1>6, <1>7, <2>1, FS_RemoveElement
  <2> QED BY <1>1, <1>4, <1>7, <2>1, <2>2
<1>8. CASE ~(t[n].fn = "unload" /\ t[n].si = s)
  <2>1. n \notin Drops(t, s)
    BY <1>5, <1>8
  <2> QED BY <1>1, <1>4, <1>8, <2>1
<1> QED BY <1>7, <1>8

(* A call that goes on with its soinfo keeps its use.                      *)
LEMMA DropsSet ==
  ASSUME NEW S, NEW t \in Seq(S), NEW u \in Seq(S), t # << >>, NEW f, Sets(t, u, f), NEW s,
         f.fn = t[Len(t)].fn, f.si = t[Len(t)].si
  PROVE  Drops(u, s) = Drops(t, s)
<1>1. PICK n \in Nat \ {0} : n = Len(t)
  OBVIOUS
<1>2. /\ DOMAIN t = 1 .. n /\ DOMAIN u = 1 .. n /\ u[n] = f
      /\ \A k \in 1 .. n - 1 : u[k] = t[k]
  BY <1>1 DEF Sets
<1>3. \A k \in 1 .. n : k = n \/ k \in 1 .. n - 1
  OBVIOUS
<1>4. \A k \in 1 .. n : u[k].fn = t[k].fn /\ u[k].si = t[k].si
  BY <1>1, <1>2, <1>3
<1> QED BY <1>2, <1>4 DEF Drops

(* A call of unload_library takes over one use.                            *)
LEMMA DropsCall ==
  ASSUME NEW S, NEW t \in Seq(S), NEW u \in Seq(S), t # << >>, NEW f, NEW g,
         Calls(t, u, f, g), NEW s, f.fn = t[Len(t)].fn, f.si = t[Len(t)].si
  PROVE  /\ g.fn = "unload" /\ g.si = s =>
              Cardinality(Drops(u, s)) = Cardinality(Drops(t, s)) + 1
         /\ ~(g.fn = "unload" /\ g.si = s) => Drops(u, s) = Drops(t, s)
<1>1. PICK n \in Nat \ {0} : n = Len(t)
  OBVIOUS
<1>2. /\ DOMAIN t = 1 .. n /\ DOMAIN u = 1 .. n + 1 /\ u[n] = f /\ u[n + 1] = g
      /\ \A k \in 1 .. n - 1 : u[k] = t[k]
  BY <1>1 DEF Calls
<1>3. /\ \A k \in 1 .. n : k = n \/ k \in 1 .. n - 1
      /\ \A k \in 1 .. n + 1 : k = n + 1 \/ k \in 1 .. n
      /\ \A k \in 1 .. n : k \in 1 .. n + 1 /\ k # n + 1
      /\ n + 1 \in 1 .. n + 1 /\ n + 1 \notin 1 .. n
  OBVIOUS
<1>4. \A k \in 1 .. n : u[k].fn = t[k].fn /\ u[k].si = t[k].si
  BY <1>1, <1>2, <1>3
<1>5. \A k : k \in Drops(u, s) <=>
        k \in Drops(t, s) \/ (k = n + 1 /\ g.fn = "unload" /\ g.si = s)
  BY <1>2, <1>3, <1>4 DEF Drops
<1>6. n + 1 \notin Drops(t, s)
  BY <1>2, <1>3 DEF Drops
<1>7. IsFiniteSet(Drops(t, s))
  BY <1>1, <1>2, DropsAre
<1>8. CASE g.fn = "unload" /\ g.si = s
  <2>1. Drops(u, s) = Drops(t, s) \cup {n + 1}
    BY <1>5, <1>8
  <2> QED BY ZenonT(30), <1>6, <1>7, <1>8, <2>1, FS_AddElement
<1>9. CASE ~(g.fn = "unload" /\ g.si = s)
  BY <1>5, <1>9
<1> QED BY <1>8, <1>9

-----------------------------------------------------------------------------
(* Why the reference counts are exact.  What has no image needs nothing;   *)
(* what is on no list is used by nobody; an unload past its destructors is *)
(* the only user left, and has dropped the entries it is past.             *)
Nothing(x) == x.refcount = 0 /\ \A i \in 1 .. Len(x.deps) : x.deps[i] = NULL
NoneEmpty == \A s \in Slots : info[s].image = "none" => info[s].deps = << >>
OffList == \A s \in Slots : s \notin On(Solist) => Nothing(info[s])
Alone(f, x) ==
  f.fn = "unload" /\ f.i > 0 =>
    /\ x.refcount = 1
    /\ \A j \in 1 .. Len(x.deps) : j < f.i => x.deps[j] = NULL
UnloadsAlone == \A k \in 1 .. Len(stack) : Alone(stack[k], info[stack[k].si])
UseInv == NoneEmpty /\ OffList /\ UnloadsAlone /\ RefcountExact

NoUnload(t) == \A k \in 1 .. Len(t) : t[k].fn # "unload"

(* Alone looks at the count and the records, no further.                   *)
LEMMA AloneKept ==
  ASSUME NEW f, NEW x, NEW y, y.refcount = x.refcount, y.deps = x.deps, Alone(f, x)
  PROVE  Alone(f, y)
BY DEF Alone

(* While nothing is unloaded, nothing is being dropped.                    *)
LEMMA OpeningQuiet ==
  ASSUME TypeInv, ShapeInv, stack # << >>, Top.fn \notin {"unload", "fini"}
  PROVE  /\ NoUnload(stack)
         /\ Pops(stack, stack') => NoUnload(stack')
         /\ \A fn, si, i, m : Moving(fn, si, i, m) /\ fn # "unload" => NoUnload(stack')
         /\ \A si, i, fn, s, m :
              Calling(si, i, fn, s, m) /\ fn # "unload" => NoUnload(stack')
<1>1. PICK n \in Nat \ {0} : n = Len(stack)
  BY StackLength
<1>2. Shape(stack) /\ Top = stack[n] /\ \A k \in 1 .. n : k = n \/ k \in 1 .. n - 1
  BY <1>1 DEF ShapeInv, Top
<1>3. Building(stack) \/ Starting(stack)
  <2>1. Top \in Frames
    BY <1>1, StackLength DEF Top
  <2>2. Top.fn \in Finding \cup Holding \cup {"dlopen"}
    BY <2>1, FrameFields
  <2>3. Top.fn \in Finding \cup {"link_image"} \/ Top.fn = "dlopen"
          \/ Top.fn \in {"constructors", "init"}
    BY <2>2 DEF Holding
  <2>4. Len(stack) \in Nat \ {0} /\ Top = stack[Len(stack)]
    BY <1>1, <1>2
  <2> QED BY <1>2, <2>3, <2>4, ShapeTop
<1>4. \A k \in 1 .. n : stack[k].fn # "unload"
  <2>1. stack[1].fn = "dlopen" /\ \A k \in 2 .. n : stack[k].fn # "unload"
    BY <1>1, <1>3 DEF Building, Starting, Finding
  <2>2. \A k \in 1 .. n : k = 1 \/ k \in 2 .. n
    OBVIOUS
  <2> QED BY <2>1, <2>2
<1>5. NoUnload(stack)
  BY <1>1, <1>4 DEF NoUnload
<1>6. ASSUME Pops(stack, stack') PROVE NoUnload(stack')
  BY <1>1, <1>4, <1>6 DEF Pops, NoUnload
<1>7. ASSUME NEW fn, NEW si, NEW i, NEW m, Moving(fn, si, i, m), fn # "unload"
      PROVE  NoUnload(stack')
  <2>1. PICK f \in Frames : Sets(stack, stack', f) /\ Is(f, fn, si, i, m)
    BY <1>7 DEF Moving
  <2>2. Len(stack') = n /\ stack'[n] = f /\ \A k \in 1 .. n - 1 : stack'[k] = stack[k]
    BY <1>1, <2>1 DEF Sets
  <2>3. f.fn # "unload"
    BY <1>7, <2>1 DEF Is
  <2> QED BY <1>2, <1>4, <2>2, <2>3 DEF NoUnload
<1>8. ASSUME NEW si, NEW i, NEW fn, NEW s, NEW m, Calling(si, i, fn, s, m), fn # "unload"
      PROVE  NoUnload(stack')
  <2>1. PICK f \in Frames, g \in Frames :
          Calls(stack, stack', f, g) /\ Is(f, Top.fn, si, i, Top.name) /\ Is(g, fn, s, 0, m)
    BY <1>8 DEF Calling
  <2>2. /\ Len(stack') = n + 1 /\ stack'[n] = f /\ stack'[n + 1] = g
        /\ \A k \in 1 .. n - 1 : stack'[k] = stack[k]
    BY <1>1, <2>1 DEF Calls
  <2>3. f.fn # "unload" /\ g.fn # "unload"
    BY <1>8, <2>1 DEF Is
  <2>4. \A k \in 1 .. n + 1 : k = n + 1 \/ k = n \/ k \in 1 .. n - 1
    OBVIOUS
  <2>5. \A k \in 1 .. n - 1 : stack[k].fn # "unload"
    BY <1>4
  <2> QED BY <2>2, <2>3, <2>4, <2>5 DEF NoUnload
<1> QED BY <1>5, <1>6, <1>7, <1>8

(* A stack without an unload has taken over nothing.                       *)
LEMMA QuietDrops ==
  ASSUME NEW t, Len(t) \in Nat, DOMAIN t = 1 .. Len(t), NoUnload(t), NEW s
  PROVE  Drops(t, s) = {}
BY DEF Drops, NoUnload

(* The numbers behind an exact reference count.                            *)
LEMMA CountsAre ==
  ASSUME TypeInv, NEW s \in Slots
  PROVE  /\ info[s].refcount \in Int /\ handles[s] \in Nat
         /\ Cardinality(Records(info, s)) \in Nat /\ Cardinality(Drops(stack, s)) \in Nat
         /\ RefcountExact => info[s].refcount = handles[s] + Cardinality(Records(info, s))
                                                 + Cardinality(Drops(stack, s))
<1>1. info \in [Slots -> Soinfos] /\ handles[s] \in Nat
  BY DEF TypeInv, LinkerTypes
<1>2. info[s].refcount \in Int
  BY InfoFields DEF TypeInv
<1>3. Len(stack) \in Nat /\ DOMAIN stack = 1 .. Len(stack)
  BY DEF TypeInv, LinkerTypes
<1>4. RefcountExact => info[s].refcount = handles[s] + Cardinality(Records(info, s))
                                              + Cardinality(Drops(stack, s))
  BY UsersAre DEF RefcountExact
<1> QED BY <1>1, <1>2, <1>3, <1>4, RecordsAre, DropsAre

(* The counts are exact after a step when the three parts add up.          *)
LEMMA ExactNext ==
  ASSUME TypeInv',
         \A s \in Slots : info'[s].refcount = handles'[s] + Cardinality(Records(info', s))
                                                + Cardinality(Drops(stack', s))
  PROVE  RefcountExact'
<1>1. \A s : /\ Cardinality(RecordedIn(s)') = Cardinality(Records(info', s))
             /\ Cardinality(BeingDropped(s)') = Cardinality(Drops(stack', s))
  BY UsersAre
<1> QED BY <1>1 DEF RefcountExact

(* The records are the same when no list of records changed.               *)
LEMMA SameRecords ==
  ASSUME TypeInv, TypeInv', SameDeps, NEW s
  PROVE  Records(info', s) = Records(info, s)
BY RecordsSame DEF TypeInv, LinkerTypes, SameDeps

(* A step that gives nobody a use, and takes none.                         *)
LEMMA UsesKept ==
  ASSUME TypeInv, TypeInv', UseInv, NoUnload(stack), NoUnload(stack'),
         SameCount, SameDeps, handles' = handles, NEW on, on = On(Solist)',
         \A s \in Slots : s \in On(Solist) /\ s \notin on => Nothing(info[s]),
         \A s \in Slots : info'[s].image = "none" => info[s].image = "none"
  PROVE  UseInv'
<1>1. DOMAIN stack = 1 .. Len(stack) /\ Len(stack) \in Nat
      /\ DOMAIN stack' = 1 .. Len(stack') /\ Len(stack') \in Nat
  BY DEF TypeInv, LinkerTypes
<1>2. \A s \in Slots : Drops(stack, s) = Drops(stack', s)
  BY <1>1, QuietDrops
<1>3. RefcountExact'
  BY <1>2, SameRecords, CountsAre, ExactNext DEF UseInv, SameCount
<1>4. NoneEmpty'
  BY DEF UseInv, NoneEmpty, SameDeps
<1>5. OffList'
  <2>1. ASSUME NEW s \in Slots, s \notin on PROVE Nothing(info'[s])
    BY <2>1 DEF UseInv, OffList, Nothing, SameCount, SameDeps
  <2> QED BY <2>1 DEF OffList
<1>6. UnloadsAlone'
  BY DEF NoUnload, UnloadsAlone, Alone
<1> QED BY <1>3, <1>4, <1>5, <1>6 DEF UseInv

(* alloc_info: nobody uses the new soinfo.                                 *)
LEMMA UsesNew ==
  ASSUME TypeInv, TypeInv', UseInv, NoUnload(stack), NoUnload(stack'), handles' = handles,
         NEW a \in PoolEntry, a \notin On(Solist), On(Solist)' = On(Solist) \cup {a},
         Only(a), info'[a].refcount = 0, info'[a].deps = << >>
  PROVE  UseInv'
<1>1. DOMAIN stack = 1 .. Len(stack) /\ Len(stack) \in Nat
      /\ DOMAIN stack' = 1 .. Len(stack') /\ Len(stack') \in Nat
  BY DEF TypeInv, LinkerTypes
<1>2. \A s \in Slots : Drops(stack, s) = Drops(stack', s)
  BY <1>1, QuietDrops
<1>3. a \in Slots /\ NULL \notin Slots
  BY PoolEntries
<1>4. Nothing(info[a])
  BY <1>3 DEF UseInv, OffList
<1>5. \A s \in Slots : info'[s].refcount = info[s].refcount
  BY <1>4 DEF Only, Nothing
<1>6. \A s \in Slots : Records(info', s) = Records(info, s)
  <2>1. info \in [Slots -> Soinfos] /\ info' \in [Slots -> Soinfos]
    BY DEF TypeInv, LinkerTypes
  <2>2. Len(info'[a].deps) = 0
    OBVIOUS
  <2>3. ASSUME NEW s \in Slots, NEW d \in Slots
        PROVE  \/ info'[d].deps = info[d].deps
               \/ /\ \A i \in 1 .. Len(info[d].deps) : info[d].deps[i] # s
                  /\ \A i \in 1 .. Len(info'[d].deps) : info'[d].deps[i] # s
    BY <1>3, <1>4, <2>2 DEF Only, Nothing
  <2> QED BY <2>1, <2>3, RecordsSame
<1>7. RefcountExact'
  BY <1>2, <1>5, <1>6, CountsAre, ExactNext DEF UseInv
<1>8. NoneEmpty'
  BY DEF UseInv, NoneEmpty, Only
<1>9. OffList'
  <2>1. PICK on : on = On(Solist)'
    OBVIOUS
  <2>2. ASSUME NEW s \in Slots, s \notin on PROVE Nothing(info'[s])
    BY <2>1, <2>2 DEF UseInv, OffList, Only
  <2> QED BY <2>1, <2>2 DEF OffList
<1>10. UnloadsAlone'
  BY DEF NoUnload, UnloadsAlone, Alone
<1> QED BY <1>7, <1>8, <1>9, <1>10 DEF UseInv

(* A DT_NEEDED entry is recorded: one more use.                            *)
LEMMA UsesLinkNeeded ==
  ASSUME TypeInv, TypeInv', ShapeInv, WorkInv, UseInv, LinkNeeded, ret # NULL
  PROVE  UseInv'
<1>1. /\ On(Solist)' = On(Solist) /\ handles' = handles /\ Top.fn = "link_image"
      /\ stack # << >> /\ Top.si \in PoolEntry /\ ret \in PoolEntry
      /\ Moving("link_image", Top.si, Top.i + 1, Top.name)
  BY LinkNeededStep, ListsSame
<1>2. NoUnload(stack) /\ NoUnload(stack')
  BY <1>1, OpeningQuiet
<1>3. DOMAIN stack = 1 .. Len(stack) /\ Len(stack) \in Nat
      /\ DOMAIN stack' = 1 .. Len(stack') /\ Len(stack') \in Nat
  BY DEF TypeInv, LinkerTypes
<1>4. \A s \in Slots : Drops(stack, s) = Drops(stack', s)
  BY SMTT(20), <1>2, <1>3, QuietDrops
<1>5. PICK a \in Slots, b \in PoolEntry : a = Top.si /\ b = ret
  BY <1>1, PoolEntries
<1>6. /\ SameImage /\ info'[a].deps = Append(info[a].deps, b)
      /\ \A s \in Slots : s # a => info'[s].deps = info[s].deps
      /\ info'[b].refcount = info[b].refcount + 1
      /\ \A s \in Slots : s # b => info'[s].refcount = info[s].refcount
  BY <1>5, LinkNeededFields
<1>7. /\ a \in On(Solist) /\ b \in On(Solist) /\ info[a].image = "mapped" /\ b \in Slots
  <2>1. PICK n \in Nat \ {0} : n = Len(stack)
    BY <1>1, StackLength
  <2>2. n \in 1 .. n /\ stack[n] = Top
    BY <2>1 DEF Top
  <2>3. b \notin {NOTHING, NULL} /\ a # NULL /\ b \in Slots
    BY PoolEntries
  <2> QED BY <1>1, <1>5, <2>1, <2>2, <2>3
     DEF WorkInv, Placed, PlacedAt, Linking, LinkingOf
<1>8. RefcountExact'
  <2>1. info \in [Slots -> Soinfos] /\ info' \in [Slots -> Soinfos]
    BY DEF TypeInv, LinkerTypes
  <2>2. /\ Cardinality(Records(info', b)) = Cardinality(Records(info, b)) + 1
        /\ \A s \in Slots : s # b => Records(info', s) = Records(info, s)
    BY <1>6, <2>1, RecordsAppend
  <2>3. ASSUME NEW s \in Slots
        PROVE  info'[s].refcount = handles'[s] + Cardinality(Records(info', s))
                                                + Cardinality(Drops(stack', s))
    <3>1. PICK c \in Int, h \in Nat, r \in Nat, d \in Nat :
            /\ c = info[s].refcount /\ h = handles[s] /\ r = Cardinality(Records(info, s))
            /\ d = Cardinality(Drops(stack, s)) /\ c = h + r + d
      BY CountsAre DEF UseInv
    <3>2. CASE s = b
      <4>1. info'[s].refcount = c + 1 /\ Cardinality(Records(info', s)) = r + 1
        BY <1>6, <2>2, <3>1, <3>2
      <4> QED BY SMTT(40), <1>1, <1>4, <3>1, <4>1
    <3>3. CASE s # b
      BY <1>1, <1>4, <1>6, <2>2, <3>1, <3>3
    <3> QED BY <3>2, <3>3
  <2> QED BY <2>3, ExactNext
<1>9. NoneEmpty'
  BY <1>6, <1>7 DEF UseInv, NoneEmpty, SameImage
<1>10. OffList'
  <2>1. ASSUME NEW s \in Slots, s \notin On(Solist) PROVE Nothing(info'[s])
    <3>1. s # a /\ s # b /\ Nothing(info[s])
      BY <1>7, <2>1 DEF UseInv, OffList
    <3> QED BY <1>6, <3>1 DEF Nothing
  <2> QED BY <1>1, <2>1 DEF OffList
<1>11. UnloadsAlone'
  BY <1>2 DEF NoUnload, UnloadsAlone, Alone
<1> QED BY <1>8, <1>9, <1>10, <1>11 DEF UseInv

(* A handle is given out: one more use.                                    *)
LEMMA UsesDlopenReturn ==
  ASSUME TypeInv, TypeInv', ShapeInv, WorkInv, UseInv, DlopenReturn
  PROVE  UseInv'
<1>1. /\ On(Solist)' = On(Solist) /\ Top.fn = "dlopen"
      /\ handles' = [handles EXCEPT ![Top.si] = @ + 1]
      /\ stack # << >> /\ Top.si \in PoolEntry /\ Pops(stack, stack')
  BY DlopenReturnStep, ListsSame
<1>2. NoUnload(stack) /\ NoUnload(stack')
  BY <1>1, OpeningQuiet
<1>3. DOMAIN stack = 1 .. Len(stack) /\ Len(stack) \in Nat
      /\ DOMAIN stack' = 1 .. Len(stack') /\ Len(stack') \in Nat
  BY DEF TypeInv, LinkerTypes
<1>4. \A s \in Slots : Drops(stack, s) = Drops(stack', s)
  BY <1>2, <1>3, QuietDrops
<1>5. PICK a \in Slots : a = Top.si
  BY <1>1, PoolEntries
<1>6. /\ SameImage /\ SameDeps /\ info'[a].refcount = info[a].refcount + 1
      /\ \A s \in Slots : s # a => info'[s].refcount = info[s].refcount
  BY <1>5, DlopenReturnFields
<1>7. a \in On(Solist)
  <2>1. PICK n \in Nat \ {0} : n = Len(stack)
    BY <1>1, StackLength
  <2>2. n \in 1 .. n /\ stack[n] = Top
    BY <2>1 DEF Top
  <2>3. a # NULL
    BY PoolEntries
  <2> QED BY <1>1, <1>5, <2>1, <2>2, <2>3 DEF WorkInv, Placed, PlacedAt
<1>8. \A s \in Slots : handles'[s] = IF s = a THEN handles[s] + 1 ELSE handles[s]
  BY <1>1, <1>5 DEF TypeInv, LinkerTypes
<1>9. RefcountExact'
  <2>1. ASSUME NEW s \in Slots
        PROVE  info'[s].refcount = handles'[s] + Cardinality(Records(info', s))
                                                + Cardinality(Drops(stack', s))
    <3>1. PICK c \in Int, h \in Nat, r \in Nat, d \in Nat :
            /\ c = info[s].refcount /\ h = handles[s] /\ r = Cardinality(Records(info, s))
            /\ d = Cardinality(Drops(stack, s)) /\ c = h + r + d
      BY CountsAre DEF UseInv
    <3>2. Records(info', s) = Records(info, s)
      BY <1>6, SameRecords
    <3>3. CASE s = a
      <4>1. info'[s].refcount = c + 1 /\ handles'[s] = h + 1
        BY <1>6, <1>8, <3>1, <3>3
      <4> QED BY <1>4, <3>1, <3>2, <4>1
    <3>4. CASE s # a
      BY <1>4, <1>6, <1>8, <3>1, <3>2, <3>4
    <3> QED BY <3>3, <3>4
  <2> QED BY <2>1, ExactNext
<1>10. NoneEmpty'
  BY <1>6 DEF UseInv, NoneEmpty, SameImage, SameDeps
<1>11. OffList'
  <2>1. ASSUME NEW s \in Slots, s \notin On(Solist) PROVE Nothing(info'[s])
    <3>1. s # a /\ Nothing(info[s])
      BY <1>7, <2>1 DEF UseInv, OffList
    <3> QED BY <1>6, <3>1 DEF Nothing, SameDeps
  <2> QED BY <1>1, <2>1 DEF OffList
<1>12. UnloadsAlone'
  BY <1>2 DEF NoUnload, UnloadsAlone, Alone
<1> QED BY <1>9, <1>10, <1>11, <1>12 DEF UseInv

(* The unloads in progress after a return, a step and a call.              *)
LEMMA UnloadsNext ==
  ASSUME TypeInv, stack # << >>
  PROVE  /\ Pops(stack, stack')
              /\ (\A k \in 1 .. Len(stack) - 1 : Alone(stack[k], info'[stack[k].si]))
              => UnloadsAlone'
         /\ \A f : /\ Sets(stack, stack', f) /\ Alone(f, info'[f.si])
                   /\ \A k \in 1 .. Len(stack) - 1 : Alone(stack[k], info'[stack[k].si])
                   => UnloadsAlone'
         /\ \A f, g : /\ Calls(stack, stack', f, g) /\ Alone(f, info'[f.si])
                      /\ (g.fn = "unload" => g.i = 0)
                      /\ \A k \in 1 .. Len(stack) - 1 : Alone(stack[k], info'[stack[k].si])
                      => UnloadsAlone'
<1>1. PICK n \in Nat \ {0} : n = Len(stack)
  BY StackLength
<1>2. /\ \A k \in 1 .. n : k = n \/ k \in 1 .. n - 1
      /\ \A k \in 1 .. n + 1 : k = n + 1 \/ k = n \/ k \in 1 .. n - 1
  OBVIOUS
<1>3. ASSUME Pops(stack, stack'),
             \A k \in 1 .. n - 1 : Alone(stack[k], info'[stack[k].si])
      PROVE  UnloadsAlone'
  BY <1>1, <1>3 DEF Pops, UnloadsAlone
<1>4. ASSUME NEW f, Sets(stack, stack', f), Alone(f, info'[f.si]),
             \A k \in 1 .. n - 1 : Alone(stack[k], info'[stack[k].si])
      PROVE  UnloadsAlone'
  BY <1>1, <1>2, <1>4 DEF Sets, UnloadsAlone
<1>5. ASSUME NEW f, NEW g, Calls(stack, stack', f, g), Alone(f, info'[f.si]),
             g.fn = "unload" => g.i = 0,
             \A k \in 1 .. n - 1 : Alone(stack[k], info'[stack[k].si])
      PROVE  UnloadsAlone'
  <2>1. Alone(g, info'[g.si])
    BY <1>5 DEF Alone
  <2> QED BY <1>1, <1>2, <1>5, <2>1 DEF Calls, UnloadsAlone
<1> QED BY <1>1, <1>3, <1>4, <1>5

(* What UseInv says of the innermost call and of those beneath it.         *)
LEMMA UnloadTop ==
  ASSUME TypeInv, UseInv, stack # << >>
  PROVE  /\ Alone(Top, info[Top.si]) /\ Top = stack[Len(stack)]
         /\ \A k \in 1 .. Len(stack) - 1 : Alone(stack[k], info[stack[k].si])
         /\ stack \in Seq(Frames)
<1>1. PICK n \in Nat \ {0} : n = Len(stack)
  BY StackLength
<1>2. n \in 1 .. n /\ \A k \in 1 .. n - 1 : k \in 1 .. n
  OBVIOUS
<1> QED BY <1>1, <1>2 DEF UseInv, UnloadsAlone, Top, TypeInv, LinkerTypes

(* dlclose takes over the use of the handle.                               *)
LEMMA UsesDlclose ==
  ASSUME TypeInv, TypeInv', UseInv, NEW e \in Slots, Dlclose(e)
  PROVE  UseInv'
<1>1. /\ On(Solist)' = On(Solist) /\ info' = info /\ stack = << >> /\ handles[e] > 0
      /\ handles' = [handles EXCEPT ![e] = @ - 1]
      /\ Len(stack') = 1 /\ stack' \in Seq(Frames) /\ Is(stack'[1], "unload", e, 0, info[e].name)
  BY DlcloseStep, ListsSame
<1>2. \A s \in Slots : handles'[s] = IF s = e THEN handles[s] - 1 ELSE handles[s]
  BY <1>1 DEF TypeInv, LinkerTypes
<1>3. \A k : k \in DOMAIN stack' <=> k = 1
  BY <1>1
<1>4. \A s \in Slots : /\ s = e => Drops(stack', s) = {1}
                       /\ s # e => Drops(stack', s) = {}
                       /\ Drops(stack, s) = {}
  BY <1>1, <1>3 DEF Drops, Is
<1>5. RefcountExact'
  <2>1. ASSUME NEW s \in Slots
        PROVE  info'[s].refcount = handles'[s] + Cardinality(Records(info', s))
                                                + Cardinality(Drops(stack', s))
    <3>1. PICK c \in Int, h \in Nat, r \in Nat, d \in Nat :
            /\ c = info[s].refcount /\ h = handles[s] /\ r = Cardinality(Records(info, s))
            /\ d = Cardinality(Drops(stack, s)) /\ c = h + r + d
      BY CountsAre DEF UseInv
    <3>2. d = 0 /\ Cardinality({1}) = 1 /\ Cardinality({}) = 0
      BY <1>4, <3>1, FS_EmptySet, FS_Singleton
    <3>3. CASE s = e
      <4>1. handles'[s] = h - 1 /\ Cardinality(Drops(stack', s)) = 1
        BY <1>2, <1>4, <3>1, <3>2, <3>3
      <4> QED BY <1>1, <3>1, <3>2, <4>1
    <3>4. CASE s # e
      <4>1. handles'[s] = h /\ Cardinality(Drops(stack', s)) = 0
        BY <1>2, <1>4, <3>1, <3>2, <3>4
      <4> QED BY <1>1, <3>1, <3>2, <4>1
    <3> QED BY <3>3, <3>4
  <2> QED BY <2>1, ExactNext
<1>6. NoneEmpty' /\ OffList'
  BY <1>1 DEF UseInv, NoneEmpty, OffList
<1>7. UnloadsAlone'
  BY <1>1 DEF UnloadsAlone, Alone, Is
<1> QED BY <1>5, <1>6, <1>7 DEF UseInv

(* A user less, and a count with it.                                       *)
LEMMA OneLess == \A c, h, r, d \in Int : c = h + r + d => c - 1 = h + r + (d - 1)
OBVIOUS

(* One user at most, and that one gone.                                    *)
LEMMA OnlyOne == \A d, x \in Nat : x = d - 1 /\ d <= 1 => x = 0
OBVIOUS

(* unload_library of a library with other users: one use less.             *)
LEMMA UsesUnloadEnter ==
  ASSUME TypeInv, TypeInv', UseInv, UnloadEnter
  PROVE  UseInv'
<1>1. /\ On(Solist)' = On(Solist) /\ handles' = handles
      /\ stack # << >> /\ Top.fn = "unload" /\ Top.si \in PoolEntry
      /\ \/ info' = info /\ info[Top.si].refcount = 1
            /\ Calling(Top.si, 1, "fini", Top.si, Top.name)
         \/ info[Top.si].refcount # 1 /\ Pops(stack, stack')
  BY UnloadEnterStep, ListsSame
<1>2. PICK a \in Slots : a = Top.si
  BY <1>1, PoolEntries
<1>3. /\ stack \in Seq(Frames) /\ stack' \in Seq(Frames) /\ Top = stack[Len(stack)]
      /\ \A k \in 1 .. Len(stack) - 1 : Alone(stack[k], info[stack[k].si])
  BY <1>1, UnloadTop DEF TypeInv, LinkerTypes
<1>4. CASE info' = info /\ info[Top.si].refcount = 1
             /\ Calling(Top.si, 1, "fini", Top.si, Top.name)
  <2>1. PICK f \in Frames, g \in Frames :
          /\ Calls(stack, stack', f, g) /\ Is(f, Top.fn, Top.si, 1, Top.name)
          /\ Is(g, "fini", Top.si, 0, Top.name)
    BY <1>4 DEF Calling
  <2>2. f.fn = stack[Len(stack)].fn /\ f.si = stack[Len(stack)].si /\ g.fn # "unload"
    BY <1>3, <2>1 DEF Is
  <2>3. \A s \in Slots : Drops(stack', s) = Drops(stack, s)
    BY <1>1, <1>3, <2>1, <2>2, DropsCall
  <2>4. RefcountExact'
    BY <1>1, <1>4, <2>3, CountsAre, ExactNext DEF UseInv
  <2>5. Alone(f, info'[f.si])
    <3>1. f.i = 1 /\ f.si = a /\ info'[a].refcount = 1
      BY <1>2, <1>4, <2>1 DEF Is
    <3>2. Len(info[a].deps) \in Nat
      BY DepsFields DEF TypeInv
    <3>3. \A j \in 1 .. Len(info'[a].deps) : ~(j < 1)
      BY <1>4, <3>2
    <3> QED BY <3>1, <3>3 DEF Alone
  <2>6. UnloadsAlone'
    BY <1>1, <1>3, <1>4, <2>1, <2>2, <2>5, UnloadsNext
  <2>7. NoneEmpty' /\ OffList'
    BY <1>1, <1>4 DEF UseInv, NoneEmpty, OffList
  <2> QED BY <2>4, <2>6, <2>7 DEF UseInv
<1>5. CASE info[Top.si].refcount # 1 /\ Pops(stack, stack')
  <2>1. /\ SameImage /\ SameDeps /\ info'[a].refcount = info[a].refcount - 1
        /\ \A s \in Slots : s # a => info'[s].refcount = info[s].refcount
    BY <1>2, <1>5, UnloadEnterFields
  <2>2. \A s \in Slots :
          /\ s = a => Cardinality(Drops(stack', s)) = Cardinality(Drops(stack, s)) - 1
          /\ s # a => Drops(stack', s) = Drops(stack, s)
    BY <1>1, <1>2, <1>3, <1>5, DropsPop
  <2>3. RefcountExact'
    <3>1. ASSUME NEW s \in Slots
          PROVE  info'[s].refcount = handles'[s] + Cardinality(Records(info', s))
                                                  + Cardinality(Drops(stack', s))
      <4>1. PICK c \in Int, h \in Nat, r \in Nat, d \in Nat :
              /\ c = info[s].refcount /\ h = handles[s] /\ r = Cardinality(Records(info, s))
              /\ d = Cardinality(Drops(stack, s)) /\ c = h + r + d
        BY CountsAre DEF UseInv
      <4>2. Records(info', s) = Records(info, s)
        BY <2>1, SameRecords
      <4>3. CASE s = a
        <5>1. info'[s].refcount = c - 1 /\ Cardinality(Drops(stack', s)) = d - 1
          BY <2>1, <2>2, <4>1, <4>3
        <5>2. handles'[s] = h /\ Cardinality(Records(info', s)) = r
          BY <1>1, <4>1, <4>2
        <5>3. c - 1 = h + r + (d - 1)
          BY <4>1, OneLess
        <5> QED BY <5>1, <5>2, <5>3
      <4>4. CASE s # a
        BY <1>1, <2>1, <2>2, <4>1, <4>2, <4>4
      <4> QED BY <4>3, <4>4
    <3> QED BY <3>1, ExactNext
  <2>4. NoneEmpty'
    BY <2>1 DEF UseInv, NoneEmpty, SameImage, SameDeps
  <2>5. info[a].refcount # 0
    <3>1. PICK c \in Int, h \in Nat, r \in Nat, d \in Nat :
            /\ c = info[a].refcount /\ h = handles[a] /\ r = Cardinality(Records(info, a))
            /\ d = Cardinality(Drops(stack, a)) /\ c = h + r + d
      BY CountsAre DEF UseInv
    <3>2. Cardinality(Drops(stack', a)) = d - 1
      BY <2>2, <3>1
    <3>3. Cardinality(Drops(stack', a)) \in Nat
      <4>1. Len(stack') \in Nat /\ DOMAIN stack' = 1 .. Len(stack')
        BY <1>3
      <4> QED BY <4>1, DropsAre
    <3> QED BY <3>1, <3>2, <3>3
  <2>6. OffList'
    <3>1. ASSUME NEW s \in Slots, s \notin On(Solist) PROVE Nothing(info'[s])
      <4>1. Nothing(info[s]) /\ s # a
        BY <2>5, <3>1 DEF UseInv, OffList, Nothing
      <4> QED BY <2>1, <4>1 DEF Nothing, SameDeps
    <3> QED BY <1>1, <3>1 DEF OffList
  <2>7. UnloadsAlone'
    <3>1. ASSUME NEW k \in 1 .. Len(stack) - 1 PROVE Alone(stack[k], info'[stack[k].si])
      <4>1. SUFFICES ASSUME stack[k].fn = "unload", stack[k].i > 0
                     PROVE  Alone(stack[k], info'[stack[k].si])
        BY DEF Alone
      <4>2. stack[k].si # a /\ stack[k].si \in Slots
        <5>1. stack[k] \in Frames
          BY <1>1, <1>3, StackLength
        <5>2. stack[k].si \in PoolEntry
          BY <4>1, <5>1, FrameFields DEF Holding
        <5> QED BY <1>2, <1>3, <1>5, <4>1, <5>2, PoolEntries DEF Alone
      <4>3. PICK x, y : x = info[stack[k].si] /\ y = info'[stack[k].si]
        OBVIOUS
      <4>4. y.refcount = x.refcount /\ y.deps = x.deps
        BY <2>1, <4>2, <4>3 DEF SameDeps
      <4>5. Alone(stack[k], x)
        BY <1>3, <4>3
      <4> QED BY <4>3, <4>4, <4>5, AloneKept
    <3> QED BY <1>1, <1>5, <3>1, UnloadsNext
  <2> QED BY <2>3, <2>4, <2>6, <2>7 DEF UseInv
<1> QED BY <1>1, <1>4, <1>5

(* Running the destructors changes no use.                                 *)
LEMMA UsesFiniReturns ==
  ASSUME TypeInv, TypeInv', UseInv, FiniReturns
  PROVE  UseInv'
<1>1. /\ On(Solist)' = On(Solist) /\ handles' = handles
      /\ stack # << >> /\ Top.fn = "fini" /\ Pops(stack, stack')
      /\ SameCount /\ SameImage /\ SameDeps
  BY FiniReturnsStep, FiniReturnsFields, ListsSame
<1>2. /\ stack \in Seq(Frames) /\ stack' \in Seq(Frames) /\ Top = stack[Len(stack)]
      /\ \A k \in 1 .. Len(stack) - 1 : Alone(stack[k], info[stack[k].si])
  BY <1>1, UnloadTop DEF TypeInv, LinkerTypes
<1>3. \A s \in Slots : Drops(stack', s) = Drops(stack, s)
  BY <1>1, <1>2, DropsPop
<1>4. RefcountExact'
  BY <1>1, <1>3, SameRecords, CountsAre, ExactNext DEF UseInv, SameCount
<1>5. NoneEmpty'
  BY <1>1 DEF UseInv, NoneEmpty, SameImage, SameDeps
<1>6. OffList'
  BY <1>1 DEF UseInv, OffList, Nothing, SameCount, SameDeps
<1>7. UnloadsAlone'
  <2>1. ASSUME NEW k \in 1 .. Len(stack) - 1 PROVE Alone(stack[k], info'[stack[k].si])
    <3>1. stack[k] \in Frames
      BY <1>1, <1>2, StackLength
    <3>2. stack[k].fn = "unload" => stack[k].si \in PoolEntry
      BY <3>1, FrameFields DEF Holding
    <3>3. CASE stack[k].fn = "unload"
      <4>1. PICK x, y : x = info[stack[k].si] /\ y = info'[stack[k].si]
        OBVIOUS
      <4>2. y.refcount = x.refcount /\ y.deps = x.deps
        BY <1>1, <3>2, <3>3, <4>1, PoolEntries DEF SameCount, SameDeps
      <4>3. Alone(stack[k], x)
        BY <1>2, <4>1
      <4> QED BY <4>1, <4>2, <4>3, AloneKept
    <3> QED BY <3>3 DEF Alone
  <2> QED BY <1>1, <2>1, UnloadsNext
<1> QED BY <1>4, <1>5, <1>6, <1>7 DEF UseInv

(* A DT_NEEDED entry is dropped: the unload that is called takes it over.  *)
LEMMA UsesUnloadNeeded ==
  ASSUME TypeInv, TypeInv', UseInv, UnloadNeeded
  PROVE  UseInv'
<1>1. /\ On(Solist)' = On(Solist) /\ handles' = handles
      /\ stack # << >> /\ Top.fn = "unload" /\ Top.si \in PoolEntry
      /\ Top.i \in 1 .. Len(info[Top.si].deps)
      /\ \/ /\ info[Top.si].deps[Top.i] \in PoolEntry
            /\ Calling(Top.si, Top.i + 1, "unload", info[Top.si].deps[Top.i], Top.name)
         \/ /\ info[Top.si].deps[Top.i] = NULL
            /\ Moving("unload", Top.si, Top.i + 1, Top.name)
  BY UnloadNeededStep, ListsSame
<1>2. PICK a \in Slots, n \in Nat, i \in Nat :
        a = Top.si /\ n = Len(info[a].deps) /\ i = Top.i /\ i \in 1 .. n
  <2>1. Len(info[Top.si].deps) \in Nat /\ Top.si \in Slots
    BY <1>1, PoolEntries, DepsFields DEF TypeInv
  <2> QED BY <1>1, <2>1
<1>3. PICK b : b = info[a].deps[i]
  OBVIOUS
<1>4. /\ SameCount /\ SameImage /\ info'[a].deps = [info[a].deps EXCEPT ![i] = NULL]
      /\ \A s \in Slots : s # a => info'[s].deps = info[s].deps
  BY <1>2, UnloadNeededFields
<1>5. /\ stack \in Seq(Frames) /\ stack' \in Seq(Frames) /\ Top = stack[Len(stack)]
      /\ \A k \in 1 .. Len(stack) - 1 : Alone(stack[k], info[stack[k].si])
      /\ Alone(Top, info[a])
  BY <1>1, <1>2, UnloadTop DEF TypeInv, LinkerTypes
<1>6. /\ info \in [Slots -> Soinfos] /\ info' \in [Slots -> Soinfos]
      /\ info[a].deps \in Seq(PoolEntry \cup {NULL})
  BY InfoFields DEF TypeInv, LinkerTypes
<1>7. /\ Len(info'[a].deps) = n /\ info'[a].deps[i] = NULL
      /\ \A j \in 1 .. n : j # i => info'[a].deps[j] = info[a].deps[j]
  BY <1>2, <1>4, <1>6
<1>8. /\ \A s \in Slots : s # b => Records(info', s) = Records(info, s)
      /\ b # NULL => Cardinality(Records(info', b)) = Cardinality(Records(info, b)) - 1
  BY SMTT(20), <1>2, <1>3, <1>4, <1>6, RecordsDropped
<1>9. NoneEmpty'
  <2>1. ASSUME NEW s \in Slots, info'[s].image = "none" PROVE info'[s].deps = << >>
    <3>1. info[s].image = "none" /\ info[s].deps = << >>
      BY <1>4, <2>1 DEF UseInv, NoneEmpty, SameImage
    <3>2. s # a
      BY <1>2, <3>1
    <3> QED BY <1>4, <3>1, <3>2
  <2> QED BY <2>1 DEF NoneEmpty
<1>10. OffList'
  <2>1. ASSUME NEW s \in Slots, s \notin On(Solist) PROVE Nothing(info'[s])
    <3>1. Nothing(info[s]) /\ info'[s].refcount = info[s].refcount
      BY <1>4, <2>1 DEF UseInv, OffList, SameCount
    <3>2. CASE s = a
      BY SMTT(40), <1>2, <1>7, <3>1, <3>2 DEF Nothing
    <3>3. CASE s # a
      BY <1>4, <3>1, <3>3 DEF Nothing
    <3> QED BY SMTT(20), <3>2, <3>3
  <2> QED BY <1>1, <2>1 DEF OffList
<1>11. ASSUME NEW f, Is(f, "unload", a, i + 1, Top.name) PROVE Alone(f, info'[f.si])
  <2>1. f.fn = "unload" /\ f.si = a /\ f.i = i + 1
    BY <1>11 DEF Is
  <2>2. info[a].refcount = 1 /\ \A j \in 1 .. n : j < i => info[a].deps[j] = NULL
    <3>1. Top.fn = "unload" /\ Top.i = i /\ i > 0 /\ Len(info[a].deps) = n
      BY <1>1, <1>2
    <3>2. Alone(Top, info[a])
      BY <1>5
    <3> QED BY <3>1, <3>2 DEF Alone
  <2>3. info'[a].refcount = 1
    BY <1>4, <2>2 DEF SameCount
  <2>4. ASSUME NEW j \in 1 .. n, j < i + 1 PROVE info'[a].deps[j] = NULL
    <3>1. j = i \/ j < i
      BY <2>4
    <3> QED BY <1>7, <2>2, <3>1
  <2> QED BY <1>7, <2>1, <2>3, <2>4 DEF Alone
<1>12. ASSUME NEW k \in 1 .. Len(stack) - 1 PROVE Alone(stack[k], info'[stack[k].si])
  <2>1. stack[k] \in Frames
    BY <1>1, <1>5, StackLength
  <2>2. SUFFICES ASSUME stack[k].fn = "unload" PROVE Alone(stack[k], info'[stack[k].si])
    BY DEF Alone
  <2>3. stack[k].si \in Slots
    BY <2>1, <2>2, FrameFields, PoolEntries DEF Holding
  <2>4. CASE stack[k].si # a
    <3>1. PICK x, y : x = info[stack[k].si] /\ y = info'[stack[k].si]
      OBVIOUS
    <3>2. y.refcount = x.refcount /\ y.deps = x.deps
      BY <1>4, <2>3, <2>4, <3>1 DEF SameCount
    <3>3. Alone(stack[k], x)
      BY <1>5, <3>1
    <3> QED BY <3>1, <3>2, <3>3, AloneKept
  <2>5. CASE stack[k].si = a
    <3>1. Alone(stack[k], info[a])
      BY <1>5, <2>5
    <3>2. PICK x, y : x = info[a] /\ y = info'[a]
      OBVIOUS
    <3>3. /\ y.refcount = x.refcount /\ Len(y.deps) = n /\ Len(x.deps) = n
          /\ \A j \in 1 .. n : j # i => y.deps[j] = x.deps[j]
          /\ y.deps[i] = NULL
      BY <1>2, <1>4, <1>7, <3>2 DEF SameCount
    <3>4. Alone(stack[k], y)
      BY <3>1, <3>2, <3>3 DEF Alone
    <3> QED BY <2>5, <3>2, <3>4
  <2> QED BY <2>4, <2>5
<1>13. CASE b \in PoolEntry /\ Calling(a, i + 1, "unload", b, Top.name)
  <2>1. PICK f \in Frames, g \in Frames :
          /\ Calls(stack, stack', f, g) /\ Is(f, Top.fn, a, i + 1, Top.name)
          /\ Is(g, "unload", b, 0, Top.name)
    BY <1>13 DEF Calling
  <2>2. /\ f.fn = stack[Len(stack)].fn /\ f.si = stack[Len(stack)].si
        /\ g.fn = "unload" /\ g.si = b /\ g.i = 0
    BY SMTT(20), <1>2, <1>5, <2>1 DEF Is
  <2>3. \A s \in Slots :
          /\ s = b => Cardinality(Drops(stack', s)) = Cardinality(Drops(stack, s)) + 1
          /\ s # b => Drops(stack', s) = Drops(stack, s)
    BY <1>1, <1>5, <2>1, <2>2, DropsCall
  <2>4. RefcountExact'
    <3>1. ASSUME NEW s \in Slots
          PROVE  info'[s].refcount = handles'[s] + Cardinality(Records(info', s))
                                                  + Cardinality(Drops(stack', s))
      <4>1. PICK c \in Int, h \in Nat, r \in Nat, d \in Nat :
              /\ c = info[s].refcount /\ h = handles[s] /\ r = Cardinality(Records(info, s))
              /\ d = Cardinality(Drops(stack, s)) /\ c = h + r + d
        BY CountsAre DEF UseInv
      <4>2. info'[s].refcount = c
        BY <1>4, <4>1 DEF SameCount
      <4>3. CASE s = b
        <5>1. b # NULL
          BY <1>13, PoolEntries
        <5>2. Cardinality(Records(info', s)) = r - 1 /\ Cardinality(Drops(stack', s)) = d + 1
          BY <1>8, <2>3, <4>1, <4>3, <5>1
        <5>3. handles'[s] = h
          BY <1>1, <4>1
        <5>4. h + r + d = h + (r - 1) + (d + 1)
          OBVIOUS
        <5>5. c = h + (r - 1) + (d + 1)
          BY <4>1, <5>4
        <5> QED BY <4>2, <5>2, <5>3, <5>5
      <4>4. CASE s # b
        BY <1>1, <1>8, <2>3, <4>1, <4>2, <4>4
      <4> QED BY <4>3, <4>4
    <3> QED BY <3>1, ExactNext
  <2>5. UnloadsAlone'
    <3>1. Alone(f, info'[f.si])
      BY <1>1, <1>11, <2>1
    <3> QED BY <1>1, <1>12, <2>1, <2>2, <3>1, UnloadsNext
  <2> QED BY <1>9, <1>10, <2>4, <2>5 DEF UseInv
<1>14. CASE b = NULL /\ Moving("unload", a, i + 1, Top.name)
  <2>1. PICK f \in Frames :
          Sets(stack, stack', f) /\ Is(f, "unload", a, i + 1, Top.name)
    BY <1>14 DEF Moving
  <2>2. f.fn = stack[Len(stack)].fn /\ f.si = stack[Len(stack)].si
    BY SMTT(20), <1>1, <1>2, <1>5, <2>1 DEF Is
  <2>3. \A s \in Slots : Drops(stack', s) = Drops(stack, s)
    BY <1>1, <1>5, <2>1, <2>2, DropsSet
  <2>4. \A s \in Slots : s # b
    BY <1>14, PoolEntries
  <2>5. RefcountExact'
    BY <1>1, <1>4, <1>8, <2>3, <2>4, CountsAre, ExactNext DEF UseInv, SameCount
  <2>6. UnloadsAlone'
    <3>1. Alone(f, info'[f.si])
      BY <1>11, <2>1
    <3> QED BY <1>1, <1>12, <2>1, <3>1, UnloadsNext
  <2> QED BY <1>9, <1>10, <2>5, <2>6 DEF UseInv
<1> QED BY <1>1, <1>2, <1>3, <1>13, <1>14

(* The last user gone, the entry is freed.                                 *)
LEMMA UsesUnloadFree ==
  ASSUME TypeInv, TypeInv', UseInv, UnloadFree
  PROVE  UseInv'
<1>1. /\ On(Solist)' = On(Solist) \ {Top.si} /\ handles' = handles
      /\ stack # << >> /\ Top.fn = "unload" /\ Top.si \in PoolEntry
      /\ Top.i > 0 /\ Top.i > Len(info[Top.si].deps) /\ Pops(stack, stack')
  BY UnloadFreeStep
<1>2. PICK a \in Slots : a = Top.si
  BY <1>1, PoolEntries
<1>3. /\ SameDeps /\ info'[a].refcount = 0
      /\ info'[a].image = "none" <=> info[a].image = "none"
      /\ \A s \in Slots : s # a => /\ info'[s].refcount = info[s].refcount
                                   /\ info'[s].image = info[s].image
  BY <1>2, UnloadFreeFields
<1>4. /\ stack \in Seq(Frames) /\ stack' \in Seq(Frames) /\ Top = stack[Len(stack)]
      /\ \A k \in 1 .. Len(stack) - 1 : Alone(stack[k], info[stack[k].si])
      /\ Alone(Top, info[a])
  BY <1>1, <1>2, UnloadTop DEF TypeInv, LinkerTypes
<1>5. info[a].refcount = 1 /\ \A j \in 1 .. Len(info[a].deps) : info[a].deps[j] = NULL
  <2>1. Len(info[a].deps) \in Nat /\ Top.i \in Nat
    <3>1. Top \in Frames
      BY <1>1, <1>4, StackLength
    <3> QED BY <3>1, DepsFields, FrameFields DEF TypeInv
  <2>2. info[a].refcount = 1
          /\ \A j \in 1 .. Len(info[a].deps) : j < Top.i => info[a].deps[j] = NULL
    BY <1>1, <1>4 DEF Alone
  <2>3. \A j \in 1 .. Len(info[a].deps) : j < Top.i
    BY <1>1, <1>2, <2>1
  <2> QED BY <2>2, <2>3
<1>6. \A s \in Slots :
        /\ s = a => Cardinality(Drops(stack', s)) = Cardinality(Drops(stack, s)) - 1
        /\ s # a => Drops(stack', s) = Drops(stack, s)
  BY <1>1, <1>2, <1>4, DropsPop
<1>7. RefcountExact'
  <2>1. ASSUME NEW s \in Slots
        PROVE  info'[s].refcount = handles'[s] + Cardinality(Records(info', s))
                                                + Cardinality(Drops(stack', s))
    <3>1. PICK c \in Int, h \in Nat, r \in Nat, d \in Nat :
            /\ c = info[s].refcount /\ h = handles[s] /\ r = Cardinality(Records(info, s))
            /\ d = Cardinality(Drops(stack, s)) /\ c = h + r + d
      BY CountsAre DEF UseInv
    <3>2. Records(info', s) = Records(info, s)
      BY <1>3, SameRecords
    <3>3. CASE s = a
      <4>1. info'[s].refcount = 0 /\ Cardinality(Drops(stack', s)) = d - 1 /\ c = 1
        BY <1>3, <1>5, <1>6, <3>1, <3>3
      <4>2. handles'[s] = h /\ Cardinality(Records(info', s)) = r
        BY <1>1, <3>1, <3>2
      <4>3. c - 1 = h + r + (d - 1)
        BY <3>1, OneLess
      <4>4. c - 1 = 0
        BY <4>1
      <4> QED BY <4>1, <4>2, <4>3, <4>4
    <3>4. CASE s # a
      BY <1>1, <1>3, <1>6, <3>1, <3>2, <3>4
    <3> QED BY <3>3, <3>4
  <2> QED BY <2>1, ExactNext
<1>8. NoneEmpty'
  BY <1>3 DEF UseInv, NoneEmpty, SameDeps
<1>9. OffList'
  <2>1. ASSUME NEW s \in Slots, s \notin On(Solist) \ {a} PROVE Nothing(info'[s])
    <3>1. CASE s = a
      BY <1>3, <1>5, <3>1 DEF Nothing, SameDeps
    <3>2. CASE s # a
      BY <1>3, <2>1, <3>2 DEF UseInv, OffList, Nothing, SameDeps
    <3> QED BY <3>1, <3>2
  <2> QED BY <1>1, <1>2, <2>1 DEF OffList
<1>10. UnloadsAlone'
  <2>1. ASSUME NEW k \in 1 .. Len(stack) - 1 PROVE Alone(stack[k], info'[stack[k].si])
    <3>1. stack[k] \in Frames
      BY <1>1, <1>4, StackLength
    <3>2. SUFFICES ASSUME stack[k].fn = "unload", stack[k].i > 0
                   PROVE  Alone(stack[k], info'[stack[k].si])
      BY DEF Alone
    <3>3. stack[k].si \in Slots
      BY <3>1, <3>2, FrameFields, PoolEntries DEF Holding
    <3>4. stack[k].si # a
      <4>1. SUFFICES ASSUME stack[k].si = a PROVE FALSE
        OBVIOUS
      <4>2. PICK c \in Int, h \in Nat, r \in Nat, d \in Nat :
              /\ c = info[a].refcount /\ h = handles[a] /\ r = Cardinality(Records(info, a))
              /\ d = Cardinality(Drops(stack, a)) /\ c = h + r + d
        BY CountsAre DEF UseInv
      <4>3. Cardinality(Drops(stack', a)) = d - 1 /\ d <= 1
        <5>1. c = 1
          BY <1>5, <4>2
        <5>2. d <= 1
          BY <4>2, <5>1
        <5>3. Cardinality(Drops(stack', a)) = d - 1
          BY <1>6, <4>2
        <5> QED BY <5>2, <5>3
      <4>4. k \in Drops(stack', a)
        BY <1>1, <1>4, <3>2, <4>1 DEF Drops, Pops
      <4>5. IsFiniteSet(Drops(stack', a)) /\ Cardinality(Drops(stack', a)) \in Nat
        <5>1. Len(stack') \in Nat /\ DOMAIN stack' = 1 .. Len(stack')
          BY <1>4
        <5> QED BY <5>1, DropsAre
      <4>6. Cardinality(Drops(stack', a)) = 0
        BY <4>3, <4>5, OnlyOne
      <4> QED BY <4>4, <4>5, <4>6, FS_EmptySet
    <3>5. PICK x, y : x = info[stack[k].si] /\ y = info'[stack[k].si]
      OBVIOUS
    <3>6. y.refcount = x.refcount /\ y.deps = x.deps
      BY <1>3, <3>3, <3>4, <3>5 DEF SameDeps
    <3>7. Alone(stack[k], x)
      BY <1>4, <3>5
    <3> QED BY <3>5, <3>6, <3>7, AloneKept
  <2> QED BY <1>1, <2>1, UnloadsNext
<1> QED BY <1>7, <1>8, <1>9, <1>10 DEF UseInv

(* Before the first step nobody uses anything.                             *)
LEMMA InfoInitially ==
  ASSUME Init, NEW s \in Slots
  PROVE  \E m \in Libraries : info[s] = Stub(m) \/ info[s] = Soinfo(m)
<1>1. PICK order \in [1 .. StubCount -> Stubs] :
        info = [e \in Slots |-> IF e = libdl_info THEN Stub(LibDL)
                                ELSE IF e <= StubCount THEN Stub(order[e])
                                ELSE Soinfo(LibDL)]
  BY DEF Init
<1>2. /\ SO_MAX \in Nat /\ Stubs \subseteq Libraries /\ LibDL \in Libraries
      /\ StubCount \in Nat
  BY LinkerAssumption, FS_CardinalityType DEF StubCount
<1>3. CASE s = libdl_info
  BY <1>1, <1>2, <1>3
<1>4. CASE s # libdl_info /\ s <= StubCount
  <2>1. s \in 1 .. StubCount
    BY <1>2, <1>4 DEF Slots, libdl_info
  <2>2. order[s] \in Libraries
    BY <1>2, <2>1
  <2> QED BY <1>1, <1>4, <2>2
<1>5. CASE s # libdl_info /\ ~(s <= StubCount)
  BY <1>1, <1>2, <1>5
<1> QED BY <1>3, <1>4, <1>5

(* At first nothing is used.                                               *)
LEMMA UsesInitially ==
  ASSUME Init
  PROVE  UseInv
<1>1. stack = << >> /\ handles = [s \in Slots |-> 0]
  BY DEF Init
<1>2. \A s \in Slots : info[s].refcount = 0 /\ info[s].deps = << >>
  BY InfoInitially, SoinfoMade
<1>3. TypeInv
  BY TypesInitially
<1>4. ASSUME NEW s \in Slots PROVE info[s].refcount = handles[s]
                                     + Cardinality(RecordedIn(s)) + Cardinality(BeingDropped(s))
  <2>1. Drops(stack, s) = {}
    BY <1>1 DEF Drops
  <2>2. \A p : p \in Records(info, s) <=>
          \E d \in Slots : \E i \in 1 .. Len(info[d].deps) :
            p = << d, i >> /\ info[d].deps[i] = s
    BY <1>3, RecordsAre DEF TypeInv, LinkerTypes
  <2>3. \A d \in Slots : Len(info[d].deps) = 0
    BY <1>2
  <2>4. \A d \in Slots : ~(\E i \in 1 .. Len(info[d].deps) : TRUE)
    BY <2>3
  <2>5. Records(info, s) = {}
    BY <2>2, <2>4
  <2>6. Cardinality({}) = 0
    BY FS_EmptySet
  <2>7. Cardinality(RecordedIn(s)) = 0 /\ Cardinality(BeingDropped(s)) = 0
    BY <2>1, <2>5, <2>6, UsersAre
  <2> QED BY <1>1, <1>2, <2>7
<1>5. RefcountExact
  BY <1>4 DEF RefcountExact
<1>6. NoneEmpty /\ OffList
  <2>1. \A s \in Slots : Len(info[s].deps) = 0
    BY <1>2
  <2> QED BY <1>2, <2>1 DEF NoneEmpty, OffList, Nothing
<1>7. UnloadsAlone
  BY <1>1 DEF UnloadsAlone
<1> QED BY <1>5, <1>6, <1>7 DEF UseInv

(* Every step of a call keeps the counts.                                  *)
LEMMA UsesInside ==
  ASSUME LibDLUnnamed, TypeInv, TypeInv', ShapeInv, WorkInv, UseInv, Inside
  PROVE  UseInv'
<1> DEFINE Quiet == NoUnload(stack) /\ NoUnload(stack')
<1>1. PICK on : on = On(Solist)'
  OBVIOUS
<1>2. ASSUME Quiet, SameCount, SameDeps, handles' = handles, on = On(Solist),
             \A s \in Slots : info'[s].image = "none" => info[s].image = "none"
      PROVE  UseInv'
  BY <1>1, <1>2, UsesKept
<1>3. ASSUME Quiet, info' = info, handles' = handles, UNCHANGED lists PROVE UseInv'
  BY <1>1, <1>2, <1>3, SameInfo, ListsSame DEF AllSame
<1>4. CASE FindLibrary
  <2>1. Quiet
    BY <1>4, FindLibraryStep, OpeningQuiet
  <2> QED BY <1>3, <1>4, <2>1, FindLibraryStep
<1>5. CASE LoadRefused
  <2>1. Quiet
    BY <1>5, LoadRefusedStep, OpeningQuiet
  <2> QED BY <1>3, <1>5, <2>1, LoadRefusedStep
<1>6. CASE LoadAlloc
  <2>1. Quiet
    BY <1>6, LoadAllocStep, OpeningQuiet
  <2>2. CASE UNCHANGED lists /\ info' = info
    BY <1>3, <1>6, <2>1, <2>2, LoadAllocStep
  <2>3. CASE \E a \in PoolEntry :
               /\ a \notin On(Solist) /\ On(Solist)' = On(Solist) \cup {a}
               /\ Only(a) /\ info'[a] = Soinfo(Top.name) /\ Top.name \in Libraries
    BY <1>6, <2>1, <2>3, LoadAllocStep, SoinfoMade, UsesNew
  <2> QED BY <1>6, <2>2, <2>3, LoadAllocStep
<1>7. CASE LoadSegments
  <2>1. Quiet
    BY <1>7, LoadSegmentsStep, OpeningQuiet
  <2>2. \A s \in Slots : info'[s].image = "none" => info[s].image = "none"
    BY <1>7, LoadSegmentsFields
  <2> QED BY <1>1, <1>2, <1>7, <2>1, <2>2, LoadSegmentsStep, LoadSegmentsFields, ListsSame
<1>8. CASE LoadFails
  <2>1. Quiet
    BY <1>8, LoadFailsStep, OpeningQuiet
  <2>2. /\ on = On(Solist) \ {Top.si} /\ info' = info /\ handles' = handles
        /\ Top.fn = "load_library" /\ stack # << >> /\ Top.si \in PoolEntry
    BY <1>1, <1>8, LoadFailsStep
  <2>3. Nothing(info[Top.si])
    <3>1. info[Top.si] = Soinfo(Top.name)
      BY <2>2, PoolEntries DEF WorkInv, Loading, InFn
    <3>2. Top \in Frames
      BY <2>2, StackLength DEF Top
    <3>3. info[Top.si].refcount = 0 /\ info[Top.si].deps = << >>
      BY <3>1, <3>2, FrameFields, SoinfoMade
    <3>4. Len(info[Top.si].deps) = 0
      BY <3>3
    <3> QED BY <3>3, <3>4 DEF Nothing
  <2>4. \A s \in Slots : s \in On(Solist) /\ s \notin on => Nothing(info[s])
    BY <2>2, <2>3
  <2>5. SameCount /\ SameDeps
    BY <2>2, SameInfo DEF AllSame
  <2> QED BY <1>1, <2>1, <2>2, <2>4, <2>5, UsesKept
<1>9. CASE LinkFails
  <2>1. Quiet
    BY <1>9, LinkFailStep, OpeningQuiet
  <2>2. \A s \in Slots : info'[s].image = "none" => info[s].image = "none"
    BY <1>9, LinkFailFields
  <2> QED BY <1>1, <1>2, <1>9, <2>1, <2>2, LinkFailStep, LinkFailFields, ListsSame
<1>10. CASE LinkFind
  <2>1. Quiet
    BY <1>10, LinkFindStep, OpeningQuiet
  <2> QED BY <1>3, <1>10, <2>1, LinkFindStep
<1>11. CASE LinkNeeded /\ ret # NULL
  BY <1>11, UsesLinkNeeded
<1>12. CASE LinkFinish /\ ~LinkFail(TRUE)
  <2>1. Quiet
    BY <1>12, LinkedStep, OpeningQuiet
  <2>2. SameImage /\ SameCount /\ SameDeps
    BY <1>12, LinkedFields
  <2> QED BY <1>1, <1>2, <1>12, <2>1, <2>2, LinkedStep, ListsSame DEF SameImage
<1>13. CASE DlopenFound
  <2>1. Quiet
    BY <1>13, DlopenFoundStep, OpeningQuiet
  <2> QED BY <1>3, <1>13, <2>1, DlopenFoundStep
<1>14. CASE DlopenReturn
  BY <1>14, UsesDlopenReturn
<1>15. CASE CtorEnter
  <2>1. Quiet
    BY <1>15, CtorEnterStep, OpeningQuiet
  <2>2. SameImage /\ SameCount /\ SameDeps
    BY <1>15, CtorEnterFields
  <2> QED BY <1>1, <1>2, <1>15, <2>1, <2>2, CtorEnterStep, ListsSame DEF SameImage
<1>16. CASE CtorNeeded
  <2>1. Quiet
    BY <1>16, CtorNeededStep, OpeningQuiet
  <2> QED BY <1>3, <1>16, <2>1, CtorNeededStep
<1>17. CASE CtorInit
  <2>1. Quiet
    BY <1>17, CtorInitStep, OpeningQuiet
  <2> QED BY <1>3, <1>17, <2>1, CtorInitStep
<1>18. CASE InitReturns
  <2>1. Quiet
    BY <1>18, InitReturnsStep, OpeningQuiet
  <2>2. SameImage /\ SameCount /\ SameDeps
    BY <1>18, InitReturnsFields
  <2> QED BY <1>1, <1>2, <1>18, <2>1, <2>2, InitReturnsStep, ListsSame DEF SameImage
<1>19. CASE UnloadEnter
  BY <1>19, UsesUnloadEnter
<1>20. CASE FiniReturns
  BY <1>20, UsesFiniReturns
<1>21. CASE UnloadNeeded
  BY <1>21, UsesUnloadNeeded
<1>22. CASE UnloadFree
  BY <1>22, UsesUnloadFree
<1> QED BY <1>4, <1>5, <1>6, <1>7, <1>8, <1>9, <1>10, <1>11, <1>12, <1>13, <1>14, <1>15,
           <1>16, <1>17, <1>18, <1>19, <1>20, <1>21, <1>22, InsideCases

(* Every step keeps the uses right.                                        *)
LEMMA UsesStep ==
  ASSUME LibDLUnnamed, TypeInv, TypeInv', ShapeInv, WorkInv, UseInv, [Next]_vars
  PROVE  UseInv'
<1>1. CASE UNCHANGED vars
  <2>1. stack' = stack /\ info' = info /\ handles' = handles /\ UNCHANGED lists
    BY <1>1 DEF vars, pool
  <2>2. On(Solist)' = On(Solist)
    BY <2>1, ListsSame
  <2>3. NoneEmpty' /\ OffList' /\ UnloadsAlone'
    BY <2>1, <2>2 DEF UseInv, NoneEmpty, OffList, UnloadsAlone
  <2>4. RefcountExact'
    BY <2>1 DEF UseInv, RefcountExact, RecordedIn, BeingDropped
  <2> QED BY <2>3, <2>4 DEF UseInv
<1>2. ASSUME NEW n \in Opened, Dlopen(n) PROVE UseInv'
  <2>1. /\ Len(stack') = 2 /\ stack = << >> /\ info' = info /\ handles' = handles
        /\ Is(stack'[1], "dlopen", NULL, 0, n) /\ Is(stack'[2], "find_library", NULL, 0, n)
        /\ On(Solist)' = On(Solist)
    BY <1>2, DlopenStep, ListsSame
  <2>2. \A k \in 1 .. 2 : k = 1 \/ k = 2
    OBVIOUS
  <2>3. NoUnload(stack) /\ NoUnload(stack')
    BY <2>1, <2>2 DEF NoUnload, Is
  <2>4. PICK on : on = On(Solist)'
    OBVIOUS
  <2> QED BY <2>1, <2>3, <2>4, UsesKept, SameInfo DEF AllSame
<1>3. ASSUME NEW s \in Slots, Dlclose(s) PROVE UseInv'
  BY <1>3, UsesDlclose
<1>4. ASSUME NEW s \in Slots, LibraryDestroy(s) PROVE UseInv'
  <2>1. /\ info' = info /\ stack' = stack /\ stack = << >> /\ handles' = handles
        /\ info[s].image = "none" /\ info[s].refcount = 0
        /\ On(Solist)' = On(Solist) \ {s}
    BY <1>4, LibraryDestroyStep
  <2>2. info[s].deps = << >>
    BY <2>1 DEF UseInv, NoneEmpty
  <2>3. Len(info[s].deps) = 0
    BY <2>2
  <2>4. Nothing(info[s])
    BY <2>1, <2>3 DEF Nothing
  <2>5. PICK on : on = On(Solist)'
    OBVIOUS
  <2>6. \A e \in Slots : e \in On(Solist) /\ e \notin on => Nothing(info[e])
    BY <2>1, <2>4, <2>5
  <2>7. NoUnload(stack) /\ NoUnload(stack')
    BY <2>1 DEF NoUnload
  <2>8. SameCount /\ SameDeps
    BY <2>1, SameInfo DEF AllSame
  <2> QED BY <2>1, <2>5, <2>6, <2>7, <2>8, UsesKept
<1>5. ASSUME NEW n \in Stubs, LibraryCreate(n) PROVE UseInv'
  <2>1. stack' = stack /\ stack = << >> /\ handles' = handles /\ n \in Libraries
    BY <1>5, LibraryCreateStep
  <2>2. NoUnload(stack) /\ NoUnload(stack')
    BY <2>1 DEF NoUnload
  <2>3. PICK a \in PoolEntry :
          /\ a \notin On(Solist) /\ On(Solist)' = On(Solist) \cup {a}
          /\ Only(a) /\ info'[a] = Stub(n)
    BY <1>5, LibraryCreateStep
  <2>4. info'[a].refcount = 0 /\ info'[a].deps = << >>
    BY <2>1, <2>3, SoinfoMade
  <2> QED BY <2>1, <2>2, <2>3, <2>4, UsesNew
<1>6. CASE Inside
  BY <1>6, UsesInside
<1> QED BY <1>1, <1>2, <1>3, <1>4, <1>5, <1>6 DEF Next

-----------------------------------------------------------------------------
(* The inductive invariant of the reference counts.                        *)
CountInv == TypeInv /\ ShapeInv /\ WorkInv /\ UseInv

(* The inductive invariant holds at first.                                 *)
LEMMA CountsInitially ==
  ASSUME Init
  PROVE  CountInv
BY TypesInitially, ShapeInitially, WorkInitially, UsesInitially DEF CountInv

(* Every step keeps it.                                                    *)
LEMMA CountsStep ==
  ASSUME LibDLUnnamed, CountInv, [Next]_vars
  PROVE  CountInv'
BY TypesStep, ShapeStep, WorkStep, UsesStep DEF CountInv

(* At every step of every dlopen and dlclose, those that fail and those of *)
(* cyclic libraries included, the reference count of a soinfo is the       *)
(* number of its users: no library is unloaded in use, and none is kept    *)
(* by a count that nobody will give back.                                  *)
THEOREM RefcountsAlwaysExact ==
  ASSUME LibDLUnnamed
  PROVE  Spec => []RefcountExact
<1>1. Init => CountInv
  BY CountsInitially
<1>2. CountInv /\ [Next]_vars => CountInv'
  BY CountsStep
<1>3. CountInv => RefcountExact
  BY DEF CountInv, UseInv
<1> QED BY <1>1, <1>2, <1>3, PTL DEF Spec
=============================================================================
