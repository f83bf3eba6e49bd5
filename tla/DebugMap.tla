------------------------------ MODULE DebugMap ------------------------------
(***************************************************************************)
(* The list of link_map structures linker.c keeps for a debugger: one per  *)
(* soinfo, doubly linked, with a head (_r_debug.r_map) and a tail.  The    *)
(* linker's steps use these operators; NULL is the null pointer.           *)
(***************************************************************************)
EXTENDS Integers, FiniteSets

NULL == -1

VARIABLES r_map, r_debug_tail, l_next, l_prev

debugMap == << r_map, r_debug_tail, l_next, l_prev >>

DebugMapInit(slots) ==
  /\ r_map = NULL /\ r_debug_tail = NULL
  /\ l_next = [s \in slots |-> NULL]
  /\ l_prev = [s \in slots |-> NULL]

(* alloc_info's memset clears the link_map inside a reused soinfo.         *)
ClearLinkMap(map) ==
  /\ l_next' = [l_next EXCEPT ![map] = NULL]
  /\ l_prev' = [l_prev EXCEPT ![map] = NULL]
  /\ UNCHANGED << r_map, r_debug_tail >>

(* insert_soinfo_into_debug_map: append.                                   *)
InsertLinkMap(map) ==
  /\ l_next' = [s \in DOMAIN l_next |-> IF s = map THEN NULL
                                        ELSE IF s = r_debug_tail THEN map
                                        ELSE l_next[s]]
  /\ l_prev' = [l_prev EXCEPT ![map] = r_debug_tail]
  /\ r_map' = IF r_debug_tail = NULL THEN map ELSE r_map
  /\ r_debug_tail' = map

(* Mutant: the entry before it still leads to the one that goes.           *)
RemoveOneWay(map) ==
  /\ r_debug_tail' = IF r_debug_tail = map THEN l_prev[map] ELSE r_debug_tail
  /\ l_prev' = [s \in DOMAIN l_prev |-> IF s = l_next[map] THEN l_prev[map]
                                        ELSE l_prev[s]]
  /\ UNCHANGED << r_map, l_next >>

(* remove_soinfo_from_debug_map: the tail moves back, the head stays where *)
(* it is, even if it is the entry that goes.                               *)
RemoveLinkMap(map) ==
  /\ r_debug_tail' = IF r_debug_tail = map THEN l_prev[map] ELSE r_debug_tail
  /\ l_next' = [s \in DOMAIN l_next |-> IF s = l_prev[map] THEN l_next[map]
                                        ELSE l_next[s]]
  /\ l_prev' = [s \in DOMAIN l_prev |-> IF s = l_next[map] THEN l_prev[map]
                                        ELSE l_prev[s]]
  /\ UNCHANGED r_map

(* What a debugger meets, which reads from _r_debug.r_map on.              *)
FromHead ==
  LET ahead[k \in 0 .. Cardinality(DOMAIN l_next)] ==
        IF k = 0 THEN r_map
        ELSE LET s == ahead[k - 1] IN IF s = NULL THEN NULL ELSE l_next[s]
  IN  { ahead[k] : k \in DOMAIN ahead } \ {NULL}

(* The entries met walking back from the tail.                             *)
FromTail ==
  LET back[k \in 0 .. Cardinality(DOMAIN l_prev)] ==
        IF k = 0 THEN r_debug_tail
        ELSE LET s == back[k - 1] IN IF s = NULL THEN NULL ELSE l_prev[s]
  IN  { back[k] : k \in DOMAIN back } \ {NULL}
=============================================================================
