---------------------------- MODULE SymbolLookup ----------------------------
(***************************************************************************)
(* linker.c: the search for a symbol by its name, through the hash chains  *)
(* of one library and through the libraries of a scope, and the way back   *)
(* from an address to a library and a symbol.  What the characters of a    *)
(* name do to elfhash is left out: `hash` is any function of the names.    *)
(***************************************************************************)
EXTENDS Integers, Sequences, FiniteSets, SequencesExt, TLC

CONSTANTS
  Libs,      \* libraries; solist holds them in the order of `List`
  List,
  Wanted,    \* names that are looked for
  Tables,    \* symbol tables a library may have
  Buckets,   \* numbers of hash buckets a library may have
  ImageSize, \* size of a library's image
  NoLib

VARIABLES
  hash,      \* hash of each name, before it is reduced to a bucket
  lib,       \* the libraries: symbols, hash table, base, flags and scope
  main,      \* the executable, or NoLib
  preloads,  \* the preloaded libraries
  call,      \* the last call: its kind, library and name ...
  found      \* ... and the library and symbol index it found (0: none)

NoSym == << NoLib, 0 >>

(* The hash table the static linker puts into a library: each bucket leads *)
(* to the last of its symbols, each chain entry to the one before, 0 ends. *)
Earlier(syms, n, b, k) ==
  LET S == { i \in 1 .. k : hash[syms[i].name] % n = b }
  IN IF S = {} THEN 0 ELSE CHOOSE i \in S : \A j \in S : j <= i
Hashed(syms, n) ==
  [syms   |-> syms, nbucket |-> n,
   bucket |-> [b \in 0 .. n - 1 |-> Earlier(syms, n, b, Len(syms))],
   chain  |-> [i \in 0 .. Len(syms) |->
                 IF i = 0 THEN 0
                 ELSE Earlier(syms, n, hash[syms[i].name] % n, i - 1)]]

(* Mutant: the walk ends at a symbol of that name even if it is undefined. *)
ElfLookupUndefined(l, name) ==
  LET t == lib[l]
      from[n \in 0 .. Len(t.syms)] ==
        IF n = 0 \/ t.syms[n].name = name THEN n ELSE from[t.chain[n]]
  IN from[t.bucket[hash[name] % t.nbucket]]

(* _elf_lookup: along the chain to the first global or weak definition of  *)
(* the name; a local or undefined symbol of that name is passed over.      *)
ElfLookup(l, name) ==
  LET t == lib[l]
      hit(n) == /\ t.syms[n].name = name
                /\ t.syms[n].bind \in {"global", "weak"} /\ t.syms[n].defined
      from[n \in 0 .. Len(t.syms)] ==
        IF n = 0 THEN 0 ELSE IF hit(n) THEN n ELSE from[t.chain[n]]
  IN from[t.bucket[hash[name] % t.nbucket]]

FirstIn(order, name) ==
  LET k == SelectInSeq(order, LAMBDA l : ElfLookup(l, name) # 0)
  IN IF k = 0 THEN NoSym ELSE << order[k], ElfLookup(order[k], name) >>

(* _do_lookup, for a relocation of l: the library itself, the preloaded    *)
(* ones, those it needs (not what these need), the executable.             *)
Scope(l) ==
  << l >> \o preloads \o lib[l].needed \o (IF main = NoLib THEN << >> ELSE << main >>)
DoLookup(l, name) == FirstIn(Scope(l), name)

(* lookup_in_library and lookup, for dlsym: one library; or solist, from   *)
(* its head or from a library on, without those that failed to link.       *)
LookupInLibrary(l, name) == IF ElfLookup(l, name) = 0 THEN NoSym
                            ELSE << l, ElfLookup(l, name) >>
Lookup(name, start) ==
  FirstIn(SelectSeq(SubSeq(List, start, Len(List)), LAMBDA l : ~lib[l].error), name)

(* find_containing_library and find_containing_symbol, for dladdr.         *)
FindContainingLibrary(addr) ==
  LET k == SelectInSeq(List, LAMBDA l : addr - lib[l].base \in 0 .. ImageSize - 1)
  IN IF k = 0 THEN NoLib ELSE List[k]
FindContainingSymbol(addr, l) ==
  SelectInSeq(lib[l].syms, LAMBDA s :
    s.defined /\ addr - lib[l].base \in s.value .. s.value + s.size - 1)

-----------------------------------------------------------------------------
Init ==
  /\ hash \in [Wanted -> 0 .. 1]
  /\ preloads \in {<< >>, << List[2] >>} /\ main \in {NoLib, List[3]}
  /\ \E n \in Buckets : \E t \in [Libs -> Tables], broken \in {NoLib, List[3]} :
       lib = [l \in Libs |->
                Hashed(t[l], n) @@
                [base |-> 100 + ImageSize * SelectInSeq(List, LAMBDA x : x = l),
                 error |-> l = broken,
                 needed |-> IF l = List[1] THEN << List[4] >> ELSE << >>]]
  /\ call = << "none" >> /\ found = NoSym

Asks(kind, l, name, answer) ==
  /\ call = << "none" >>
  /\ call' = << kind, l, name >> /\ found' = answer
  /\ UNCHANGED << hash, lib, main, preloads >>

Relocation == \E name \in Wanted :
  Asks("relocation", List[1], name, DoLookup(List[1], name))
DlsymHandle == \E l \in Libs, name \in Wanted :
  Asks("handle", l, name, LookupInLibrary(l, name))
DlsymDefault == \E name \in Wanted :
  Asks("default", List[1], name, Lookup(name, 1))
DlsymNext == \E i \in 1 .. Len(List) - 1, name \in Wanted :
  Asks("next", List[i + 1], name, Lookup(name, i + 1))

Next == Relocation \/ DlsymHandle \/ DlsymDefault \/ DlsymNext

-----------------------------------------------------------------------------
Defines(l, name) ==
  \E i \in DOMAIN lib[l].syms : LET s == lib[l].syms[i] IN
    s.name = name /\ s.defined /\ s.bind # "local"
Searched ==
  CASE call[1] = "relocation" -> ToSet(Scope(call[2]))
    [] call[1] = "handle"     -> {call[2]}
    [] OTHER -> { l \in Libs : /\ ~lib[l].error
                               /\ SelectInSeq(List, LAMBDA x : x = l)
                                    >= SelectInSeq(List, LAMBDA x : x = call[2]) }

(* Whatever the hash and the buckets, a name is found exactly if a library *)
(* that counts defines it, and then a definition of that very name, never  *)
(* an undefined or local entry; a library's own definition is preferred,   *)
(* then a preloaded one.  The address dlsym returns leads dladdr back to   *)
(* the same library and to a symbol around the address.                    *)
LookupRight ==
  call # << "none" >> =>
    LET name == call[3]
        s    == lib[found[1]].syms[found[2]]
        addr == lib[found[1]].base + s.value
    IN /\ found = NoSym <=> ~ \E l \in Searched : Defines(l, name)
       /\ found # NoSym =>
            /\ found[1] \in Searched /\ s.name = name
            /\ s.defined /\ s.bind # "local"
            /\ FindContainingLibrary(addr) = found[1]
            /\ s.size > 0 =>
                 FindContainingSymbol(addr, found[1]) \in DOMAIN lib[found[1]].syms
       /\ call[1] = "relocation" /\ Defines(call[2], name) => found[1] = call[2]
       /\ /\ call[1] = "relocation" /\ ~Defines(call[2], name)
          /\ \E p \in ToSet(preloads) : Defines(p, name)
          => found[1] \in ToSet(preloads)
=============================================================================
