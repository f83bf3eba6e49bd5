-------------------------------- MODULE Image --------------------------------
(***************************************************************************)
(* linker.c: from the program headers of a library file to the linked      *)
(* image in memory.  The extent is computed and reserved, the loadable     *)
(* segments are read in page by page, the two relocation tables are worked *)
(* off, and the pages get their final protection.  The unit of memory is   *)
(* the word, a page has `Page` of them, and arithmetic is modulo 2^Width.  *)
(* A read delivers the program headers; the relocation tables and what the *)
(* dynamic section, one word here, points to are among what it delivers    *)
(* whenever it delivers the dynamic section.                               *)
(***************************************************************************)
EXTENDS Integers, Sequences, FiniteSets, SequencesExt, FiniteSetsExt

CONSTANTS
  Page, Width,
  Files,       \* library files: the architecture they are for, program
               \* headers, relocation tables, the base of a prelinked one
  Bases,       \* addresses the kernel may give to a mapping
  Hooked,      \* addresses of the symbols that have a host function
  Defined,     \* addresses of those a library of the scope defines
  Weak,        \* symbols the library itself only refers to weakly
  SymSize,     \* st_size of the symbols a library of the scope defines
  Foreign,     \* words outside the image, for COPY relocations
  MaxCopy,     \* bound on the words a COPY copies
  Missing      \* numbers of words by which a pread may fall short

VARIABLES
  file, pc,
  base, size,  \* the reserved region
  mem, prot,   \* its words and the protection of its pages
  at,          \* header or relocation that is next
  wrprotect,   \* range of the segments that are not writable
  relro,
  unread       \* history: the words that a pread should have filled

Word(x)   == x % 2^Width
Down(x)   == x - (x % Page)
Up(x)     == Down(x + Page - 1)
Pages(a, b) == { Down(x) : x \in a .. b - 1 }
Loads     == SelectSeq(file.phdrs, LAMBDA p : p.type = "LOAD")
Rels      == file.plt \o file.rel

(* get_lib_extents: from the first to the last page of a loadable segment. *)
Extent ==
  Up(Max({ p.vaddr + p.memsz : p \in ToSet(Loads) }))
    - Down(Min({ p.vaddr : p \in ToSet(Loads) }))

(* What pread and memset do to the words of a segment: the first `got`     *)
(* words of the file from the page that holds its first word, and zeros    *)
(* from where it should have ended up to the end of the page if it is      *)
(* writable.  A word of the file is its offset, counted from 1.  What      *)
(* pread returns is not looked at; one read of a load may fall short.      *)
Start(p) == base + Down(p.vaddr)
Span(p)  == p.filesz + (p.vaddr % Page)
Reads(p) ==
  {Span(p)} \cup
  (IF unread = {} THEN { Max({0, Span(p) - m}) : m \in Missing } ELSE {})
(* Mutant: the file is read from the segment's own offset.                 *)
ContentsUnaligned(p, words, got) ==
  [x \in DOMAIN words |->
     IF x \in Start(p) .. Start(p) + got - 1 THEN p.offset + (x - Start(p)) + 1
     ELSE words[x]]
Contents(p, words, got) ==
  LET end == Start(p) + Span(p)
  IN [x \in DOMAIN words |->
        IF x \in Start(p) .. Start(p) + got - 1
        THEN Down(p.offset) + (x - Start(p)) + 1
        ELSE IF "W" \in p.flags /\ x \in end .. Up(end) - 1 THEN 0
        ELSE words[x]]

(* The pages of a segment: those of the file, those of its bss, and the    *)
(* protection both have while relocations may still write to them.         *)
FilePages(p) == Pages(base + Down(p.vaddr), base + p.vaddr + p.filesz)
BssPages(p)  == Pages(Up(base + p.vaddr + p.filesz), base + p.vaddr + p.memsz)
Protected(p) ==
  [g \in DOMAIN prot |->
     IF g \in FilePages(p) \cup BssPages(p) THEN p.flags \cup {"W"} ELSE prot[g]]

-----------------------------------------------------------------------------
(* munmap takes the whole region away.  On Windows it is VirtualFree with  *)
(* MEM_RELEASE and a size, which fails, and nothing looks at that: the     *)
(* region stays.                                                           *)
Unmapped ==
  /\ pc' = "failed"
  /\ \/ base' = 0 /\ mem' = << >> /\ prot' = << >>
     \/ UNCHANGED << base, mem, prot >>
  /\ UNCHANGED << file, size, at, wrprotect, relro, unread >>

Init ==
  /\ file \in Files /\ pc = "extents" /\ base = 0 /\ size = 0
  /\ mem = << >> /\ prot = << >> /\ at = 1
  /\ wrprotect = << >> /\ relro = << >> /\ unread = {}

(* verify_elf_object, get_lib_extents: nothing to load is refused; the     *)
(* region is reserved without access, at the address a prelinked library   *)
(* asks for (whatever is mapped there), else where the kernel likes; or    *)
(* there is no room.                                                       *)
Reserve ==
  /\ pc = "extents" /\ Loads # << >>
  /\ \E b \in IF file.prelink = 0 THEN Bases ELSE {file.prelink} :
       /\ base' = b /\ size' = Extent /\ pc' = "load"
       /\ mem' = [x \in b .. b + Extent - 1 |-> 0]
       /\ prot' = [g \in Pages(b, b + Extent) |-> {}]
  /\ UNCHANGED << file, at, wrprotect, relro, unread >>
ReserveFails == pc = "extents" /\ Unmapped

(* load_segments: one program header; or the protection of a segment       *)
(* cannot be changed, and the whole region goes.                           *)
LoadSegment ==
  /\ pc = "load" /\ at <= Len(file.phdrs) /\ file.phdrs[at].type = "LOAD"
  /\ LET p   == file.phdrs[at]
         low == Start(p)
         end == Up(base + p.vaddr + p.memsz)
     IN /\ \E got \in Reads(p) :
             /\ mem' = Contents(p, mem, got)
             /\ unread' = unread \cup (Start(p) + got .. Start(p) + Span(p) - 1)
        /\ prot' = Protected(p)
        /\ wrprotect' = IF "W" \in p.flags THEN wrprotect
                        ELSE IF wrprotect = << >> THEN << low, end >>
                        ELSE << Min({low, wrprotect[1]}), Max({end, wrprotect[2]}) >>
  /\ at' = at + 1 /\ UNCHANGED << file, pc, base, size, relro >>
LoadRelro ==
  /\ pc = "load" /\ at <= Len(file.phdrs) /\ file.phdrs[at].type = "GNU_RELRO"
  /\ LET p == file.phdrs[at] IN
       IF p.vaddr >= size \/ p.vaddr + p.memsz > size THEN Unmapped
       ELSE /\ relro' = << base + p.vaddr, p.memsz >> /\ at' = at + 1
            /\ UNCHANGED << file, pc, base, size, mem, prot, wrprotect, unread >>
(* A header of another kind: where it lies is noted, nothing is loaded.     *)
LoadOther ==
  /\ pc = "load" /\ at <= Len(file.phdrs)
  /\ file.phdrs[at].type \notin {"LOAD", "GNU_RELRO"}
  /\ at' = at + 1
  /\ UNCHANGED << file, pc, base, size, mem, prot, wrprotect, relro, unread >>
LoadFails == pc = "load" /\ at <= Len(file.phdrs) /\ Unmapped

(* The sum of the segments may not exceed what was reserved, and           *)
(* link_image wants a dynamic section that is not all zeros.               *)
LoadDone ==
  /\ pc = "load" /\ at > Len(file.phdrs)
  /\ IF \/ MapThenSumSet(LAMBDA i : Up(Loads[i].vaddr + Loads[i].memsz)
                                     - Down(Loads[i].vaddr), DOMAIN Loads) > size
        \/ \A p \in ToSet(file.phdrs) :
             p.type = "DYNAMIC" => base + p.vaddr \in unread
     THEN Unmapped
     ELSE /\ pc' = "relocate" /\ at' = 1
          /\ UNCHANGED << file, base, size, mem, prot, wrprotect, relro, unread >>

(* reloc_library.  What a symbol stands for: a hook goes before everything *)
(* else, a weak reference that nobody defines is zero, or the place itself *)
(* where the relocation is relative to it.                                 *)
Known ==
  {"JUMP_SLOT", "GLOB_DAT", "ABS32", "RELATIVE"} \cup
  (IF file.arch = "arm" THEN {"REL32", "COPY", "NONE"} ELSE {"PC32"})
Place(r) == base + r.offset
Found(r) == r.sym = "" \/ r.sym \in DOMAIN Hooked \cup DOMAIN Defined
Resolved(r) ==
  \/ Found(r)
  \/ r.sym \in Weak /\ r.type \in Known \ {"COPY", "REL32"}
SymAddr(r) ==
  IF r.sym = "" THEN 0
  ELSE IF r.sym \in DOMAIN Hooked THEN Hooked[r.sym]
  ELSE IF r.sym \in DOMAIN Defined THEN Defined[r.sym]
  ELSE IF r.type = "PC32" THEN Place(r) ELSE 0
Applies(r) ==
  Resolved(r) /\ r.type \in Known /\ (r.type = "RELATIVE" => r.sym = "")

(* The word a relocation leaves.                                           *)
Value(r) ==
  LET old == mem[Place(r)]
  IN Word(CASE r.type \in {"JUMP_SLOT", "GLOB_DAT"} -> SymAddr(r)
            [] r.type = "ABS32"    -> old + SymAddr(r)
            [] r.type = "REL32"    -> old + SymAddr(r) - r.offset
            [] r.type = "PC32"     -> old + SymAddr(r) - Place(r)
            [] r.type = "RELATIVE" -> old + base
            [] r.type = "NONE"     -> old)

(* A COPY copies s->st_size words.  s is the definition that was looked up *)
(* for the relocation, NULL for one without a symbol; for one whose symbol *)
(* is hooked nothing is looked up and s is what an earlier relocation of   *)
(* the table left, or was never set.                                       *)
Setters ==
  { j \in (IF at <= Len(file.plt) THEN 1 ELSE Len(file.plt) + 1) .. at :
      Rels[j].sym \notin DOMAIN Hooked }
NeverSet == Setters = {}
IsNull == ~NeverSet /\ Rels[Max(Setters)].sym = ""
CopySizes ==
  IF NeverSet THEN 0 .. MaxCopy
  ELSE IF IsNull THEN {} ELSE {SymSize[Rels[Max(Setters)].sym]}
Copied(r, n) ==
  [x \in DOMAIN mem |->
     IF x \in Place(r) .. Place(r) + n - 1 THEN Foreign[SymAddr(r) + (x - Place(r))]
     ELSE mem[x]]

(* One relocation of the PLT's table or, after that, of the other; the     *)
(* first that cannot be applied ends the linking, and the image is         *)
(* unmapped with the ones before it applied.                               *)
Relocate ==
  /\ pc = "relocate" /\ at <= Len(Rels)
  /\ IF Applies(Rels[at])
     THEN /\ at' = at + 1
          /\ IF Rels[at].type = "COPY"
             THEN \E n \in CopySizes : mem' = Copied(Rels[at], n)
             ELSE mem' = [mem EXCEPT ![Place(Rels[at])] = Value(Rels[at])]
          /\ UNCHANGED << file, pc, base, size, prot, wrprotect, relro, unread >>
     ELSE Unmapped

(* The process dies of an s that points nowhere.                           *)
CopyCrashes ==
  /\ pc = "relocate" /\ at <= Len(Rels)
  /\ Applies(Rels[at]) /\ Rels[at].type = "COPY" /\ (NeverSet \/ IsNull)
  /\ pc' = "crashed"
  /\ UNCHANGED << file, base, size, mem, prot, at, wrprotect, relro, unread >>

(* The end of link_image: one range from the first to the last segment     *)
(* that is not writable becomes executable and read-only; the pages of     *)
(* GNU_RELRO are set to read and write.                                    *)
(* Mutant: the protection of the read-only range is forgotten.             *)
FinalForgotten ==
  [g \in DOMAIN prot |->
     IF relro # << >> /\ g \in Pages(Down(relro[1]), relro[1] + relro[2])
     THEN {"R", "W"} ELSE prot[g]]
Final ==
  [g \in DOMAIN prot |->
     IF relro # << >> /\ g \in Pages(Down(relro[1]), relro[1] + relro[2])
     THEN {"R", "W"}
     ELSE IF wrprotect # << >> /\ g \in Pages(wrprotect[1], wrprotect[2])
     THEN {"R", "X"} ELSE prot[g]]
Protect ==
  /\ pc = "relocate" /\ at > Len(Rels)
  /\ prot' = Final /\ pc' = "linked"
  /\ UNCHANGED << file, base, size, mem, at, wrprotect, relro, unread >>
ProtectFails ==
  pc = "relocate" /\ at > Len(Rels) /\ relro # << >> /\ Unmapped

Next ==
  \/ Reserve \/ ReserveFails \/ LoadSegment \/ LoadRelro \/ LoadOther \/ LoadFails \/ LoadDone
  \/ Relocate \/ CopyCrashes \/ Protect \/ ProtectFails

-----------------------------------------------------------------------------
(* A linked image holds, word by word, what the file and the ABI say: the  *)
(* file's word or, in the bss, zero, and where a relocation applies the    *)
(* value its type defines from the symbol, the addend, the place and the   *)
(* base, applied once; a COPY all words of its symbol.  A word that a      *)
(* short read did not deliver counts as zero.  Left out are REL32, which   *)
(* the code counts from the offset, and the words that a COPY against a    *)
(* hooked symbol may reach, with the size of another one.                  *)
FileWord(p, v) ==
  IF v < p.vaddr + p.filesz /\ base + v \notin unread
  THEN p.offset + (v - p.vaddr) + 1 ELSE 0
AbiWord(r, v, addend) ==
  LET S == SymAddr(r)
      P == Place(r)
  IN CASE r.type \in {"JUMP_SLOT", "GLOB_DAT"} -> S
       [] r.type = "ABS32"    -> S + addend
       [] r.type = "PC32"     -> (S + addend) - P
       [] r.type = "RELATIVE" -> base + addend
       [] r.type = "COPY"     -> Foreign[S + (v - r.offset)]
       [] OTHER               -> addend
StrayCopy(r) == r.type = "COPY" /\ r.sym \in DOMAIN Hooked \cup {""}
Reach(r) ==
  IF r.type # "COPY" THEN {r.offset}
  ELSE r.offset .. r.offset + (IF StrayCopy(r) THEN MaxCopy ELSE SymSize[r.sym]) - 1
ImageRight ==
  pc = "linked" =>
    \A p \in ToSet(Loads), v \in 0 .. size - 1 :
      LET here == { r \in ToSet(Rels) : v \in Reach(r) }
          word == mem[base + v]
      IN v \in p.vaddr .. p.vaddr + p.memsz - 1 =>
           IF here = {} THEN word = Word(FileWord(p, v))
           ELSE \A r \in here :
                  r.type # "REL32" /\ ~StrayCopy(r) =>
                    word = Word(AbiWord(r, v, FileWord(p, v)))

(* No step writes to a page that is not writable at that time; and where   *)
(* the segments that are not writable lie side by side, a linked image has *)
(* them executable and read-only and the others, but for GNU_RELRO, which  *)
(* RelroProtected is about, writable.                                      *)
RelroPages ==
  IF relro = << >> THEN {} ELSE Pages(Down(relro[1]), relro[1] + relro[2])
SideBySide ==
  \A p \in ToSet(Loads) : "W" \in p.flags /\ wrprotect # << >> =>
    FilePages(p) \cup BssPages(p) \subseteq DOMAIN prot \ Pages(wrprotect[1], wrprotect[2])
PagesRight ==
  /\ pc = "relocate" /\ at <= Len(Rels) /\ Applies(Rels[at]) =>
       \A v \in Reach(Rels[at]) : "W" \in prot[Down(base + v)]
  /\ pc = "linked" /\ SideBySide =>
       \A p \in ToSet(Loads) : \A g \in (FilePages(p) \cup BssPages(p)) \ RelroPages :
         IF "W" \in p.flags THEN {"R", "W"} \subseteq prot[g] ELSE prot[g] = {"R", "X"}

(* linker.c:1323-1326 and 1346-1349: link_image protects GNU_RELRO, so     *)
(* that a write would end in a fault.                                      *)
RelroProtected == pc = "linked" => \A g \in RelroPages : "W" \notin prot[g]
=============================================================================
