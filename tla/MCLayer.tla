--------------------------- MODULE MCLayer ------------------------------
(***************************************************************************)
(* Instances of Layer for TLC: symbol tables, library files and calls of   *)
(* the formatter that meet each case of the code.                          *)
(***************************************************************************)
EXTENDS Layer, Sequences

CONSTANTS t1, h1, l1, l2, l3, l4

(* Four libraries; the second may be preloaded, the third is the           *)
(* executable or failed to link, the first needs the fourth.               *)
MCList == << l1, l2, l3, l4 >>
Sym(n, bind, defined, v) ==
  [name |-> n, bind |-> bind, defined |-> defined, value |-> v,
   size |-> IF v = 4 THEN 0 ELSE 2]
MCTables ==
  { << Sym("x", "global", TRUE, 0), Sym("y", "global", FALSE, 0) >>,
    << Sym("x", "local", TRUE, 0), Sym("y", "global", TRUE, 2) >>,
    << Sym("y", "weak", TRUE, 0), Sym("x", "weak", TRUE, 4) >> }

(* Files: two segments with bss and GNU_RELRO; one segment; a writable one *)
(* between two that are not; and files that are refused.                   *)
Header(t, v, o, f, m, fl) ==
  [type |-> t, vaddr |-> v, offset |-> o, filesz |-> f, memsz |-> m, flags |-> fl]
Rel(o, t, s) == [offset |-> o, type |-> t, sym |-> s]
RX == {"R", "X"}
RW == {"R", "W"}
TwoSegments ==
  << Header("LOAD", 0, 0, 6, 6, RX), Header("LOAD", 10, 6, 3, 9, RW),
     Header("DYNAMIC", 10, 6, 1, 1, RW), Header("GNU_RELRO", 10, 6, 2, 2, {"R"}) >>
OneSegment ==
  << Header("LOAD", 0, 0, 6, 10, {"R", "W", "X"}), Header("DYNAMIC", 2, 2, 1, 1, RW) >>
Sandwich ==
  << Header("LOAD", 0, 0, 3, 3, RX), Header("LOAD", 4, 4, 3, 3, RW),
     Header("LOAD", 8, 8, 2, 2, {"R"}), Header("DYNAMIC", 6, 6, 1, 1, RW) >>
(* Headers, and three places that relocations may change.                  *)
Layouts ==
  { << TwoSegments, 11, 3, 14 >>, << OneSegment, 1, 8, 4 >>, << Sandwich, 5, 2, 8 >> }
RelTypes ==
  {"JUMP_SLOT", "GLOB_DAT", "ABS32", "RELATIVE", "REL32", "COPY", "NONE", "PC32"}
Names == {"hook", "def", "weak", "none"}
File(arch, prelink, phdrs, plt, rel) ==
  [arch |-> arch, prelink |-> prelink, phdrs |-> phdrs, plt |-> plt, rel |-> rel]
MCFiles ==
  { File(a, 0, l[1], << Rel(l[2], "JUMP_SLOT", "def") >>, << Rel(l[3], t, n) >>) :
      a \in {"arm", "x86"}, l \in Layouts, t \in RelTypes, n \in Names \cup {""} }
  \cup { File(a, 0, l[1], << Rel(l[2], "JUMP_SLOT", n) >>, << Rel(l[3], "RELATIVE", "") >>) :
           a \in {"arm", "x86"}, l \in Layouts, n \in Names }
  \* A COPY after a relocation of the same table that looked a symbol up.
  \cup { File("arm", 0, l[1], << >>, << Rel(l[3], r[1], r[2]), Rel(l[4], "COPY", n) >>) :
           l \in Layouts, n \in {"hook", "def", ""},
           r \in { << "GLOB_DAT", "def" >>, << "GLOB_DAT", "weak" >>,
                   << "GLOB_DAT", "hook" >>, << "RELATIVE", "" >> } }
  \cup { File("arm", 24, l[1], << >>, << >>) : l \in Layouts }
  \cup { File("arm", 0, h, << >>, << >>) : h \in
           { << >>, << Header("LOAD", 0, 0, 4, 4, RW) >>,
             << Header("LOAD", 0, 0, 4, 4, RW), Header("GNU_RELRO", 2, 2, 4, 4, {"R"}) >>,
             << Header("LOAD", 0, 0, 2, 2, RW), Header("LOAD", 2, 2, 2, 2, RW),
                Header("DYNAMIC", 0, 0, 1, 1, RW) >> } }
MCHooked  == [hook |-> 50]
MCDefined == [def |-> 41, hook |-> 42]
MCSymSize == [def |-> 2, weak |-> 1]
MCOutside == 41 :> 7 @@ 42 :> 9 @@ 50 :> 11 @@ 51 :> 13

(* Calls: each specifier with each length and with widths, alone and       *)
(* between texts; the path of open_library; what the formatter does not    *)
(* know, %% and %u among it.                                               *)
Dir(zero, left, wid, len, conv, arg) ==
  [zero |-> zero, left |-> left, width |-> wid, len |-> len, conv |-> conv, arg |-> arg]
Plain(len, conv, arg) == Dir(FALSE, FALSE, -1, len, conv, arg)
Txt(s) == Plain(<< >>, "text", s)
AB == << "a", "b" >>
Numbers == {0, 1, 8, 9, 127, 128, 255}
Directives ==
  { Dir(FALSE, l, w, << >>, "s", s) : l \in BOOLEAN, w \in {-1, 5},
      s \in {<< >>, << "a", "b", "c" >>} }
  \cup { Plain(<< >>, "c", "z"), Plain(<< >>, "%", 0), Plain(<< >>, "u", 3),
         Dir(TRUE, TRUE, 4, << >>, "d", 3), Dir(TRUE, FALSE, 5, << >>, "d", 255) }
  \cup { Dir(FALSE, l, w, << >>, "d", n) : l \in BOOLEAN, w \in {-1, 7}, n \in Numbers }
  \cup { Plain(n, v, k) : n \in {<< >>, << "h" >>, << "h", "h" >>, << "l" >>, << "z" >>, << "t" >>},
           v \in {"d", "x", "i", "X", "o"}, k \in Numbers }
  \cup { Dir(TRUE, FALSE, 11, n, "x", k) : n \in {<< >>, << "l", "l" >>}, k \in Numbers }
  \cup { Plain(<< "l", "l" >>, v, k) : v \in {"d", "x", "o"}, k \in {0, 255, 32767, 32768, 65535} }
  \cup { Plain(<< >>, "p", k) : k \in {0, 171} }
  \cup { Dir(TRUE, FALSE, 3, << >>, "d", k) : k \in {0, 5, 99} }
MCCalls ==
  { << d >> : d \in Directives } \cup { << Txt(AB), d, Txt(<< "c" >>) >> : d \in Directives }
  \cup { << >>, << Txt(AB) >>, << Txt(<< "a", "%" >>) >>,
         << Plain(<< >>, "s", AB), Txt(<< "/" >>), Plain(<< >>, "s", AB) >> }
=============================================================================
