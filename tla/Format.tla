------------------------------- MODULE Format ------------------------------
(***************************************************************************)
(* linker_format.c: the linker's own printf, which makes the paths that    *)
(* open_library tries and the messages of dlerror.  The format is parsed   *)
(* character by character, and every piece of output goes to a bounded     *)
(* buffer or to a file descriptor.  Characters are one-character strings,  *)
(* a byte has `ByteBits` bits, and int, long and pointers have four bytes. *)
(***************************************************************************)
EXTENDS Integers, Sequences, FiniteSets, SequencesExt, FiniteSetsExt

CONSTANTS
  ByteBits,
  PadSize,   \* length of the pad buffer of out_send_repeat
  Calls,     \* what callers print: sequences of texts and directives
  Sizes,     \* sizes of the buffers they give
  Nul, Junk

VARIABLES
  items,     \* the call: what its format and arguments mean ...
  args,      \* ... the arguments not read yet
  sink,      \* "buffer" or "fd"
  size,      \* of the buffer
  pc,        \* "start", the part of the directive that is parsed, "done"
  nn,        \* position in the format
  padZero, padLeft, width, bytelen,
  queue,     \* pieces that out_vformat has handed to the sink
  buf, pos,  \* the buffer and where the next character goes
  file,      \* what reached the descriptor
  hole,      \* some write failed
  total

(* How a caller writes down what it means, and passes it.                  *)
Digit(d) == << "0", "1", "2", "3", "4", "5", "6", "7", "8", "9",
               "a", "b", "c", "d", "e", "f" >>[d + 1]
Upper(ch) == LET k == SelectInSeq(<< "a", "b", "c", "d", "e", "f" >>, LAMBDA x : x = ch)
             IN IF k = 0 THEN ch ELSE << "A", "B", "C", "D", "E", "F" >>[k]
Written(i) ==
  IF i.conv = "text" THEN i.arg
  ELSE << "%" >> \o (IF i.zero THEN << "0" >> ELSE << >>)
         \o (IF i.left THEN << "-" >> ELSE << >>)
         \o (IF i.width = -1 THEN << >>
             ELSE IF i.width < 10 THEN << Digit(i.width) >>
             ELSE << Digit(i.width \div 10), Digit(i.width % 10) >>)
         \o i.len \o << i.conv >>
format == FlattenSeq([k \in DOMAIN items |-> Written(items[k])])
Passed(call) == LET given == SelectSeq(call, LAMBDA i : i.conv # "text")
                IN [k \in DOMAIN given |-> given[k].arg]

(* format_number: digits from the last to the first, 0 has one; 32 bytes   *)
(* hold the digits of any 64-bit number.  format_integer puts the sign     *)
(* before them.                                                            *)
FormatNumber(value, base) ==
  LET digits[v \in Nat] ==
        IF v = 0 THEN << >> ELSE digits[v \div base] \o << Digit(v % base) >>
  IN IF value = 0 THEN << "0" >> ELSE digits[value]
FormatInteger(value, base) ==
  IF value < 0 THEN << "-" >> \o FormatNumber(-value, base) ELSE FormatNumber(value, base)

(* The argument as an integer of so many bytes, with its sign for d, i, o. *)
(* Mutant: the sign is looked for in an int whatever the length.           *)
ReadIntegerAsInt(c, arg) ==
  LET v == arg % 2^(ByteBits * bytelen)
  IN IF c \in {"d", "i", "o"} /\ v >= 2^(ByteBits * 4 - 1) THEN v - 2^(ByteBits * bytelen)
     ELSE v
ReadInteger(c, arg) ==
  LET bits == ByteBits * bytelen
      v    == arg % 2^bits
  IN IF c \in {"d", "i", "o"} /\ v >= 2^(bits - 1) THEN v - 2^bits ELSE v

(* The text of one argument; a specifier that is not known reads an        *)
(* integer and prints nothing.                                             *)
Str(c, arg) ==
  CASE c = "s" -> arg
    [] c = "c" -> << arg >>
    [] c = "p" -> << "0", "x" >> \o FormatNumber(arg, 16)
    [] c \in {"d", "i"} -> FormatInteger(ReadInteger(c, arg), 10)
    [] c = "o" -> FormatInteger(ReadInteger(c, arg), 8)
    [] c = "x" -> FormatNumber(ReadInteger(c, arg), 16)
    [] c = "X" -> [k \in DOMAIN FormatNumber(ReadInteger(c, arg), 16) |->
                     Upper(FormatNumber(ReadInteger(c, arg), 16)[k])]
    [] OTHER -> << >>

(* out_send_repeat: so many of one character, PadSize at a time.           *)
OutSendRepeat(ch, count) ==
  IF count <= 0 THEN << >>
  ELSE [k \in 1 .. (count + PadSize - 1) \div PadSize |->
          [j \in 1 .. Min({PadSize, count - (k - 1) * PadSize}) |-> ch]]

-----------------------------------------------------------------------------
sinkVars  == << buf, pos, file, hole, total >>
parseVars == << nn, padZero, padLeft, width, bytelen >>
callVars  == << items, args, sink, size >>

Init ==
  /\ items \in Calls /\ args = Passed(items)
  /\ sink \in {"buffer", "fd"} /\ size \in Sizes
  /\ sink = "fd" => \A s \in Sizes : size <= s
  /\ pc = "start" /\ nn = 1 /\ queue = << >>
  /\ padZero = FALSE /\ padLeft = FALSE /\ width = -1 /\ bytelen = 4
  /\ buf = [k \in 0 .. size - 1 |-> Junk] /\ pos = 0
  /\ file = << >> /\ hole = FALSE /\ total = 0

(* buf_out_init, fd_out_init: without a buffer nothing is printed.         *)
OutInit ==
  /\ pc = "start"
  /\ IF sink = "buffer" /\ size = 0 THEN pc' = "done" /\ UNCHANGED buf
     ELSE /\ pc' = "text"
          /\ buf' = IF sink = "buffer" THEN [buf EXCEPT ![0] = Nul] ELSE buf
  /\ UNCHANGED << callVars, parseVars, queue, pos, file, hole, total >>

(* Room left in the buffer.  Mutant: the last byte is not kept for the end *)
(* of the string.                                                          *)
RoomWhole == size - pos
Room == size - 1 - pos

(* buf_out_send: what fits is copied and terminated, all of it counted.    *)
BufOutSend ==
  /\ queue # << >> /\ sink = "buffer"
  /\ LET n == Min({Room, Len(Head(queue))}) IN
       /\ buf' = [k \in DOMAIN buf |->
                    IF k \in pos .. pos + n - 1 THEN Head(queue)[k - pos + 1]
                    ELSE IF n > 0 /\ k = pos + n THEN Nul ELSE buf[k]]
       /\ pos' = pos + n
  /\ total' = total + Len(Head(queue)) /\ queue' = Tail(queue)
  /\ UNCHANGED << callVars, parseVars, pc, file, hole >>

(* fd_out_send: write takes a part of the piece, and the rest is tried     *)
(* again; a call that was interrupted changes nothing; another error drops *)
(* the rest of the piece, but not the pieces that follow.                  *)
FdWrite ==
  /\ queue # << >> /\ sink = "fd"
  /\ \E n \in 1 .. Len(Head(queue)) :
       /\ file' = file \o SubSeq(Head(queue), 1, n) /\ total' = total + n
       /\ queue' = IF n = Len(Head(queue)) THEN Tail(queue)
                   ELSE << SubSeq(Head(queue), n + 1, Len(Head(queue))) >> \o Tail(queue)
  /\ UNCHANGED << callVars, parseVars, pc, buf, pos, hole >>
FdError ==
  /\ queue # << >> /\ sink = "fd"
  /\ queue' = Tail(queue) /\ hole' = TRUE
  /\ UNCHANGED << callVars, parseVars, pc, buf, pos, file, total >>

-----------------------------------------------------------------------------
(* out_vformat.  Up to the next directive, or to the end.                  *)
Parses(at) == pc = at /\ queue = << >> /\ UNCHANGED << items, sink, size, sinkVars >>
c == format[nn]

Text ==
  /\ Parses("text")
  /\ LET rest == SubSeq(format, nn, Len(format))
         k    == SelectInSeq(rest, LAMBDA ch : ch = "%")
         n    == IF k = 0 THEN Len(rest) ELSE k - 1
     IN /\ queue' = IF n = 0 THEN << >> ELSE << SubSeq(rest, 1, n) >>
        /\ nn' = nn + n + 1 /\ pc' = IF k = 0 THEN "done" ELSE "flags"
  /\ padZero' = FALSE /\ padLeft' = FALSE /\ width' = -1 /\ bytelen' = 4
  /\ UNCHANGED args

(* The flags; a % that ends the format is printed.                         *)
Flag ==
  /\ Parses("flags") /\ nn <= Len(format) /\ c \in {"0", "-", " ", "+"}
  /\ padZero' = (padZero \/ c = "0") /\ padLeft' = (padLeft \/ c = "-")
  /\ nn' = nn + 1 /\ UNCHANGED << args, pc, width, bytelen, queue >>
LonePercent ==
  /\ Parses("flags") /\ nn > Len(format)
  /\ queue' = << << "%" >> >> /\ pc' = "done" /\ UNCHANGED << args, parseVars >>
FlagsEnd ==
  /\ Parses("flags") /\ nn <= Len(format) /\ c \notin {"0", "-", " ", "+"}
  /\ pc' = "width" /\ UNCHANGED << args, parseVars, queue >>

(* The width, with parse_decimal; then the point of a precision, whose     *)
(* digits are not read: the first one is taken for the specifier.          *)
DigitOf(ch) == SelectInSeq([d \in 1 .. 10 |-> Digit(d - 1)], LAMBDA x : x = ch) - 1
WidthDigit ==
  /\ Parses("width") /\ DigitOf(c) >= 0
  /\ width' = (IF width = -1 THEN 0 ELSE width) * 10 + DigitOf(c)
  /\ nn' = nn + 1 /\ UNCHANGED << args, pc, padZero, padLeft, bytelen, queue >>
WidthEnd ==
  /\ Parses("width") /\ DigitOf(c) < 0
  /\ nn' = IF c = "." THEN nn + 1 ELSE nn
  /\ pc' = "length" /\ UNCHANGED << args, padZero, padLeft, width, bytelen, queue >>

(* The length modifier: h, hh, l, ll, z, t.                                *)
Length ==
  /\ Parses("length")
  /\ LET twice == c \in {"h", "l"} /\ format[nn + 1] = c IN
       /\ bytelen' = CASE c = "h" -> IF twice THEN 1 ELSE 2
                       [] c = "l" -> IF twice THEN 8 ELSE 4
                       [] OTHER   -> 4
       /\ nn' = IF twice THEN nn + 2 ELSE IF c \in {"h", "l", "z", "t"} THEN nn + 1 ELSE nn
  /\ pc' = "convert" /\ UNCHANGED << args, padZero, padLeft, width, queue >>

(* The specifier: the argument is read and sent with its padding.          *)
Convert ==
  /\ Parses("convert")
  /\ LET str == Str(c, Head(args))
         pad == OutSendRepeat(IF padZero THEN "0" ELSE " ", width - Len(str))
     IN queue' = (IF padLeft THEN << >> ELSE pad)
                   \o (IF str = << >> THEN << >> ELSE << str >>)
                   \o (IF padLeft THEN pad ELSE << >>)
  /\ args' = Tail(args) /\ nn' = nn + 1 /\ pc' = "text"
  /\ UNCHANGED << padZero, padLeft, width, bytelen >>

Next ==
  \/ OutInit \/ BufOutSend \/ FdWrite \/ FdError
  \/ Text \/ Flag \/ LonePercent \/ FlagsEnd \/ WidthDigit \/ WidthEnd \/ Length \/ Convert

-----------------------------------------------------------------------------
(* What C says the directives print that this printf is meant to know.     *)
Bits(i) == ByteBits * (CASE i.len = << "h" >> -> 2 [] i.len = << "h", "h" >> -> 1
                         [] i.len = << "l", "l" >> -> 8 [] OTHER -> 4)
Meant(i) ==
  LET bits == Bits(i)
  IN IF i.conv \in {"d", "i"}
     THEN CHOOSE x \in -(2^(bits - 1)) .. 2^(bits - 1) - 1 : (x - i.arg) % 2^bits = 0
     ELSE i.arg % 2^bits
Numeral(v, base) ==
  LET n == CHOOSE k \in 1 .. 64 : v < base^k /\ (k = 1 \/ v >= base^(k - 1))
  IN [k \in 1 .. n |-> Digit((v \div base^(n - k)) % base)]
Body(i) ==
  LET v == Meant(i)
      n == Numeral(IF v < 0 THEN -v ELSE v,
                   IF i.conv \in {"d", "i"} THEN 10 ELSE IF i.conv = "o" THEN 8 ELSE 16)
  IN CASE i.conv \in {"text", "s"} -> i.arg
       [] i.conv = "c" -> << i.arg >>
       [] i.conv = "p" -> << "0", "x" >> \o n
       [] i.conv = "X" -> [k \in DOMAIN n |-> Upper(n[k])]
       [] OTHER -> (IF v < 0 THEN << "-" >> ELSE << >>) \o n
Expected(i) ==
  LET body == Body(i)
      pad  == [k \in 1 .. Max({0, i.width - Len(body)}) |-> IF i.zero THEN "0" ELSE " "]
  IN IF i.left THEN body \o pad ELSE pad \o body
Known(i) ==
  /\ i.conv \in {"text", "s", "c", "p", "d", "i", "x", "X", "o"}
  /\ i.zero => ~i.left /\ i.conv \in {"d", "i", "x", "X"} /\ Meant(i) >= 0
  /\ i.conv = "o" => Meant(i) < 2^(Bits(i) - 1)
FullText == FlattenSeq([k \in DOMAIN items |-> Expected(items[k])])

(* A buffer is terminated at every moment, never written past its end and, *)
(* after a call with known directives, holds as much of the text as fits,  *)
(* while the answer is the length of all of it: so the callers see from an *)
(* answer of at least `size` that the text was cut.  A descriptor gets the *)
(* text, in order, and the answer is the length of what got through.       *)
FormatRight ==
  /\ sink = "buffer" /\ size > 0 /\ pc # "start" =>
       /\ pos < size /\ buf[pos] = Nul
       /\ \A k \in pos + 1 .. size - 1 : buf[k] = Junk
  /\ sink = "fd" => total = Len(file)
  /\ pc = "done" /\ queue = << >> /\ (\A k \in DOMAIN items : Known(items[k])) =>
       CASE sink = "fd" -> hole \/ file = FullText
         [] size = 0    -> total = 0
         [] OTHER       -> /\ total = Len(FullText)
                           /\ pos = Min({size - 1, total})
                           /\ \A k \in 0 .. pos - 1 : buf[k] = FullText[k + 1]
=============================================================================
