-------------------------------- MODULE Layer --------------------------------
(***************************************************************************)
(* The rest of the layer beside the services: the parts that compute an    *)
(* answer from tables or from a file, which are error numbers, socket      *)
(* numbers, symbols, the image of a library and formatted text.  Like the  *)
(* services they share no state, so a behaviour exercises one subject; the *)
(* variables of the other parts stay Idle, those of the services where     *)
(* they start.                                                             *)
(***************************************************************************)
EXTENDS Services

CONSTANTS     (* the parts' own modules say what each of them is             *)
  Idle,
  Created, Foreign, Failing, NoCell, Nothing,
  Libs, List, Wanted, SymbolTables, Buckets, ImageSize, NoLib,
  Page, AddressBits, Files, Bases, Hooked, Defined, Weak, SymSize, Outside,
  MaxCopy, Missing,
  ByteBits, PadSize, Calls, Sizes, Nul, Junk

VARIABLES
  os, native, cell, dummy, owed, seen,
  net, sockCall, wanted, got,
  hash, lib, main, preloads, lookupCall, found,
  elf, imagePc, base, imageSize, mem, prot, at, wrprotect, relro, unread,
  pieces, args, sink, bufSize, pc, nn, padZero, padLeft, width, bytelen,
  queue, buf, pos, file, hole, total

Er == INSTANCE Errno
So == INSTANCE Sockets WITH call <- sockCall
Sy == INSTANCE SymbolLookup WITH Tables <- SymbolTables, call <- lookupCall
Im == INSTANCE Image WITH Foreign <- Outside, Width <- AddressBits, file <- elf,
        pc <- imagePc, size <- imageSize
Fo == INSTANCE Format WITH size <- bufSize, items <- pieces

errnoVars  == << os, native, cell, dummy, owed, seen >>
socketVars == << net, sockCall, wanted, got >>
lookupVars == << hash, lib, main, preloads, lookupCall, found >>
imageVars  == << elf, imagePc, base, imageSize, mem, prot, at, wrprotect,
                 relro, unread >>
formatVars == << pieces, args, sink, bufSize, pc, nn, padZero, padLeft, width,
                 bytelen, queue, buf, pos, file, hole, total >>
serviceVars ==
  << condVars, lifeVars, futexVars, exitVars, keyVars, hookVars >>
layerVars ==
  << subject, serviceVars, errnoVars, socketVars, lookupVars, imageVars, formatVars >>

NoErrno ==
  os = Idle /\ native = Idle /\ cell = Idle /\ dummy = Idle /\ owed = Idle /\ seen = Idle
NoSockets == net = Idle /\ sockCall = Idle /\ wanted = Idle /\ got = Idle
NoLookup ==
  /\ hash = Idle /\ lib = Idle /\ main = Idle /\ preloads = Idle
  /\ lookupCall = Idle /\ found = Idle
NoImage ==
  /\ elf = Idle /\ imagePc = Idle /\ base = Idle /\ imageSize = Idle
  /\ mem = Idle /\ prot = Idle /\ at = Idle /\ wrprotect = Idle /\ relro = Idle
  /\ unread = Idle
NoFormat ==
  /\ pieces = Idle /\ args = Idle /\ sink = Idle /\ bufSize = Idle /\ pc = Idle
  /\ nn = Idle /\ padZero = Idle /\ padLeft = Idle /\ width = Idle /\ bytelen = Idle
  /\ queue = Idle /\ buf = Idle /\ pos = Idle /\ file = Idle /\ hole = Idle /\ total = Idle

(* The services where they start, while another part is the subject.       *)
Services0 ==
  /\ Co!Init /\ Th!Init /\ Fu!Init /\ At!Init /\ Ke!Init /\ Ho!Init
  /\ platform = "linux" /\ leaked = {}

LayerInit ==
  \/ Init /\ NoErrno /\ NoSockets /\ NoLookup /\ NoImage /\ NoFormat
  \/ /\ Services0
     /\ \/ subject = "errno" /\ Er!Init /\ NoSockets /\ NoLookup /\ NoImage /\ NoFormat
        \/ subject = "sockets" /\ So!Init /\ NoErrno /\ NoLookup /\ NoImage /\ NoFormat
        \/ subject = "lookup" /\ Sy!Init /\ NoErrno /\ NoSockets /\ NoImage /\ NoFormat
        \/ subject = "image" /\ Im!Init /\ NoErrno /\ NoSockets /\ NoLookup /\ NoFormat
        \/ subject = "format" /\ Fo!Init /\ NoErrno /\ NoSockets /\ NoLookup /\ NoImage

ServicesNext ==
  /\ Next
  /\ UNCHANGED << errnoVars, socketVars, lookupVars, imageVars, formatVars >>
ErrnoNext ==
  /\ subject = "errno" /\ Er!Next
  /\ UNCHANGED << subject, serviceVars, socketVars, lookupVars, imageVars, formatVars >>
SocketsNext ==
  /\ subject = "sockets" /\ So!Next
  /\ UNCHANGED << subject, serviceVars, errnoVars, lookupVars, imageVars, formatVars >>
LookupNext ==
  /\ subject = "lookup" /\ Sy!Next
  /\ UNCHANGED << subject, serviceVars, errnoVars, socketVars, imageVars, formatVars >>
ImageNext ==
  /\ subject = "image" /\ Im!Next
  /\ UNCHANGED << subject, serviceVars, errnoVars, socketVars, lookupVars, formatVars >>
FormatNext ==
  /\ subject = "format" /\ Fo!Next
  /\ UNCHANGED << subject, serviceVars, errnoVars, socketVars, lookupVars, imageVars >>

LayerNext ==
  ServicesNext \/ ErrnoNext \/ SocketsNext \/ LookupNext \/ ImageNext \/ FormatNext

LayerSpec == LayerInit /\ [][LayerNext]_layerVars
LayerFair ==
  LayerSpec /\ \A t \in Threads :
    WF_layerVars(/\ CondInside(t)
                 /\ UNCHANGED << errnoVars, socketVars, lookupVars, imageVars, formatVars >>)

(* The image alone.                                                        *)
ImageSpec == LayerInit /\ subject = "image" /\ [][LayerNext]_layerVars

-----------------------------------------------------------------------------
(* errno: a thread of the program reads the Android number of the last     *)
(* error of its own, and the tables lose nothing.                          *)
ErrnoRight == subject = "errno" => Er!ErrnoRight

(* Sockets: the host and the program are told what the other one meant.    *)
SocketsRight == subject = "sockets" => So!SocketsRight

(* Symbols: found exactly if defined in the scope, and found back from the *)
(* address.                                                                *)
LookupRight == subject = "lookup" => Sy!LookupRight

(* Images: each word of a linked image is what the ABI says of the file,   *)
(* as far as it was read, and of the symbols.                              *)
ImageRight == subject = "image" => Im!ImageRight

(* Images: no relocation writes to a page that is read-only, and but for   *)
(* GNU_RELRO what must not be written is read-only in the end.             *)
PagesRight == subject = "image" => Im!PagesRight

(* Images: what linker.c:1323-1326 and 1346-1349 say, that link_image      *)
(* protects the pages of GNU_RELRO.                                        *)
RelroProtected == subject = "image" => Im!RelroProtected

(* Formatted output: the buffer is kept, the text and its length are right. *)
FormatRight == subject = "format" => Fo!FormatRight
=============================================================================
