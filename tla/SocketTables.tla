---------------------------- MODULE SocketTables ---------------------------
(***************************************************************************)
(* android_socket.c: the chains of #ifdef that translate the numbers of    *)
(* sockets by name, with the numbers of android_socket.h.  A host is the   *)
(* function from the names it defines to its own numbers.                  *)
(***************************************************************************)
EXTENDS Integers, Sequences, FiniteSets, SequencesExt, FiniteSetsExt

AfRows ==
  << <<"AF_UNSPEC", 0>>, <<"AF_UNIX", 1>>, <<"AF_LOCAL", 1>>, <<"AF_INET", 2>>,
     <<"AF_AX25", 3>>, <<"AF_IPX", 4>>, <<"AF_APPLETALK", 5>>,
     <<"AF_NETROM", 6>>, <<"AF_BRIDGE", 7>>, <<"AF_ATMPVC", 8>>,
     <<"AF_X25", 9>>, <<"AF_INET6", 10>>, <<"AF_ROSE", 11>>,
     <<"AF_DECnet", 12>>, <<"AF_NETBEUI", 13>>, <<"AF_SECURITY", 14>>,
     <<"AF_KEY", 15>>, <<"AF_NETLINK", 16>>, <<"AF_ROUTE", 16>>,
     <<"AF_PACKET", 17>>, <<"AF_ASH", 18>>, <<"AF_ECONET", 19>>,
     <<"AF_ATMSVC", 20>>, <<"AF_SNA", 22>>, <<"AF_IRDA", 23>>,
     <<"AF_PPPOX", 24>>, <<"AF_WANPIPE", 25>>, <<"AF_LLC", 26>>,
     <<"AF_TIPC", 30>>, <<"AF_BLUETOOTH", 31>>, <<"AF_CAIF", 38>> >>
(* af_to_android has the same rows.                                        *)
AfBackRows == AfRows
SockRows ==
  << <<"SOCK_STREAM", 1>>, <<"SOCK_DGRAM", 2>>, <<"SOCK_RAW", 3>>,
     <<"SOCK_RDM", 4>>, <<"SOCK_SEQPACKET", 5>>, <<"SOCK_PACKET", 10>> >>
SockBackRows == SockRows
IpprotoRows ==
  << <<"IPPROTO_IP", 0>>, <<"IPPROTO_ICMP", 1>>, <<"IPPROTO_IGMP", 2>>,
     <<"IPPROTO_IPIP", 4>>, <<"IPPROTO_TCP", 6>>, <<"IPPROTO_EGP", 8>>,
     <<"IPPROTO_PUP", 12>>, <<"IPPROTO_UDP", 17>>, <<"IPPROTO_IDP", 22>>,
     <<"IPPROTO_DCCP", 33>>, <<"IPPROTO_RSVP", 46>>, <<"IPPROTO_GRE", 47>>,
     <<"IPPROTO_IPV6", 41>>, <<"IPPROTO_ESP", 50>>, <<"IPPROTO_AH", 51>>,
     <<"IPPROTO_PIM", 103>>, <<"IPPROTO_COMP", 108>>, <<"IPPROTO_SCTP", 132>>,
     <<"IPPROTO_RAW", 255>> >>
IpprotoBackRows == IpprotoRows
SoRows ==
  << <<"SO_DEBUG", 1>>, <<"SO_REUSEADDR", 2>>, <<"SO_TYPE", 3>>,
     <<"SO_ERROR", 4>>, <<"SO_DONTROUTE", 5>>, <<"SO_BROADCAST", 6>>,
     <<"SO_SNDBUF", 7>>, <<"SO_RCVBUF", 8>>, <<"SO_SNDBUFFORCE", 32>>,
     <<"SO_RCVBUFFORCE", 33>>, <<"SO_KEEPALIVE", 9>>, <<"SO_OOBINLINE", 10>>,
     <<"SO_NO_CHECK", 11>>, <<"SO_PRIORITY", 12>>, <<"SO_LINGER", 13>>,
     <<"SO_BSDCOMPAT", 14>>, <<"SO_PASSCRED", 16>>, <<"SO_PEERCRED", 17>>,
     <<"SO_RCVLOWAT", 18>>, <<"SO_SNDLOWAT", 19>>, <<"SO_RCVTIMEO", 20>>,
     <<"SO_SNDTIMEO", 21>>, <<"SO_SECURITY_AUTHENTICATION", 22>>,
     <<"SO_SECURITY_ENCRYPTION_TRANSPORT", 23>>,
     <<"SO_SECURITY_ENCRYPTION_NETWORK", 24>>, <<"SO_BINDTODEVICE", 25>>,
     <<"SO_ATTACH_FILTER", 26>>, <<"SO_DETACH_FILTER", 27>>,
     <<"SO_PEERNAME", 28>>, <<"SO_TIMESTAMP", 29>>, <<"SO_TIMESTAMPNS", 35>>,
     <<"SO_ACCEPTCONN", 30>>, <<"SO_PEERSEC", 31>>, <<"SO_PASSSEC", 34>> >>
SolRows ==
  << <<"SOL_IP", 0>>, <<"SOL_SOCKET", 1>>, <<"SOL_TCP", 6>>, <<"SOL_UDP", 17>>,
     <<"SOL_IPV6", 41>>, <<"SOL_ICMPV6", 58>>, <<"SOL_SCTP", 132>>,
     <<"SOL_RAW", 255>>, <<"SOL_IPX", 256>>, <<"SOL_AX25", 257>>,
     <<"SOL_ATALK", 258>>, <<"SOL_NETROM", 259>>, <<"SOL_ROSE", 260>>,
     <<"SOL_DECNET", 261>>, <<"SOL_X25", 262>>, <<"SOL_PACKET", 263>>,
     <<"SOL_ATM", 264>>, <<"SOL_AAL", 265>>, <<"SOL_IRDA", 266>>,
     <<"SOL_NETBEUI", 267>>, <<"SOL_LLC", 268>>, <<"SOL_DCCP", 269>>,
     <<"SOL_NETLINK", 270>>, <<"SOL_TIPC", 271>> >>
MsgRows ==
  << <<"MSG_OOB", 1>>, <<"MSG_PEEK", 2>>, <<"MSG_DONTROUTE", 4>>,
     <<"MSG_TRYHARD", 4>>, <<"MSG_CTRUNC", 8>>, <<"MSG_PROBE", 16>>,
     <<"MSG_TRUNC", 32>>, <<"MSG_DONTWAIT", 64>>, <<"MSG_EOR", 128>>,
     <<"MSG_WAITALL", 256>>, <<"MSG_FIN", 512>>, <<"MSG_SYN", 1024>>,
     <<"MSG_CONFIRM", 2048>>, <<"MSG_RST", 4096>>, <<"MSG_ERRQUEUE", 8192>>,
     <<"MSG_NOSIGNAL", 16384>>, <<"MSG_MORE", 32768>> >>

(* Hosts.  The headers android_socket.c includes on Linux define all names *)
(* but these, with the same numbers; Winsock defines few, some with        *)
(* numbers of its own.                                                     *)
NotOnLinux ==
  {"SOL_TCP", "SOL_UDP", "SOL_SCTP", "SOL_IPX", "SOL_AX25", "SOL_ATALK",
   "SOL_NETROM", "SOL_ROSE", "MSG_PROBE"}
AllRows == AfRows \o SockRows \o IpprotoRows \o SoRows \o SolRows \o MsgRows
Linux ==
  [n \in { r[1] : r \in ToSet(AllRows) } \ NotOnLinux |->
     (CHOOSE r \in ToSet(AllRows) : r[1] = n)[2]]
Winsock ==
  [AF_UNSPEC |-> 0, AF_UNIX |-> 1, AF_INET |-> 2, AF_IPX |-> 6, AF_SNA |-> 11,
   AF_DECnet |-> 12, AF_APPLETALK |-> 16, AF_INET6 |-> 23, AF_IRDA |-> 26,
   AF_BLUETOOTH |-> 32, SOCK_STREAM |-> 1, SOCK_DGRAM |-> 2, SOCK_RAW |-> 3,
   SOCK_RDM |-> 4, SOCK_SEQPACKET |-> 5, IPPROTO_IP |-> 0, IPPROTO_ICMP |-> 1,
   IPPROTO_TCP |-> 6, IPPROTO_UDP |-> 17, IPPROTO_RAW |-> 255,
   SO_DEBUG |-> 1, SO_ACCEPTCONN |-> 2, SO_REUSEADDR |-> 4, SO_KEEPALIVE |-> 8,
   SO_DONTROUTE |-> 16, SO_BROADCAST |-> 32, SO_LINGER |-> 128,
   SO_OOBINLINE |-> 256, SO_SNDBUF |-> 4097, SO_RCVBUF |-> 4098,
   SO_SNDLOWAT |-> 4099, SO_RCVLOWAT |-> 4100, SO_SNDTIMEO |-> 4101,
   SO_RCVTIMEO |-> 4102, SO_ERROR |-> 4103, SO_TYPE |-> 4104,
   SOL_SOCKET |-> 65535, MSG_OOB |-> 1, MSG_PEEK |-> 2, MSG_DONTROUTE |-> 4,
   MSG_WAITALL |-> 8]
Nets == [linux |-> Linux, windows |-> Winsock]

(* Mutant: a family the host gave goes through as it is.                   *)
ToAndroidAsIs(rows, h, no) == no

(* The first row that the host defines and whose number it is; -1 without. *)
ToNative(rows, h, no) ==
  LET k == SelectInSeq(rows, LAMBDA r : r[1] \in DOMAIN h /\ r[2] = no)
  IN IF k = 0 THEN -1 ELSE h[rows[k][1]]
ToAndroid(rows, h, no) ==
  LET k == SelectInSeq(rows, LAMBDA r : r[1] \in DOMAIN h /\ h[r[1]] = no)
  IN IF k = 0 THEN -1 ELSE rows[k][2]

(* msg_to_native, flag words as sets of one-bit numbers: every row that    *)
(* the host defines is tried.                                              *)
MsgToNative(h, bits) ==
  { h[r[1]] : r \in { x \in ToSet(MsgRows) : x[1] \in DOMAIN h /\ x[2] \in bits } }

Number(rows, n) == (CHOOSE r \in ToSet(rows) : r[1] = n)[2]
Names(rows) == { r[1] : r \in ToSet(rows) }

(* What a host may be told for a name: its number for it or for another    *)
(* name of the same meaning, if it has one.                                *)
SameMeaning(m, n) ==
  \E rows \in {AfRows, SockRows, IpprotoRows, SoRows, SolRows, MsgRows} :
    {m, n} \subseteq Names(rows) /\ Number(rows, m) = Number(rows, n)
HostNumbers ==
  [o \in DOMAIN Nets |->
     [n \in Names(AllRows) |->
        { Nets[o][m] : m \in { x \in DOMAIN Nets[o] : SameMeaning(x, n) } }]]

(* The way back of each chain that has one undoes the way there.           *)
BackRight ==
  \A o \in DOMAIN Nets : LET h == Nets[o] IN
    \A rows \in { << AfRows, AfBackRows >>, << SockRows, SockBackRows >>,
                  << IpprotoRows, IpprotoBackRows >> } :
      \A n \in Names(rows[1]) \cap DOMAIN h :
        ToAndroid(rows[2], h, h[n]) = Number(rows[1], n)
=============================================================================
