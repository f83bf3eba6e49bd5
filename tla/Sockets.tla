------------------------------ MODULE Sockets ------------------------------
(***************************************************************************)
(* android_socket.c: the socket calls pass the numbers of the program to   *)
(* the host as the host's own numbers of the same names, and hand the      *)
(* address family of an answer back as Android's.                          *)
(***************************************************************************)
EXTENDS SocketTables

VARIABLES
  net,     \* the host
  call,    \* the kind of the last call
  wanted,  \* names the program (or, for an answer, the host) meant
  got      \* numbers that arrived

-----------------------------------------------------------------------------
Init == net \in DOMAIN Nets /\ call = "none" /\ wanted = << >> /\ got = << >>

(* The calls keep no state of their own: a behaviour is one call.          *)
(* android_socket                                                          *)
Socket ==
  /\ call = "none"
  /\ \E d \in Names(AfRows), t \in Names(SockRows), p \in Names(IpprotoRows) :
       /\ wanted' = << d, t, p >>
       /\ got' = << ToNative(AfRows, Nets[net], Number(AfRows, d)),
                    ToNative(SockRows, Nets[net], Number(SockRows, t)),
                    ToNative(IpprotoRows, Nets[net], Number(IpprotoRows, p)) >>
  /\ call' = "socket" /\ UNCHANGED net

(* android_bind, android_connect and android_sendto pass a copy of the     *)
(* address with the family translated; without an address or without       *)
(* memory for the copy the host is not called and -1 is the answer.        *)
SendAddress ==
  /\ call = "none"
  /\ \E d \in Names(AfRows) :
       /\ wanted' = << d >>
       /\ got' = << ToNative(AfRows, Nets[net], Number(AfRows, d)) >>
  /\ call' = "send" /\ UNCHANGED net
SendRefused ==
  /\ call = "none"
  /\ call' = "refused" /\ wanted' = << >> /\ got' = << >> /\ UNCHANGED net

(* android_accept and android_recvfrom: the family in the buffer is        *)
(* translated whether the host's call has filled it or has failed and left *)
(* an Android number there.                                                *)
ReceiveAddress ==
  /\ call = "none"
  /\ \E d \in Names(AfRows) \cap DOMAIN Nets[net] :
       /\ wanted' = << d >>
       /\ got' = << ToAndroid(AfBackRows, Nets[net], Nets[net][d]) >>
  /\ call' = "receive" /\ UNCHANGED net
ReceiveFails ==
  /\ call = "none"
  /\ \E d \in Names(AfRows) :
       /\ wanted' = << d >>
       /\ got' = << ToAndroid(AfBackRows, Nets[net], Number(AfRows, d)) >>
  /\ call' = "failed" /\ UNCHANGED net

(* android_setsockopt, android_getsockopt: the option is translated as one *)
(* of SOL_SOCKET whatever the level.                                       *)
Option ==
  /\ call = "none"
  /\ \E l \in Names(SolRows), o \in Names(SoRows) :
       /\ wanted' = << l, o >>
       /\ got' = << ToNative(SolRows, Nets[net], Number(SolRows, l)),
                    ToNative(SoRows, Nets[net], Number(SoRows, o)) >>
  /\ call' = "option" /\ UNCHANGED net

(* The flags of recv, send, recvfrom and sendto.                           *)
Flags ==
  /\ call = "none"
  /\ \E S \in kSubset(2, Names(MsgRows)) :
       /\ wanted' = SetToSeq(S)
       /\ got' = SetToSeq(MsgToNative(Nets[net], { Number(MsgRows, n) : n \in S }))
  /\ call' = "flags" /\ UNCHANGED net

Next ==
  \/ Socket \/ SendAddress \/ SendRefused \/ ReceiveAddress \/ ReceiveFails
  \/ Option \/ Flags

-----------------------------------------------------------------------------
(* A host sees its own number for what the program meant, or -1 (a flag:   *)
(* nothing) for what it does not have, and the program sees the Android    *)
(* number of the family the host meant.  So two meanings the host keeps    *)
(* apart never become one, and a number never turns into another meaning;  *)
(* the tables for the way back agree with those for the way there.         *)
SocketsRight ==
  /\ BackRight
  /\ call \in {"socket", "send", "option"} =>
       \A i \in DOMAIN wanted :
         IF HostNumbers[net][wanted[i]] = {} THEN got[i] = -1
         ELSE got[i] \in HostNumbers[net][wanted[i]]
  /\ call = "receive" => got[1] = Number(AfRows, wanted[1])
  /\ call = "flags" =>
       ToSet(got) = UNION { HostNumbers[net][n] : n \in ToSet(wanted) }
=============================================================================
