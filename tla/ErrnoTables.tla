---------------------------- MODULE ErrnoTables ----------------------------
(***************************************************************************)
(* android_errno.c: the chains of #ifdef that translate an error number by *)
(* its name, as the sequences of these names, and the texts of the errors. *)
(* A host is the function from the names it defines to its numbers.        *)
(***************************************************************************)
EXTENDS Integers, Sequences, SequencesExt

(* no_to_android: the names in the order they are tested.                  *)
ToAndroid1 ==
    << "EPERM", "ENOENT", "ESRCH", "EINTR", "EIO", "ENXIO", "E2BIG", "ENOEXEC",
       "EBADF", "ECHILD", "EAGAIN", "EWOULDBLOCK", "ENOMEM", "EACCES",
       "EFAULT", "ENOTBLK", "EBUSY", "EEXIST", "EXDEV", "ENODEV", "ENOTDIR",
       "EISDIR", "EINVAL", "ENFILE", "EMFILE", "ENOTTY", "ETXTBSY" >>
ToAndroid2 ==
    << "EFBIG", "ENOSPC", "ESPIPE", "EROFS", "EMLINK", "EPIPE", "EDOM",
       "ERANGE", "EDEADLK", "ENAMETOOLONG", "ENOLCK", "ENOSYS", "ENOTEMPTY",
       "ELOOP", "ENOMSG", "EIDRM", "ECHRNG", "EL2NSYNC", "EL3HLT", "EL3RST",
       "ELNRNG", "EUNATCH", "ENOCSI", "EL2HLT", "EBADE", "EBADR", "EXFULL" >>
ToAndroid3 ==
    << "ENOANO", "EBADRQC", "EBADSLT", "EBFONT", "ENOSTR", "ENODATA", "ETIME",
       "ENOSR", "ENONET", "ENOPKG", "EREMOTE", "ENOLINK", "EADV", "ESRMNT",
       "ECOMM", "EPROTO", "EMULTIHOP", "EDOTDOT", "EBADMSG", "EOVERFLOW",
       "ENOTUNIQ", "EBADFD", "EREMCHG", "ELIBACC", "ELIBBAD", "ELIBSCN",
       "ELIBMAX" >>
ToAndroid4 ==
    << "ELIBEXEC", "EILSEQ", "ERESTART", "ESTRPIPE", "EUSERS", "ENOTSOCK",
       "EDESTADDRREQ", "EMSGSIZE", "EPROTOTYPE", "ENOPROTOOPT",
       "EPROTONOSUPPORT", "ESOCKTNOSUPPORT", "EOPNOTSUPP", "ENOTSUP",
       "EPFNOSUPPORT", "EAFNOSUPPORT", "EADDRINUSE", "EADDRNOTAVAIL",
       "ENETDOWN", "ENETUNREACH", "ENETRESET", "ECONNABORTED", "ECONNRESET",
       "ENOBUFS", "EISCONN", "ENOTCONN", "ESHUTDOWN" >>
ToAndroid5 ==
    << "ETOOMANYREFS", "ETIMEDOUT", "ECONNREFUSED", "EHOSTDOWN",
       "EHOSTUNREACH", "EALREADY", "EINPROGRESS", "ESTALE", "EUCLEAN",
       "ENOTNAM", "ENAVAIL", "EISNAM", "EREMOTEIO", "EDQUOT", "ENOMEDIUM",
       "EMEDIUMTYPE", "ECANCELED", "ENOKEY", "EKEYEXPIRED", "EKEYREVOKED",
       "EKEYREJECTED", "EOWNERDEAD", "ENOTRECOVERABLE" >>

(* no_to_native tests the same names in the same order, with the two       *)
(* numbers exchanged; both chains use EDEADLOCK for the row of EDEADLK.    *)
ToNative1 == ToAndroid1
ToNative2 == ToAndroid2
ToNative3 == ToAndroid3
ToNative4 == ToAndroid4
ToNative5 == ToAndroid5

AndroidRows == ToAndroid1 \o ToAndroid2 \o ToAndroid3 \o ToAndroid4 \o ToAndroid5
NativeRows  == ToNative1 \o ToNative2 \o ToNative3 \o ToNative4 \o ToNative5
Target(n) == IF n = "EDEADLK" THEN "EDEADLOCK" ELSE n

(* android_errno.h: 1 to 131 in the order of the rows, without 41 and 58,  *)
(* and three names for numbers that have another one.                      *)
Aliases == [EWOULDBLOCK |-> "EAGAIN", EDEADLOCK |-> "EDEADLK", ENOTSUP |-> "EOPNOTSUPP"]
Numbered == SelectSeq(AndroidRows, LAMBDA n : n \notin DOMAIN Aliases)
AndroidNumbers ==
  LET number == [n \in ToSet(Numbered) |->
                   CHOOSE k \in (1 .. 131) \ {41, 58} :
                     Numbered[k - (IF k > 58 THEN 2 ELSE IF k > 41 THEN 1 ELSE 0)] = n]
  IN [n \in DOMAIN number \cup DOMAIN Aliases |->
        IF n \in DOMAIN Aliases THEN number[Aliases[n]] ELSE number[n]]

(* The hosts: Linux has the numbers of Android; the Windows runtime has    *)
(* its own from 36 on.                                                     *)
WindowsLow ==
  << "EPERM", "ENOENT", "ESRCH", "EINTR", "EIO", "ENXIO", "E2BIG", "ENOEXEC",
     "EBADF", "ECHILD", "EAGAIN", "ENOMEM", "EACCES", "EFAULT", "15", "EBUSY",
     "EEXIST", "EXDEV", "ENODEV", "ENOTDIR", "EISDIR", "EINVAL", "ENFILE",
     "EMFILE", "ENOTTY", "26", "EFBIG", "ENOSPC", "ESPIPE", "EROFS", "EMLINK",
     "EPIPE", "EDOM", "ERANGE", "35", "EDEADLK", "37", "ENAMETOOLONG", "ENOLCK",
     "ENOSYS", "ENOTEMPTY", "EILSEQ" >>
WindowsHigh ==
  << "EADDRINUSE", "EADDRNOTAVAIL", "EAFNOSUPPORT", "EALREADY", "EBADMSG",
     "ECANCELED", "ECONNABORTED", "ECONNREFUSED", "ECONNRESET", "EDESTADDRREQ",
     "EHOSTUNREACH", "EIDRM", "EINPROGRESS", "EISCONN", "ELOOP", "EMSGSIZE",
     "ENETDOWN", "ENETRESET", "ENETUNREACH", "ENOBUFS", "ENODATA", "ENOLINK",
     "ENOMSG", "ENOPROTOOPT", "ENOSR", "ENOSTR", "ENOTCONN", "ENOTRECOVERABLE",
     "ENOTSOCK", "ENOTSUP", "EOPNOTSUPP", "EOTHER", "EOVERFLOW", "EOWNERDEAD",
     "EPROTO", "EPROTONOSUPPORT", "EPROTOTYPE", "ETIME", "ETIMEDOUT", "ETXTBSY",
     "EWOULDBLOCK" >>
Windows ==
  [n \in (ToSet(WindowsLow) \ {"15", "26", "35", "37"}) \cup ToSet(WindowsHigh)
         \cup {"EDEADLOCK"} |->
     IF n = "EDEADLOCK" THEN 36
     ELSE IF n \in ToSet(WindowsLow) THEN SelectInSeq(WindowsLow, LAMBDA x : x = n)
     ELSE 99 + SelectInSeq(WindowsHigh, LAMBDA x : x = n)]
Hosts == [linux |-> AndroidNumbers, windows |-> Windows]

(* The first row the host defines whose number it is; a number without a   *)
(* row goes through as it is.                                              *)
NoToAndroid(h, no) ==
  LET k == SelectInSeq(AndroidRows, LAMBDA n : n \in DOMAIN h /\ h[n] = no)
  IN IF no = 0 \/ k = 0 THEN no ELSE AndroidNumbers[Target(AndroidRows[k])]
NoToNative(h, no) ==
  LET k == SelectInSeq(NativeRows, LAMBDA n : n \in DOMAIN h /\ AndroidNumbers[n] = no)
  IN IF no = 0 \/ k = 0 THEN no ELSE h[Target(NativeRows[k])]

(* errnum_to_str, the number for its text, 0 for the unknown error; and     *)
(* strerror_r by its lengths: what is copied and what is returned.         *)
ErrnumToStr(no) ==
  IF no \in { AndroidNumbers[n] : n \in DOMAIN AndroidNumbers } THEN no ELSE 0
ERANGE == AndroidNumbers["ERANGE"]
StrerrorR(length, buflen) ==
  IF buflen < 2 THEN [copied |-> 0, ret |-> ERANGE]
  ELSE LET copied == IF buflen - 1 > length THEN length ELSE buflen - 1
       IN [copied |-> copied, ret |-> IF copied = length THEN 0 ELSE ERANGE]

-----------------------------------------------------------------------------
(* What is known of the tables as such: translating a host's error and     *)
(* back keeps the Android number (an alias may come back as the other      *)
(* name), all names but those the header declares equal stay apart, and    *)
(* each of them has a text of its own.                                     *)
TablesRight ==
  \A o \in DOMAIN Hosts : LET h == Hosts[o] IN
    \A n \in DOMAIN h \cap DOMAIN AndroidNumbers :
      LET there == NoToAndroid(h, h[n])
      IN /\ NoToAndroid(h, NoToNative(h, there)) = there
         /\ there = AndroidNumbers[n]
         /\ ErrnumToStr(there) # 0
         /\ \A m \in DOMAIN h \cap DOMAIN AndroidNumbers :
              h[m] # h[n] /\ AndroidNumbers[m] = there =>
                {m, n} \cap DOMAIN Aliases # {}
=============================================================================
