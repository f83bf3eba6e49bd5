----------------------------- MODULE HookTables ----------------------------
(***************************************************************************)
(* The constant tables of hooks.c: the symbols the linker takes from the   *)
(* host, in the order of each table.  A long table is cut in parts.  A     *)
(* name stands for its entry; Target is the function the entry holds.      *)
(***************************************************************************)
EXTENDS Sequences, SequencesExt, TLC

LibcHooks1 == <<
  "__cxa_finalize", "__cxa_atexit", "__cxa_pure_virtual", "__stack_chk_fail",
  "__stack_chk_guard", "__strlen_chk", "__isnanf", "__isinff", "__isfinitef",
  "__isfinite", "div", "nearbyint", "__errno", "fflush", "fseek", "fgetpos",
  "fputs", "inet_ntoa", "inet_addr", "fsetpos", "ftell", "fwrite", "fread",
  "ungetc", "fopen", "fclose", "putc", "setvbuf", "rename", "__sF",
  "gettimeofday" >>

LibcHooks2 == <<
  "fstat", "closedir", "opendir", "readdir", "remove", "mkdir", "pipe",
  "sysconf", "usleep", "gethostname", "listen", "send", "sendto", "recv",
  "recvfrom", "getsockopt", "setsockopt", "socket", "accept", "bind",
  "connect", "gethostbyname", "getsockname", "shutdown", "select", "fcntl",
  "ioctl", "mmap", "munmap", "mprotect", "close" >>

LibcHooks3 == <<
  "read", "write", "open", "getc", "__assert2", "fprintf", "fscanf", "fgets",
  "lrand48", "srand48", "getpid", "nanosleep", "syscall", "strtod", "fputc",
  "putwc", "ungetwc", "getwc", "fdopen", "writev", "poll", "ferror", "feof",
  "stat", "sigaction", "sched_yield", "localtime_r", "localtime", "fnmatch",
  "fsync", "fdatasync" >>

LibcHooks4 == <<
  "unlink", "geteuid", "vsnprintf", "snprintf", "vsprintf", "sprintf",
  "clock_gettime", "ftime", "time", "gmtime", "mktime", "strtoull",
  "setlocale", "strftime", "rmdir", "__dso_handle", "__cxa_guard_acquire",
  "__cxa_guard_release", "__cxa_guard_abort", "_Znwj", "_Znaj", "_ZdlPv",
  "_ZdaPv", "_ZnwjRKSt9nothrow_t", "_ZnajRKSt9nothrow_t",
  "_ZdlPvRKSt9nothrow_t", "_ZdaPvRKSt9nothrow_t", "__arc4_getbyte",
  "arc4random_stir", "arc4random_addrandom", "arc4random" >>

LibcHooks5 == <<
  "arc4random_buf", "arc4random_uniform", "getaddrinfo", "freeaddrinfo",
  "inet_ntop", "setpriority", "pread", "strtol", "strtoul", "calloc",
  "malloc", "realloc", "free", "printf", "sscanf", "puts", "putchar",
  "bsd_signal", "exit", "abort", "access", "atoi", "atol", "raise", "perror",
  "getenv", "lseek", "qsort" >>

StringHooks1 == <<
  "bcopy", "index", "memccpy", "memchr", "memcmp", "memcpy", "memmem",
  "memmove", "memrchr", "memset", "memswap", "strcasecmp", "strncasecmp",
  "strcasestr", "strcat", "strchr", "strcmp", "strcoll", "strcpy", "strcspn" >>

StringHooks2 == <<
  "strdup", "strlcat", "strlcpy", "strlen", "strncat", "strncmp", "strncpy",
  "strndup", "strnlen", "strpbrk", "strrchr", "strsep", "strspn", "strstr",
  "strtok", "strtotimeval", "strxfrm", "strerror", "strerror_r" >>

WcharHooks1 == <<
  "wcschr", "wcsdup", "wcsncat", "wcsrchr", "wmemchr", "wcpcpy", "wcscmp",
  "wcslcat", "wcsncmp", "wcsspn", "wmemcmp", "wcpncpy", "wcscoll", "wcslcpy",
  "wcsncpy", "wcsstr", "wmemcpy", "wcscasecmp", "wcscpy", "wcslen", "wcsnlen",
  "wcstok", "wmemmove", "wcscat", "wcscspn", "wcsncasecmp", "wcspbrk" >>

WcharHooks2 == <<
  "wcsxfrm", "wmemset", "iswalnum", "iswalpha", "iswcntrl", "iswdigit",
  "iswgraph", "iswlower", "iswprint", "iswpunct", "iswspace", "iswupper",
  "iswxdigit", "iswctype", "wctype", "wcwidth", "towlower", "towupper",
  "wctob", "btowc", "wcrtomb", "mbrtowc", "wcsftime", "wcsrtombs", "wcstombs",
  "mbsrtowcs", "mbstowcs" >>

CtypeHooks == <<
  "_ctype_", "_tolower_tab_", "_toupper_tab_", "tolower", "toupper",
  "isalnum", "isalpha", "iscntrl", "isdigit", "isgraph", "islower", "isprint",
  "ispunct", "isspace", "isupper", "isxdigit", "isblank", "isascii",
  "toascii" >>

PthreadHooks == <<
  "pthread_attr_init", "pthread_attr_destroy", "pthread_attr_setdetachstate",
  "pthread_attr_setschedparam", "pthread_attr_setstacksize",
  "pthread_cond_broadcast", "pthread_cond_destroy", "pthread_cond_init",
  "pthread_mutex_trylock", "pthread_cond_timedwait", "pthread_cond_wait",
  "pthread_create", "pthread_getspecific", "pthread_join",
  "pthread_key_create", "pthread_mutexattr_destroy", "pthread_mutexattr_init",
  "pthread_mutex_destroy", "pthread_mutex_init", "pthread_mutex_lock",
  "pthread_mutex_unlock", "pthread_self", "pthread_setspecific",
  "pthread_key_delete", "pthread_once", "pthread_equal",
  "pthread_cond_signal", "pthread_detach", "pthread_setname_np",
  "pthread_mutexattr_settype" >>

MathHooks1 == <<
  "atan2f", "ceilf", "cosf", "floorf", "fmodf", "logf", "powf", "sinf",
  "sqrtf", "atanf", "fmod", "floor", "ceil", "sin", "cos", "sqrt", "pow",
  "atan2", "atan", "modff" >>

MathHooks2 == <<
  "modf", "ldexp", "ldexpf", "tanf", "cosh", "tan", "tanh", "asin", "log",
  "sinh", "acos", "exp", "frexp", "log10", "log10f", "acosf", "expf", "asinf",
  "exp2f", "exp2" >>

AeabiHooks == <<
  "__aeabi_atexit", "__aeabi_memcpy8", "__aeabi_memcpy4", "__aeabi_memcpy",
  "__aeabi_memmove8", "__aeabi_memmove4", "__aeabi_memmove",
  "__aeabi_memset8", "__aeabi_memset4", "__aeabi_memset", "__aeabi_memclr8",
  "__aeabi_memclr4", "__aeabi_memclr", "__aeabi_ul2f", "__aeabi_ul2d",
  "__aeabi_d2ulz", "__aeabi_idiv", "__aeabi_uidiv", "__aeabi_ldiv",
  "__aeabi_uldiv", "__aeabi_idivmod", "__aeabi_uidivmod", "__aeabi_ldivmod",
  "__aeabi_uldivmod" >>

SemaphoreHooks == <<
  "sem_init", "sem_destroy", "sem_open", "sem_close", "sem_unlink",
  "sem_wait", "sem_timedwait", "sem_post", "sem_trywait", "sem_getvalue" >>
-----------------------------------------------------------------------------
(* The order in which get_hooked_symbol searches the tables.               *)
Tables ==
  << LibcHooks1 \o LibcHooks2 \o LibcHooks3 \o LibcHooks4 \o LibcHooks5,
     StringHooks1 \o StringHooks2, WcharHooks1 \o WcharHooks2, CtypeHooks,
     PthreadHooks, MathHooks1 \o MathHooks2, AeabiHooks, SemaphoreHooks >>

(* Mutant: a row was copied and its name changed, its function was not.    *)
OddTargetsMore ==
  ("wmemset" :> "strerror_r") @@ ("bsd_signal" :> "signal") @@
  ("wcsxfrm" :> "wcspbrk")

(* Every entry holds the implementation of its own name, but these two.    *)
OddTargets == ("wmemset" :> "strerror_r") @@ ("bsd_signal" :> "signal")
Target(n) == IF n \in DOMAIN OddTargets THEN OddTargets[n] ELSE n

Hooks == FoldLeft(\o, << >>, Tables)
=============================================================================
