# ancmp in TLA+

ancmp lets a program on Linux or Windows load and run Android (Jelly Bean)
shared libraries: a dynamic linker for Android ELF files, and host
implementations of the bionic functions those libraries call. This directory
holds TLA+ models of it, what TLC checks about them and what TLAPS proves.
Paths are relative to `src/ancmp/`.

## 1. Inventory

| Component | State | Operations | Hard because |
|---|---|---|---|
| Pthread mutex (`android_pthread_mutex.c`) | one 32-bit word per mutex: state, recursion counter, shared, type, owner | init, lock, trylock, unlock, destroy | every step is a separate atomic access; waiters and unlockers race on one word; wake-ups can be lost |
| Futex (`android_futex.c`, `android_atomic.c`) | Linux: the kernel's queues; Windows: a list of counted semaphores | wait, wake | keyed by process or by page; interrupted waits |
| Linker (`linker.c`) | `sopool`, `solist`/`freelist` threaded through `next`, `socount`, per library: flags, refcount, constructors_called, image, DT_NEEDED entries overwritten by pointers; the debugger's `link_map` list | find, load, link, constructors, unload, create/destroy stub libraries | recursion over shared and cyclic dependencies, failure half-way, reuse of entries |
| dl functions (`android_dlfcn.c`) | `dl_lock`, `dl_err_str` | dlopen, dlsym, dladdr, dlclose, dlerror | user code (constructors) runs under the lock; handles go stale |
| Semaphore (`android_semaphore.c`) | count with -1 for contention | wait, trywait, timedwait, post, destroy | one wake of all waiters, a lost race per waiter |
| Condition variable (`android_pthread_cond.c`) | a counter word | wait, timedwait, signal, broadcast | value read before the mutex is released |
| Once, threads (`android_pthread.c`) | once word; Windows thread records | once, create, join, detach, self | waiting for an initialiser; records freed by either side |
| C++ guards (`android_cxa_guard.c`) | guard word | acquire, release, abort | an abort while others wait |
| Thread ids (`android_thread_id.c`) | bitmap of 65536 ids | alloc, free, acquire | concurrent claims, exhaustion, reuse |
| atexit (`android_cxa.c`) | list under a lock | atexit, finalize | handlers run unlocked and may register more |
| Keys, Windows thread list (`android_pthread_key.c`, `android_pthread_threads.c`) | destructor list | create, delete, run | delete against a finishing thread |
| Hooks (`hooks.c`) | constant tables, growing array | add, find | growth while names are replaced |
| errno (`android_errno.c`) | a cell per thread, one shared dummy | translate, read, clear | names that share numbers; the host's errno is never cleared |
| Sockets (`android_socket.c`) | none | translate families, options, flags and call | rows that exist on one host only |
| Symbols, images (`linker.c`) | hash tables, program headers, relocation tables | look up, load, relocate, protect | chains, partial pages, order of protection |
| Formatted text (`linker_format.c`) | a bounded buffer or a descriptor | parse, pad, send | a full buffer, partial writes |
| Other conversions (stat, ioctl, time, stdio, strings) | none or a buffer | one call each | numeric edges only |

How they interact. A program calls the dl functions. They take `dl_lock` (a
mutex of the first component) and run the linker, which loads files, calls back
into the loaded libraries (constructors, destructors) and tells the debugger.
Loaded libraries call the pthread, semaphore, guard and atexit functions, all of
which wait and wake through the futex. The mutex asks the thread ids who is
calling. The host adds stub libraries to the linker's list directly.

What makes each component correct:

* mutex: one holder; truthful owner and counter; a sleeper is never forgotten;
  a destroyed mutex is free and stays untouched;
* linker: both lists stay lists; counts are exact; whatever is recorded as
  needed is there; a handle stays usable and initialised until closed;
  initialisation and termination follow the dependencies; every call returns;
* dl functions: the linker runs under `dl_lock` only; `dl_lock` is given back;
* semaphore: units are conserved, no waiter sleeps while a unit is free;
* condition variable: a signal after the wait began is not lost;
* once and guards: one initialiser at a time, everybody is released after it;
* thread ids: two live threads never share one;
* atexit: each handler once, last registered first;
* keys: a destructor gets values of its own key;
* thread records (Windows): freed once, by the right side;
* hooks: the last function a name was hooked to is found;
* errno, sockets: a number never arrives as another meaning;
* symbols: found exactly if defined in the scope;
* images: every word is what file, symbols and ABI say, and no relocation
  writes to a read-only page;
* formatted text: the text is right, the buffer is kept, the length is honest.

`PROJECT.json` lists the hazards at their source lines, with the property that
covers each, or the reason why none does.

## 2. Modules

| Module | Models |
|---|---|
| `Futex` | the Linux futex calls on one word (queue, wake one, wake all, interrupt) |
| `AbstractLock` | what a mutex promises: a re-entrant lock with one holder |
| `PthreadMutex` | `android_pthread_mutex.c`, extends `Futex`, implements `AbstractLock` |
| `PthreadMutexProof` | the theorems about `PthreadMutex` |
| `AbstractSemaphore` | what a semaphore promises: units given and taken one at a time |
| `Semaphore` | `android_semaphore.c`, extends `Futex`, implements `AbstractSemaphore` |
| `SemaphoreProof` | the theorems about `Semaphore` |
| `AbstractOnce` | what one-time initialisation promises |
| `Once`, `CxaGuard` | `pthread_once`; `android_cxa_guard.c`; each extends `Futex` and implements `AbstractOnce` |
| `OneTime` | composes the two: threads use a guarded static whose constructor may call `pthread_once` |
| `OneTimeProof` | the theorems about `OneTime` |
| `DebugMap` | the debugger's list, as operators of the linker's steps |
| `AbstractLoader` | what dlopen and dlclose promise about each library name |
| `Linker` | `linker.c`, extends `DebugMap`, implements `AbstractLoader` |
| `Dlfcn` | `android_dlfcn.c`, extends `Linker`: several threads and `dl_lock` |
| `LinkerProof`, `LinkerUseProof` | the theorems about `Linker` and `Dlfcn`: lists and counts; what a program may rely on |
| `Cond` | `android_pthread_cond.c` with a mailbox as its client, on `Futex` |
| `CondProof` | the theorems about `Cond` |
| `ThreadLife` | thread start, `android_thread_id.c`, the Windows join and detach |
| `ThreadLifeProof` | the theorems about `ThreadLife` |
| `FutexWindows` | the Windows half of `android_futex.c` |
| `CxaAtexit` | `android_cxa.c` |
| `ThreadKeys` | `android_pthread_key.c`, `android_pthread_threads.c` (Windows) |
| `HookTables`, `Hooks` | the tables of `hooks.c`; the custom hooks and the search |
| `Services` | composes the six above (from `Cond` on) |
| `ServicesProof` | the theorems about `Services` and its parts |
| `ErrnoTables`, `Errno` | the tables of `android_errno.c`; errno as the program uses it |
| `SocketTables`, `Sockets` | the tables of `android_socket.c`; the calls |
| `SymbolLookup` | symbol search and `dladdr`'s way back (`linker.c`) |
| `Image` | segments, relocations and protection of one library (`linker.c`) |
| `Format` | `linker_format.c` |
| `Layer` | extends `Services` with the five above |
| `MCPthreadMutex`, `MCSemaphore`, `MCOneTime`, `MCLinker`, `MCDlfcn`, `MCLayer` | the instances TLC checks |

### PthreadMutex

`word` is `mutex->value` split into its fields (the shared bit is the constant
`Shared`); `mval` is the local `mvalue`; `pc` names the atomic access a thread
does next. `CallLock`, `CallTryLock` and `CallUnlock` are the plain read at the
head of each function with the branches decided by it (a call that would return
an error from there, EDEADLK, EAGAIN or EPERM, changes nothing and is not a
step). Then there is one action per compare-and-exchange, swap, decrement, store
or futex call; `android_normal_lock` is `n_cas`, `n_swap`, `n_wait`, the loop of
`android_pthread_mutex_lock` is `r_slow`, `r_wait`, `r_slow_ld`, and so on. A
thread in the kernel's queue keeps the `pc` it will have when woken and takes no
step until then. `held` is a history variable: how often each thread has
obtained the mutex and not yet released it.

Assumed of the program: a NORMAL mutex is not locked again by its holder or
unlocked by another thread, and a mutex is not destroyed while somebody is
acquiring it (all undefined in POSIX). Destroying it while another thread is
still inside `unlock` is allowed, and is the interesting case.

### Semaphore

`count` is the signed value of `sem->count` (the shared bit is the constant
`Shared`), -1 while somebody may be waiting; `old` is the local of the three
helpers. `__android_sem_dec`, `_trydec` and `_inc` are a read (`DecLoad`,
`TryLoad`, `IncLoad`) and a compare-and-exchange (`DecCas`, `TryCas`, `IncCas`)
that goes back to the read when it fails. `Sleep` is the futex wait on -1;
sem_wait and sem_timedwait loop whatever it returned, because the wrapper gives
-1 and errno and never -ETIMEDOUT or -EINTR. `Clock` is sem_timedwait's look at
the clock, where the time is over or not. `given` and `taken` are history: the
initial value and successful posts, and the successful waits. A semaphore is
destroyed when nobody is inside a wait or at the head of a post, but a poster may
still have its wake to do.

### OneTime

`Once` has the control word of `pthread_once` (`Load`, `Cas`, `Wait`, `Complete`,
`WakeAll`), `CxaGuard` the guard word of a function-local static: acquire is two
exchanges, a futex wait and a look at the state, release an exchange and, when
somebody waits, a store and a wake of all, abort a store and a wake. The
constructor is the stay at `run`; it ends by release or, `MaxAborts` times at
most, by abort. `OneTime` takes an INSTANCE of each with its own sleepers and lets
a thread call `pthread_once` from outside or from the constructor; the other
nesting (an init routine that uses the static) together with this one is a
deadlock of the program's own making and is left out, as is a routine that calls
`pthread_once` on its own word. Values of the guard differ between ARM and x86,
and only their being different matters here. Both words use the futex with
pshared 0, which wakes sleepers of every process.

### Linker

linker.c recurses, so the model has the C stack: `stack` is a sequence of frames
(function, soinfo, position in DT_NEEDED, name) and `ret` is the value the call
that just returned left behind. `link_image` over the DT_NEEDED entries is the
frame `link_image` with its position; it can fail before the first entry
(`LinkParseFail`), when a library it needs cannot be had (`LinkNeeded`), during
relocation (`LinkRelocFail`) and after FLAG_LINKED is set (`LinkFinish`). User
code is a frame of its own (`init`, and `fini` under `unload`), so that other
modules can say what it does. `deps` is what was written over the DT_NEEDED
entries. `inits`, `finis` and `handles` are history. File contents are the
constant `Needed`; whether a file exists, maps and relocates is a free choice at
each step. `image` says whether [base, base + size) is mapped.

The host calls `android_library_create` and `_destroy` between calls (the code
gives them no lock), creates a name only when it is absent, and destroys only
what nobody uses. The order of the initial stubs is free.

`AbstractLoader` has one status for each library name (absent, stub, linked,
started, stopped, failed) and the handles open on it. `Linker` maps a name to its
entry on solist: `LibraryStatus` reads the entry's flags, image and history,
`LibraryOpens` its handles. A stub of the host or libdl_info, which has no image,
is a "stub" from the start; one that an unload finalised and freed is absent and
may be installed again.

### Dlfcn

Each thread has the dl function it is in (`call`). `Request` is the call,
`LockDl` its turn on `dl_lock`; dlopen and dlclose then run `Linker`'s steps one
by one (`Run`) while other threads issue requests and call dlerror, which takes
no lock. `dl_lock` is taken at the grain of `AbstractLock`, which the mutex
implements. `Reenter` is a constructor that calls dlopen. A thread uses a handle
only while its own reference keeps it open.

### Services

Six parts that share no state with each other. What two of them do in turns says
nothing that each one alone does not, so `subject`, chosen at the start, is the
part a behaviour exercises, and one run has them all.

`Cond`: `value` is `cond->value`, a counter above the shared bit, `Width` bits
wide. `WaitBegin` reads it while the mutex is held, `WaitUnlock` gives the mutex
up, `WaitSleep` is the futex wait on the value read; a time-out and a signal both
end it (`Interrupt`), and every wait returns 0 with the mutex held, because the
wrapper never gives -ETIMEDOUT. `PulseFlags`, `PulseLoad`, `PulseCas` and
`PulseWake` are `android_pthread_cond_pulse`. The client keeps `items` under the
mutex; it puts and pulses before or after its unlock.

`ThreadLife`: one thread's `pc` in `thread_wrapper`, from the scan for an
identifier (`Scan`, `Alloc`, `Nap`) to its end, and a join or detach of it on
Windows (`call`), one step per access of the record. `free` is the bitmap. What
the code does and the model keeps: on Windows a joinable thread is refused by
detach and a detached one accepted, since both tests are the wrong way round
(so detaching a detached thread twice closes its handle, and `RecordsSafe`
counts the handles of joinable threads only); a thread whose set-up fails after
it got its identifier never gives it back (`leaked`); Linux keeps the arguments
of a thread that could not be created. The program makes one join or detach of a
thread at a time, and none after a join or after the record went.

`FutexWindows`: `LockMtx`, then one action per critical section, then the step on
the semaphore outside it. The code creates each semaphore with its count at the
maximum (INT_MAX - 1), so a wait passes at once until as many waits have taken
its units; the emulation is a spin with time-outs rather than a sleep. `MaxWaits`
is below `SemMax` as it is in any run of the program, and the last part of
`FutexEntriesExact` states what follows from it. An entry is one of a few memory
blocks (`Entries`) that are freed and handed out again for any address. A wake
takes no reference, so its block may be freed, or be another address's entry,
when it reads the semaphore: `Handles` is what it may find, each turn of its loop
anew. CreateSemaphore's failure is NULL, which the code does not test for: such
an entry stays on the list without a semaphore and waits on it return at once.

`CxaAtexit`: a finalisation takes the first matching handler out, gives the lock
back, runs it and starts over (`FinalizeLock`, `FinalizeScan`, `HandlerReturns`);
a handler may register and may finalise another library, one level deep.

`ThreadKeys`: `KeyDelete` frees the index and `RemoveDestructor` unlinks the node
later; other threads may create a key at the index, or end, in between. An index
that was created again before the removal is `overtaken`: there the first node,
the new key's, may be the one that goes, and a destructor may get another key's
value, which is what the code does; `KeyDestructorsOwn` speaks of the other
indexes. A destructor is the stay at `destructor`, with the mutex held: it may
create, set and delete keys, its own one too, whose node is then read after it
was freed (`DestructorReturns`: the walk goes on at any node, or ends).

`Hooks`: an entry of the tables is a name with its function; a part of a table is
a sequence, in the order of the search. `AddCustomHook` makes room, then replaces
or appends. `hooks.c` sends `wmemset` to `android_strerror_r`; the property leaves
that one name out of "no two names share a function".

### Layer

`Layer` adds five parts that compute an answer; `subject` again picks one. Each
property compares with a definition that does not look at how the code gets there.

`Errno`: the `#ifdef` chains are sequences of names (`ErrnoTables`), tried in
order against the numbers of a host. Reading errno translates the host's number
into the thread's cell at every look (`Read`); a thread of the host has no cell
and gets the dummy. A program that stores a number of its own still sees the
host's last error translated over it, so `ErrnoRight` speaks of reads after a
failed call.

`Sockets`: a behaviour is one call. Options are translated as those of SOL_SOCKET
whatever the level, and accept and recvfrom translate the family in the buffer
even after a failure (`ReceiveFails`); the property leaves the answer of a failed
call out, which the program must not read.

`SymbolLookup`: `ElfLookup` walks the chain; `Scope` is the order of
`_do_lookup`. The tables are built as a static linker does (`Hashed`, external),
with any assignment of hashes to names.

`Image`: the unit is a word, `mem` the words of the reserved region, `prot` the
protection of its pages. `LoadSegment` reads whole pages from the file and zeroes
the rest of the last one; one read of a load may fall short (`Missing`), which
nobody notices, and the words that are missing stay zero (`unread`), the dynamic
section among them if it lies there, without which linking fails. `Relocate` is
one relocation, PLT first, `Protect` the final protection. A COPY takes its size
from `s`: what the lookup of this relocation gave, NULL when it has no symbol,
and, when its symbol is hooked, what the relocations before it in the table left
(`Setters`); a NULL or unset `s` is `CopyCrashes`, an unset one may also hold any
size. `Unmapped` has the region gone (munmap) or still there (VirtualFree, which
is called in a way that fails). `ImageRight` leaves out the value of R_ARM_REL32,
which is computed from the offset, not the address, and the words that a COPY
against a hooked symbol may reach. A writable segment between two read-only ones
ends up read-only (a TODO in the code says so); `PagesRight` speaks of the other
layouts, and of the pages outside GNU_RELRO, which the comments say are protected
and the code makes writable (`RelroProtected`).

`Format`: `pc` is the part of the directive being parsed, `queue` the pieces
handed to the sink. What the code does and the model keeps: `%u` and `%%` read an
argument and print nothing; the digits of a precision are taken for the
specifier; zero padding goes before the sign; `%o` is signed; left alignment pads
with zeros when both flags are given. `FormatRight` compares with C for the
directives outside this list (`Known`).

The numbers of the hosts (Linux, the Windows runtime, Winsock) and of the static
linker are not in the repository; they are marked external in `PROJECT.json`.

## 3. Runs

| Run | Instance | Shows |
|---|---|---|
| `Mutex` | 3 threads, all types, counter up to 2, with fairness | all mutex properties, `ImplementsLock`, `NobodyStranded` |
| `MutexProcessShared` | 2 threads in 2 processes, NORMAL | violation of `SleepersHaveRescuer` |
| `Semaphore` | 3 threads, maximum 2, 3 units given, with fairness | `Conservation`, `SleepersHaveRescuer`, `NoSleeperMissesAUnit`, `ImplementsSemaphore` |
| `OneTime` | 3 threads, 2 throwing constructors, with fairness | `ImplementsOneTime`, `SleepersHaveRescuer`, `CallersReleased` |
| `LinkerDiamond` | a needs b, c; b needs c, libc; c needs libc; a and c opened, 2 handles, 4 entries | lists, counts, needed libraries, handles, order of termination, debugger's list |
| `LinkerCycle` | a needs b, c; b needs libc; c needs a; a and b opened | `CallsReturn`, `ImplementsLoader` |
| `LinkerLibdl` | a needs libdl.so and libc | violation of `FreeHasPrev` |
| `LinkerDladdr` | one library that fails to link | violation of `DladdrFindsMapped` |
| `Dlfcn` | 2 threads, a and b share libc, b needs a, a re-entrant | `LinkerOwned`, `ArgumentUsable`, `LockReleased` |
| `DlfcnConstructors` | the same, b opened once | violation of `ConstructorsMayDlopen` |
| `Layer` | 3 threads for condition variables, 2 for the other services, with fairness; the tables in full; libraries, files and calls of `MCLayer` | one property per part, two for condition variables: `CondNobodyForgotten`, `CondSleepersServed`, `ThreadIdsExact`, `ThreadRecordsSafe`, `FutexEntriesExact`, `ExitHandlersOnce`, `KeyDestructorsOwn`, `HooksFoundRight`, `ErrnoRight`, `SocketsRight`, `LookupRight`, `ImageRight`, `PagesRight`, `FormatRight` |
| `Relro` | the image part of `Layer` | violation of `RelroProtected` |

Bounds. Three threads let one hold, one sleep and one race the unlocker, the
smallest case in which a wake-up given to the wrong thread is lost; a counter of
2 has an empty, a middle and a full value. `MaxCount` is 2047 in the code and
any positive number in the proofs. `SEM_MAX` is 2 (2^30 - 1 in the code, any
positive number in the proofs), so that posts meet the maximum; `MaxGiven` stops
new posts once three units were given, enough to empty, fill and refuse, and
bounds the history counters only (three posts already under way may pass it).
`SO_MAX` is 4 with five names (128 in the
code), so the pool is filled by the libraries and the failed ones and a further
load is refused, while a freed entry is used again by another name; `MaxHandles`
is 2, so that one library is opened twice, or two that share dependencies are
open together. In `LinkerCycle` a and c need each other, so c meets a while a is
being linked and both fail; b loads first and stays counted. `Dlfcn` has two
threads because everything they contend for is one lock and one list.

`Layer`, the services: a condition variable has `Width` 4 bits, so its counter
wraps below 0 on the first pulse, and two puts (`MaxPulses`) for three threads, so that two may
wait for one item. There are identifiers 0 to 3 (`MaxId`; 65535 in the code) in
one word of the bitmap (`WordBits` 4), the last of which may be leaked before the
start, so that two threads compete for one or two and a thread may find none
after `Tries` 2 scans (10). The Windows futex has two addresses, two memory
blocks, so that a block is freed and used again for the other address while a wake
still has it, and two waits. Three handlers in
two libraries let one register another while the list has a third; three keys on
two indexes reuse an index, before and after its node was removed; the array of
hooks starts at 2 entries (512) and grows while names are added and replaced (6 calls).

`Layer`, the rest: the tables of errno and sockets are checked in full, on each
host. Four libraries have one of three symbol tables each (defined, undefined,
local, weak with size 0) and one or two buckets, so chains hold hits and misses of
the same hash. A page has 4 words, addresses 6 bits (they wrap), and the files have
segments that start and end inside a page; each relocation type meets each kind of
symbol, and a COPY each kind of predecessor. A read falls short by two words or
altogether; a COPY copies at most two words (`MaxCopy`), and the places that are
relocated lie apart and inside one segment. A byte has 2 bits
(`ByteBits`), so the 64-bit number of the code has 16 and every sign edge is
tried; `PadSize` 3 makes padding take several pieces; buffers of 0, 1, 4, 6 and
16 characters are absent, empty, full at each kind of piece, and long enough.

Deadlock is checked except in `Dlfcn`, where a re-entrant constructor really
stops the system (`LockReleased` names that case), and in `Layer` and `Relro`,
where threads end and a computation is one call.

Fairness. `FairSpec` of the mutex schedules each thread that can take a step
inside the library (weak fairness of `Inside(t)`): operating systems do. Nothing
is assumed of what threads call, of signals, or of who wins a race.
`NobodyStranded` therefore says that sleepers are woken or somebody gets the
mutex, not that a given thread gets it: the code makes no such promise.
`FairSpec` of `OneTime` adds that init routines and constructors end; with a
bound on throwing it gives `CallersReleased` for every single thread.
The semaphore's `FairSpec` is that of the mutex, and `NoSleeperMissesAUnit` says as much.
`FairSpec` of the linker and `DlFairSpec` keep a thread running inside a call,
init functions included (they return unless they wait for `dl_lock`).
`LayerFair` schedules the threads of `Cond` inside its functions and
the mailbox's client while it holds the mutex (`CondInside`); `CondSleepersServed`
needs it, and the other parts have no liveness property.

### What the violation runs show

* `MutexProcessShared`: `android_futex.c:184` and `:190` pass FUTEX_PRIVATE_FLAG
  when `pshared` is set and leave it out when it is not, the opposite of what
  the comments above them promise. A process-shared mutex, semaphore or
  condition variable does not wake sleepers of other processes.
* `LinkerLibdl`: `linker.c:336` relies on the head of solist never being freed.
  `libdl_info` starts with no reference, so the last library naming libdl.so in
  DT_NEEDED frees it when it is unloaded.
* `LinkerDladdr`: a library that failed to link stays on solist with the range
  it had before it was unmapped, and `find_containing_library` returns it.
* `DlfcnConstructors`: `linker.c:1636` describes a constructor that calls
  dlopen, but `dl_lock` is a NORMAL mutex held while constructors run.
* `Relro`: `linker.c:1323-1326` and `:1346-1349` say that link_image protects
  GNU_RELRO, so that a write there would fault; `:2083` makes it writable.

### What the models follow the code into

These are wrong in the code and no comment or test speaks of them; the models do
what the code does, and the property named leaves out exactly what it spoils.

* `DebugListExact`: `linker.c:221-230` never moves `_r_debug.r_map`. When the
  first library of the debugger's list goes while others stay, a debugger reads
  from a freed entry, which is used again later. The list is exact from the tail
  always, and from `r_map` as long as `r_map` is its first entry.
* `KeyDestructorsOwn`: `android_pthread_key.c:43-46` frees the index before it
  unlinks the node, so a new key may get the index and lose its destructor to the
  old one's removal (`overtaken`). A destructor that deletes its own key frees the
  node `android_pthread.c:96` reads next.
* `FutexEntriesExact`: `android_futex.c:28` tests for INVALID_HANDLE_VALUE where a
  failure is NULL; `:113-133` use an entry that `:92` may have freed. The property
  is about waits that have a semaphore, and holds in spite of stray wakes, because
  they only add units. What they do to handles of other kinds is not modelled.
* `ImageRight`: `linker.c:1574` takes the size of a COPY from a NULL or stale `s`;
  `:975` ignores what pread returned; `:1125` and `:1263` do not unmap on Windows.

## 4. Proofs

`PthreadMutexProof` proves, for every set of threads, every assignment of
distinct identifiers, every subset of the three types and every counter size:
type correctness, `MutualExclusion`, `WordMatchesHolder`, `NoSelfDeadlock`,
`DestroyedIsFree`, `DestroyIsFinal` and `ImplementsLock`; and
`SleepersHaveRescuer` when all threads share one address space
(`OneAddressSpace`, without which it is false, see `MutexProcessShared`).

Assumptions, all about constants: `ThreadsAssumption` (NoOwner is no thread),
`TypesAssumption`, `CountAssumption` (the counter field is not empty) and
`TidAssumption` (thread identifiers are distinct and non-zero, which
`android_thread_id.c` provides for registered threads).

The argument. The safety properties are not inductive: that nobody else holds
the mutex after a successful compare-and-exchange follows only from what the
word says about its holder at every point of every thread. The inductive
invariant is `IInv == TypeOK /\ HolderInv /\ CallInv`. `HolderInv` joins
`MutualExclusion`, `WordMatchesHolder` (the agreement of word and holder, which
allows for the gap between the decrement and the store of a contended NORMAL
unlock) and the shape of the word. `CallInv` says who may be inside a destroyed
mutex (`DeadInv`), which call each `pc` belongs to (`OpInv`) and what each `pc`
implies about the thread's `mval` and `held` (`LocalInv`). Each action preserves
it by one step per conjunct it can disturb. `SleepersHaveRescuer` is inductive
relative to `IInv`: a step inside or outside the library keeps a rescuer for
whoever still sleeps (`RescueInside`, `RescueOutside`).
`ImplementsLock` maps the initial state and each action to an acquire, a
re-acquire, a release or a stutter of `AbstractLock`.

`SemaphoreProof` proves for every set of threads, every maximum and every bound
on the units given: type correctness (the count stays in its field),
`Conservation`, `ImplementsSemaphore`, and `SleepersHaveRescuer` in one address
space. It assumes `SemMaxAssumption` (the maximum is positive),
`NoUnitsAssumption` (the mark of a destroyed semaphore is no number) and
`MaxGivenAssumption`. Its `IInv` is type correctness, `Conservation`, `DeadInv` (a
destroyed semaphore has only posters about to wake inside) and `LocalInv` (what a
thread about to exchange has read: at least 0, more than 0, less than the
maximum). `StepKeeps` reduces a step of one thread to the numbers it changes and
that thread's own part; `NumbersStep` lists what a step can do to the numbers,
and each of the four cases is a step of the abstract semaphore or a stutter.

`OneTimeProof` proves for every set of threads and every `MaxAborts`: type
correctness, `SleepersHaveRescuer` and `ImplementsOneTime`. It assumes
`NobodyAssumption` and `AbortsAssumption`. The invariant has one part per word
(`OnceInv`, `GuardInv`): the word says exactly whether somebody is initialising,
only one thread is, a thread that waits has seen it, and sleepers are at the
place they sleep. `NextSplits` separates the two words, so that each is proved
alone; `RunnersAre` shows that the abstract runner is that one thread.

`CondProof` proves, for every finite set of threads, type correctness and
`NobodyForgotten` (checked as `CondNobodyForgotten`). Its hypothesis
`CondAssumption` is an ASSUME of `Services`: the counter has an even number of
values, and the pulses between two initialisations neither exhaust it nor lead
it to the mark of a destroyed one. It is needed: a waiter that read the counter
before as many pulses as it has values does not notice them (2^31 in the code).
A signal and a waiter's futex call race for one number, so the invariant says
how many pulses lead to each value, and that, while a waiter about to sleep has
read the present value, every item has a pulse still to come. It then counts:
while somebody sleeps, there are at least as many helpers (threads awake that
will take an item, wake a sleeper or pulse) as there are items, which is stronger
than one helper and, unlike that, survives a helper's leaving with an item.

`ThreadLifeProof` proves for every set of threads, every size of the bitmap and
of its words and every number of tries: type correctness, `IdsExact` (what the
run checks as `ThreadIdsExact`) and that no two threads between acquire and
release share an identifier, none of which is 0. Its hypothesis `IdsAssumption`
(at least one identifier besides the main thread's) is an ASSUME of `Services`.
The invariant adds `LocalInv`: a thread that searches has no identifier yet, its
candidate is not 0 or 1, and at the exchange the candidate's bit is set in the
word it read. `SearchStep`, `AllocStep`, `WrapperStep` and `CallerStep` take the
actions in groups. It is `TidAssumption` of `PthreadMutex` for threads up to the
release of their identifier; the code releases it before the destructors of
thread-specific values run, so a destructor that locks a recursive mutex is
outside of both. `RecordsSafe` (no record freed twice, none missing when a join
or its thread needs it) needs no hypothesis: `RInv` says for each step of a join
or detach what state thread, record and handle can be in.

`ServicesProof` proves every safety property that the run `Layer` has of the
services, for `Services`, their composition (in `Layer`, a behaviour whose subject
is a service). `StepOfEach` shows that a step of the composition is, for
each part, one of its own or leaves it alone; `Cond` and `ThreadLife` then bring
their theorems (`CoP` and `ThP` are the proof modules under the substitution of
`Services`). The other parts have invariants of their own:

* `ExitInv`: a handler that was registered is in the list or counted as run, and a
  running one belongs to the library that is finalised; it leaves the list under
  the lock in the step that makes it run, so of two finalisations only one gets it;
* `KeyInv`: a key has one node at most; and at an index that is not overtaken
  there is one node at most, of the key at the index or of the one delete under
  way that will unlink it, and none while a create is about to push there. A
  thread in a destructor has the mutex, and what it creates and deletes there are
  ordinary creates and deletes. It has no hypothesis on what the program does at
  the same time;
* `HookInv`: a hooked name has exactly one entry, with the function it was hooked
  to last, and `HookRoom`: the array written to has room for one more and keeps
  what the old one held. Its hypothesis `TablesExact` speaks of the constant tables only,
  and the run evaluates it (`HooksRight` contains it);
* `FutexInv`: the reference count of an entry is the number of threads that refer
  to it, it is on the list exactly while it is in use, and the units of any
  semaphore are at least the maximum less the waits that have taken one, hence
  positive while `MaxWaits < SemMax`; a stray wake can only add units.

`LinkerProof` and `LinkerUseProof` prove the eight safety properties of the runs
of the linker, and that it implements `AbstractLoader` (`LinkerImplementsLoader`),
for every pool size, every set of libraries, every DT_NEEDED relation, cyclic ones
included, and every number of handles; those about `Dlfcn` for every finite set
of threads. Except for `LinkerAlwaysOwned` the
theorems have the hypothesis `LibDLUnnamed`: no library asks for libdl.so by
name and the program does not open it. It is what the code lacks a defence
against: with such a name `libdl_info` is freed and the lists break, which the
run `LinkerLibdl` shows. `LinkerAssumption` and `DlfcnAssumption` are the
ASSUMEs of the modules (libraries are named, NULL is no entry, finitely many
threads).

The argument has these layers, each inductive relative to those before it.

1. `CountInv == TypeInv /\ ShapeInv /\ WorkInv /\ UseInv`. `TypeInv` describes
   both lists as functional chains from `libdl_info` and `freelist`, never as
   sets to be counted: `PushOn` and `Unlinked` say what insertion and removal do
   to a chain, by induction along it. `ShapeInv` says what the stack of a dlopen that
   loads, of one that runs constructors and of a dlclose looks like, and to whom a
   result is returned; `WorkInv` which state the soinfo of a frame is in (one
   being linked is under one `link_image` frame only); `UseInv` is `RefcountExact`
   with what an unload in progress has already dropped.
2. `PresentInv`: a recorded library has a positive count, is linked and is the
   one asked for. An unload frees only what nothing records, because the count
   has come to 0 and is exact.
3. `HandleInv` adds where constructors and destructors have got to: `inits` is 1
   exactly if they were called and are not under way (`Started`), what a dlopen
   is initialising stays usable (`Opening`), and `finis` is 0 except under an
   `unload` past its last user (`Stopping`).
4. `OwnedInv` is about `Dlfcn` alone: while no thread is in the linker the stack
   is empty (`Quiet`).
5. `OwingInv`: a thread that waits for `dl_lock` with a handle has a reference
   that no other call can close, so `ArgumentUsable` holds when its turn comes.
6. `DebugInv`: the `link_map` entries of mapped libraries are a doubly linked
   chain; inserting and removing keep it one. `WalkedBack` and `WalkedAhead` say
   that a walk from its one end, or the other, meets all of them.
7. `Acyclic` and `InOrder`: recorded dependencies and constructor frames have
   ranks, so that no chain of records comes back to where it began: of a cycle
   the last link always fails. With it, `Ready` (whatever an initialised library
   records has been initialised) is kept, and so an unload works on initialised
   libraries only (`StoppedFrames`), which is what `FiniAfterInit` needs, since
   `call_destructors` looks at nothing.
8. `LoaderInv` is the inductive invariant of the refinement: `HandleInv`,
   `Acyclic`, `InOrder`, and what makes the status of a *name* well defined:
   `NamesInv` (a name has one entry on solist, and a load under way has found that
   it has none), `BegunInv` (an entry that was not initialised has no destructors
   run), `StubsInv` (a stub has no image, is complete, and is a preloaded name),
   `CompleteInv` (a linked entry that no link is working on records a library for
   each of its DT_NEEDED names) and `FiniDone` (beneath an unload its own
   destructors have run). `LoaderStep` then maps each action: the return of a
   dlopen that was asked for is `Open`, of a dlclose `Close`, the end of
   `link_image` `Link`, its failure `Fail`, the end of the constructors `Start`, of
   the destructors `Stop`, the entry's release `Remove`, the host's calls `Install`
   and `Withdraw`; every other step leaves status and opens alone.

Each action of `Linker` has a lemma named `...Step` with its effect on lists,
stack and debug map, and one named `...Fields` with its effect on the fields of
the soinfo structures; layers 2 to 8 cite these and expand no action again.

Induction along a list or over a number is done on sets: the library's induction
theorems take an operator, so `SetInduction` and `LeastNumber` go through the
least element of a set of numbers instead.

Only model-checked:

* the liveness properties (`NobodyStranded`, `NoSleeperMissesAUnit`,
  `CallersReleased`, `CallsReturn`, `LockReleased`, `CondSleepersServed`), because
  the prover handles neither fairness nor ENABLED;
* what `Layer` adds to the services, whose properties are about tables and functions
  defined by recursion over data, which induction would have to prove, and
  `TablesExact`, which is about tables of several hundred names;
* the five properties that the code violates.

## 5. Not modelled

* Start-up of an executable under the linker (`__linker_init`, `somain`,
  preloading, `linker_environ.c`): never run when ancmp is used as a library.
  `SymbolLookup` does have preloaded libraries and an executable in its scope.
* The characters of a name in `elfhash`: `SymbolLookup` takes any hash.
* In `Image`: more than one short read of a load; a short read that delivers the
  dynamic section and not what it points to; a COPY that reaches past its segment.
  What goes wrong when memory is not unmapped on Windows: `Linker` has munmap.
* The crash of a Windows wake whose freed entry is no longer mapped, and what it
  releases if the memory holds a handle of another kind.
* `dl_iterate_phdr`; the text of dlerror's messages; logging; debugger stubs.
* Getters and setters of pthread attributes; functions that only read or return
  one constant (`sem_getvalue`, `sem_open`, `pthread_equal`).
* The random generator: its permutation is data, its control one counter.
* Conversions of `stat`, `ioctl`, `fcntl`, `dirent` and times, stdio wrappers,
  string, wide-character and time-zone functions, `fnmatch` (taken from another C
  library), mapping and ABI wrappers: one call each, no state of their own.
* `android_listen` and the choice between a socket and a file in the Windows
  `close`, `read` and `write`.
* Process-shared recursive mutexes: identifiers are per process there, outside
  `TidAssumption`. A thread of the host that has no identifier: outside it too.
* The host's calls of `android_library_create` and `_destroy` while a program's
  thread runs the linker: nothing says that they may be made then.

The reasons are with each component in `PROJECT.json`.

## 6. Plan

Done, most important behaviour first: `Futex`, `PthreadMutex`, `Semaphore` and
`OneTime`; `Linker` and `Dlfcn`; the parts of `Services`, each with its proofs;
what `Layer` adds to them, model-checked.

Left: theorems.

1. The rest of `Layer` as far as it needs no induction over data: that errno, once
   read after a failed call, is the translated one; that `PagesRight` follows from
   the order of protection.
