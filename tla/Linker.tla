------------------------------- MODULE Linker -------------------------------
(***************************************************************************)
(* The dynamic linker of linker.c: the soinfo pool with its two lists,     *)
(* loading and linking a library with everything it needs, constructors,   *)
(* reference counts and unloading.  linker.c recurses; here the C stack is *)
(* `stack` and every function that recurses or can fail is taken step by   *)
(* step.  Whoever calls in holds dl_lock (module Dlfcn), so there is one   *)
(* stack.                                                                  *)
(***************************************************************************)
EXTENDS Integers, Sequences, FiniteSets, Functions, DebugMap

CONSTANTS
  Libraries,  (* library names: what find_library compares                 *)
  LibDL,      (* the name of the static libdl_info                         *)
  Stubs,      (* names the host passes to android_library_create           *)
  Needed,     (* the DT_NEEDED entries of each library file, in order      *)
  Opened,     (* the names the program passes to dlopen                    *)
  SO_MAX,     (* entries in sopool                                         *)
  MaxHandles  (* bound: dlopen handles the program holds at a time         *)

ASSUME LinkerAssumption ==
  /\ Stubs \subseteq Libraries /\ LibDL \in Libraries \ Stubs
  /\ Needed \in [Libraries -> Seq(Libraries)]
  /\ Opened \subseteq Libraries
  /\ SO_MAX \in Nat /\ IsFiniteSet(Stubs) /\ Cardinality(Stubs) <= SO_MAX
  /\ MaxHandles \in Nat

VARIABLES
  info,       (* the soinfo structures: 0 is libdl_info, the others sopool *)
  next,       (* soinfo.next, the link of both lists                       *)
  freelist, sonext, socount,
  stack,      (* calls in progress, innermost last                         *)
  ret,        (* what the call that just returned returned                 *)
  handles     (* history: handles dlopen gave out and dlclose did not get  *)

lists == << next, freelist, sonext, socount >>
pool  == << info, lists >>
vars  == << pool, stack, ret, handles, debugMap >>

NOTHING == -2     (* ret when no call has just returned                    *)

libdl_info == 0
Slots == 0 .. SO_MAX

validate_soinfo(si) == si \in Slots

(* `image` is "none" while size is 0, and says whether the range           *)
(* [base, base + size) is mapped otherwise.  `deps` is what link_image     *)
(* wrote over the DT_NEEDED entries so far.  `inits` and `finis` are       *)
(* history: how often the init and fini functions ran to their end.        *)
Soinfo(name) ==
  [name |-> name, linked |-> FALSE, error |-> FALSE, refcount |-> 0,
   constructors_called |-> FALSE, image |-> "none", deps |-> << >>,
   inits |-> 0, finis |-> 0]

(* The slots on the list that starts at p, in order.                       *)
Follow(link, p) ==
  LET after == [s \in Slots \cup {NULL} |-> IF s = NULL THEN NULL ELSE link[s]]
      at[k \in 0 .. SO_MAX + 1] == IF k = 0 THEN p ELSE after[at[k - 1]]
  IN  [k \in 1 .. Cardinality({ k \in 0 .. SO_MAX + 1 : at[k] # NULL }) |-> at[k - 1]]
From(p) == Follow(next, p)

On(list) == { list[k] : k \in DOMAIN list }
Solist   == From(libdl_info)

(* The first entry of solist with this name.                               *)
Lookup(n) ==
  LET solist == Solist
      named  == { k \in DOMAIN solist : info[solist[k]].name = n }
  IN  IF named = {} THEN NULL
      ELSE solist[CHOOSE k \in named : \A j \in named : k <= j]

(* android_linker_init and the host create the stub libraries: linked, no  *)
(* image, nobody counts as using them.                                     *)
Stub(n) == [Soinfo(n) EXCEPT !.linked = TRUE]
StubCount == Cardinality(Stubs)

Init ==
  /\ \E order \in [1 .. StubCount -> Stubs] :
       /\ \A i, j \in 1 .. StubCount : order[i] = order[j] => i = j
       /\ info = [s \in Slots |-> IF s = libdl_info THEN Stub(LibDL)
                                  ELSE IF s <= StubCount THEN Stub(order[s])
                                  ELSE Soinfo(LibDL)]
  /\ next = [s \in Slots |-> IF s < StubCount THEN s + 1 ELSE NULL]
  /\ freelist = NULL
  /\ sonext = StubCount
  /\ socount = StubCount
  /\ stack = << >>
  /\ ret = NOTHING
  /\ handles = [s \in Slots |-> 0]
  /\ DebugMapInit(Slots)

-----------------------------------------------------------------------------
(* alloc_info: take the head of the freelist, or the next unused entry of  *)
(* sopool, and append it to solist.                                        *)
CanAlloc == freelist # NULL \/ socount < SO_MAX

AllocSlot == IF freelist # NULL THEN freelist ELSE socount + 1

AllocInfo(contents) ==
  LET si == AllocSlot
  IN /\ CanAlloc
     /\ socount' = IF freelist = NULL THEN socount + 1 ELSE socount
     /\ freelist' = IF freelist = NULL THEN NULL ELSE next[freelist]
     /\ info' = [info EXCEPT ![si] = contents]
     /\ next' = [next EXCEPT ![sonext] = si, ![si] = NULL]
     /\ sonext' = si
     /\ ClearLinkMap(si)

(* Mutant: freeing the last entry of solist leaves sonext pointing at it.  *)
FreeInfoKeepsSonext(si) ==
  /\ next' = [s \in Slots |-> IF s = si THEN freelist
                              ELSE IF next[s] = si THEN next[si] ELSE next[s]]
  /\ freelist' = si
  /\ UNCHANGED sonext

(* free_info: unlink from solist and push on the freelist.  A soinfo that  *)
(* is not on solist is left alone; `prev` is NULL for the head of solist.  *)
FreeInfo(si) ==
  IF si \notin On(Solist)
  THEN UNCHANGED << next, freelist, sonext >>
  ELSE LET prevs == { p \in On(Solist) : next[p] = si }
           prev  == IF prevs = {} THEN NULL ELSE CHOOSE p \in prevs : TRUE
       IN /\ next' = [s \in Slots |-> IF s = si THEN freelist
                                      ELSE IF s = prev THEN next[si] ELSE next[s]]
          /\ sonext' = IF si = sonext THEN prev ELSE sonext
          /\ freelist' = si

-----------------------------------------------------------------------------
(* The stack.  A frame is a function with its soinfo, its position in the  *)
(* DT_NEEDED entries and, for find_library, the name it looks for.         *)
Frame(fn, si, i, name) == [fn |-> fn, si |-> si, i |-> i, name |-> name]
Idle     == stack = << >>
Top      == stack[Len(stack)]
InFn(fn) == stack # << >> /\ Top.fn = fn
Beneath  == SubSeq(stack, 1, Len(stack) - 1)

Become(frame) == stack' = Append(Beneath, frame)
Call(frame)   == stack' = Append(stack, frame)
CallFrom(frame, callee) == stack' = Append(Append(Beneath, frame), callee)
Return(value) == stack' = Beneath /\ ret' = value

NeededBy(si) == Needed[info[si].name]

(* find_library: a library already on solist is returned only when it is   *)
(* linked; one still being linked is a circular dependency; one that       *)
(* failed before fails again.  Otherwise it is loaded.                     *)
FindLibrary ==
  /\ InFn("find_library")
  /\ LET si == Lookup(Top.name)
     IN IF si # NULL
        THEN Return(IF info[si].linked /\ ~info[si].error THEN si ELSE NULL)
        ELSE Become(Frame("load_library", NULL, 0, Top.name)) /\ UNCHANGED ret
  /\ UNCHANGED << pool, handles, debugMap >>

(* load_library finds no file, or one that get_lib_extents refuses.        *)
LoadRefused ==
  /\ InFn("load_library") /\ Top.si = NULL
  /\ Return(NULL)
  /\ UNCHANGED << pool, handles, debugMap >>

(* load_library, up to the soinfo.                                         *)
LoadAlloc ==
  /\ InFn("load_library") /\ Top.si = NULL
  /\ IF CanAlloc
     THEN /\ AllocInfo(Soinfo(Top.name))
          /\ Become([Top EXCEPT !.si = AllocSlot])
          /\ UNCHANGED ret
     ELSE Return(NULL) /\ UNCHANGED << pool, debugMap >>
  /\ UNCHANGED handles

(* load_segments maps the file, and init_library links it.                 *)
LoadSegments ==
  /\ InFn("load_library") /\ Top.si # NULL
  /\ info' = [info EXCEPT ![Top.si].image = "mapped"]
  /\ Become(Frame("link_image", Top.si, 1, Top.name))
  /\ UNCHANGED << lists, ret, handles, debugMap >>

(* There is no memory, or load_segments fails and has unmapped what it     *)
(* mapped: the soinfo is freed at once.                                    *)
LoadFails ==
  /\ InFn("load_library") /\ Top.si # NULL
  /\ FreeInfo(Top.si)
  /\ Return(NULL)
  /\ UNCHANGED << info, socount, handles, debugMap >>

(* link_image fails: its caller init_library unmaps the image, but the     *)
(* soinfo stays on solist, marked, with what it recorded so far.           *)
LinkFail(linked) ==
  /\ info' = [info EXCEPT ![Top.si].error = TRUE, ![Top.si].linked = linked,
                          ![Top.si].image = "unmapped"]
  /\ Return(NULL)
  /\ UNCHANGED debugMap

(* link_image finds the dynamic section unusable.                          *)
LinkParseFail ==
  /\ InFn("link_image") /\ Top.i = 1 /\ ret = NOTHING
  /\ LinkFail(FALSE)
  /\ UNCHANGED << lists, handles >>

(* The DT_NEEDED loop of link_image: find the next library ...             *)
LinkFind ==
  /\ InFn("link_image") /\ Top.i <= Len(NeededBy(Top.si)) /\ ret = NOTHING
  /\ Call(Frame("find_library", NULL, 0, NeededBy(Top.si)[Top.i]))
  /\ UNCHANGED << pool, ret, handles, debugMap >>

(* Mutant: the library is recorded but not counted.                        *)
LinkNeededUncounted ==
  /\ InFn("link_image") /\ ret # NOTHING
  /\ IF ret = NULL
     THEN LinkFail(FALSE)
     ELSE /\ info' = [info EXCEPT ![Top.si].deps = Append(@, ret)]
          /\ Become([Top EXCEPT !.i = @ + 1])
          /\ ret' = NOTHING
          /\ UNCHANGED debugMap
  /\ UNCHANGED << lists, handles >>

(* ... and record it in the DT_NEEDED entry, one more user of it.          *)
LinkNeeded ==
  /\ InFn("link_image") /\ ret # NOTHING
  /\ IF ret = NULL
     THEN LinkFail(FALSE)
     ELSE /\ info' = [info EXCEPT ![Top.si].deps = Append(@, ret),
                                  ![ret].refcount = @ + 1]
          /\ Become([Top EXCEPT !.i = @ + 1])
          /\ ret' = NOTHING
          /\ UNCHANGED debugMap
  /\ UNCHANGED << lists, handles >>

(* With everything it needs found, link_image may meet a symbol that no    *)
(* library defines or a relocation it does not know.                       *)
LinkRelocFail ==
  /\ InFn("link_image") /\ Top.i > Len(NeededBy(Top.si)) /\ ret = NOTHING
  /\ LinkFail(FALSE)
  /\ UNCHANGED << lists, handles >>

(* Once relocated it has FLAG_LINKED, and keeps it if the GNU_RELRO        *)
(* protection then fails.  At the end the debugger is told.                *)
LinkFinish ==
  /\ InFn("link_image") /\ Top.i > Len(NeededBy(Top.si)) /\ ret = NOTHING
  /\ \/ /\ info' = [info EXCEPT ![Top.si].linked = TRUE]
        /\ InsertLinkMap(Top.si)
        /\ Return(Top.si)
     \/ LinkFail(TRUE)
  /\ UNCHANGED << lists, handles >>

-----------------------------------------------------------------------------
(* android_dlopen, under dl_lock: find the library ...                     *)
HandleCount == FoldFunction(+, 0, handles)

Dlopen(n) ==
  /\ Idle /\ HandleCount < MaxHandles
  /\ stack' = << Frame("dlopen", NULL, 0, n), Frame("find_library", NULL, 0, n) >>
  /\ UNCHANGED << pool, ret, handles, debugMap >>

(* ... give up when there is none, or initialise it ...                    *)
DlopenFound ==
  /\ InFn("dlopen") /\ ret # NOTHING
  /\ ret' = NOTHING
  /\ IF ret = NULL
     THEN stack' = Beneath
     ELSE CallFrom([Top EXCEPT !.si = ret], Frame("constructors", ret, 0, Top.name))
  /\ UNCHANGED << pool, handles, debugMap >>

(* Mutant: the handle is not counted.                                      *)
DlopenReturnUncounted ==
  /\ InFn("dlopen") /\ Top.si # NULL
  /\ handles' = [handles EXCEPT ![Top.si] = @ + 1]
  /\ stack' = Beneath
  /\ UNCHANGED << pool, ret, debugMap >>

(* ... and hand it out, one more user of it.                               *)
DlopenReturn ==
  /\ InFn("dlopen") /\ Top.si # NULL
  /\ info' = [info EXCEPT ![Top.si].refcount = @ + 1]
  /\ handles' = [handles EXCEPT ![Top.si] = @ + 1]
  /\ stack' = Beneath
  /\ UNCHANGED << lists, ret, debugMap >>

-----------------------------------------------------------------------------
(* Mutants: own init functions only; the libraries needed in a loop that   *)
(* does not advance.                                                       *)
CtorEnterAlone ==
  /\ InFn("constructors") /\ Top.i = 0
  /\ IF info[Top.si].constructors_called
     THEN stack' = Beneath /\ UNCHANGED info
     ELSE /\ info' = [info EXCEPT ![Top.si].constructors_called = TRUE]
          /\ Become([Top EXCEPT !.i = Len(info[Top.si].deps) + 1])
  /\ UNCHANGED << lists, ret, handles, debugMap >>

CtorNeededStuck ==
  /\ InFn("constructors") /\ Top.i \in DOMAIN info[Top.si].deps
  /\ CallFrom(Top, Frame("constructors", info[Top.si].deps[Top.i], 0, Top.name))
  /\ UNCHANGED << pool, ret, handles, debugMap >>

(* call_constructors_recursive: the flag first, then the libraries it      *)
(* needs, then its own init functions, which are user code.                *)
CtorEnter ==
  /\ InFn("constructors") /\ Top.i = 0
  /\ IF info[Top.si].constructors_called
     THEN stack' = Beneath /\ UNCHANGED info
     ELSE /\ info' = [info EXCEPT ![Top.si].constructors_called = TRUE]
          /\ Become([Top EXCEPT !.i = 1])
  /\ UNCHANGED << lists, ret, handles, debugMap >>

CtorNeeded ==
  /\ InFn("constructors") /\ Top.i \in DOMAIN info[Top.si].deps
  /\ LET lsi == info[Top.si].deps[Top.i]
     IN IF validate_soinfo(lsi)
        THEN CallFrom([Top EXCEPT !.i = @ + 1], Frame("constructors", lsi, 0, Top.name))
        ELSE Become([Top EXCEPT !.i = @ + 1])
  /\ UNCHANGED << pool, ret, handles, debugMap >>

(* Mutant: the init functions are not called.                              *)
CtorInitSkipped ==
  /\ InFn("constructors") /\ Top.i > Len(info[Top.si].deps)
  /\ stack' = Beneath
  /\ UNCHANGED << pool, ret, handles, debugMap >>

CtorInit ==
  /\ InFn("constructors") /\ Top.i > Len(info[Top.si].deps)
  /\ Become(Frame("init", Top.si, 0, Top.name))
  /\ UNCHANGED << pool, ret, handles, debugMap >>

InitReturns ==
  /\ InFn("init")
  /\ info' = [info EXCEPT ![Top.si].inits = @ + 1]
  /\ stack' = Beneath
  /\ UNCHANGED << lists, ret, handles, debugMap >>

-----------------------------------------------------------------------------
(* android_dlclose of a handle the program owns, and unload_library: the   *)
(* last user gone, run the destructors, which are user code ...            *)
Dlclose(s) ==
  /\ Idle /\ handles[s] > 0
  /\ handles' = [handles EXCEPT ![s] = @ - 1]
  /\ stack' = << Frame("unload", s, 0, info[s].name) >>
  /\ UNCHANGED << pool, ret, debugMap >>

(* Mutant: the last but one user unloads the library.                      *)
UnloadEnterEarly ==
  /\ InFn("unload") /\ Top.i = 0
  /\ IF info[Top.si].refcount <= 2
     THEN /\ CallFrom([Top EXCEPT !.i = 1], Frame("fini", Top.si, 0, Top.name))
          /\ UNCHANGED info
     ELSE /\ info' = [info EXCEPT ![Top.si].refcount = @ - 1]
          /\ stack' = Beneath
  /\ UNCHANGED << lists, ret, handles, debugMap >>

UnloadEnter ==
  /\ InFn("unload") /\ Top.i = 0
  /\ IF info[Top.si].refcount = 1
     THEN /\ CallFrom([Top EXCEPT !.i = 1], Frame("fini", Top.si, 0, Top.name))
          /\ UNCHANGED info
     ELSE /\ info' = [info EXCEPT ![Top.si].refcount = @ - 1]
          /\ stack' = Beneath
  /\ UNCHANGED << lists, ret, handles, debugMap >>

FiniReturns ==
  /\ InFn("fini")
  /\ info' = [info EXCEPT ![Top.si].finis = @ + 1]
  /\ stack' = Beneath
  /\ UNCHANGED << lists, ret, handles, debugMap >>

(* ... drop the libraries it needs, in order ...                           *)
UnloadNeeded ==
  /\ InFn("unload") /\ Top.i \in DOMAIN info[Top.si].deps
  /\ info' = [info EXCEPT ![Top.si].deps[Top.i] = NULL]
  /\ LET lsi == info[Top.si].deps[Top.i]
     IN IF validate_soinfo(lsi)
        THEN CallFrom([Top EXCEPT !.i = @ + 1], Frame("unload", lsi, 0, Top.name))
        ELSE Become([Top EXCEPT !.i = @ + 1])
  /\ UNCHANGED << lists, ret, handles, debugMap >>

(* ... and unmap and free it.                                              *)
AboutToFree == InFn("unload") /\ Top.i > 0 /\ Top.i > Len(info[Top.si].deps)

UnloadFree ==
  /\ AboutToFree
  /\ info' = [info EXCEPT ![Top.si].refcount = 0,
                          ![Top.si].image = IF @ = "none" THEN @ ELSE "unmapped"]
  /\ RemoveLinkMap(Top.si)
  /\ FreeInfo(Top.si)
  /\ stack' = Beneath
  /\ UNCHANGED << socount, ret, handles >>

-----------------------------------------------------------------------------
(* The host adds and removes stub libraries between calls: it creates each *)
(* name once and destroys only what nobody uses.                           *)
LibraryCreate(n) ==
  /\ Idle /\ Lookup(n) = NULL
  /\ AllocInfo(Stub(n))
  /\ UNCHANGED << stack, ret, handles >>

LibraryDestroy(s) ==
  /\ Idle /\ s \in On(Solist) \ {libdl_info}
  /\ info[s].image = "none" /\ info[s].refcount = 0
  /\ FreeInfo(s)
  /\ UNCHANGED << info, socount, stack, ret, handles, debugMap >>

-----------------------------------------------------------------------------
Find   == FindLibrary \/ LoadRefused \/ LoadAlloc \/ LoadSegments \/ LoadFails
Link   == LinkParseFail \/ LinkFind \/ LinkNeeded \/ LinkRelocFail \/ LinkFinish
Open   == DlopenFound \/ DlopenReturn
Ctors  == CtorEnter \/ CtorNeeded \/ CtorInit \/ InitReturns
Unload == UnloadEnter \/ FiniReturns \/ UnloadNeeded \/ UnloadFree

(* The steps of a call in progress.                                        *)
Inside == Find \/ Link \/ Open \/ Ctors \/ Unload

Next ==
  \/ \E n \in Opened : Dlopen(n)
  \/ \E s \in Slots : Dlclose(s) \/ LibraryDestroy(s)
  \/ \E n \in Stubs : LibraryCreate(n)
  \/ Inside

Spec == Init /\ [][Next]_vars

(* The thread that called in keeps running.                                *)
FairSpec == Spec /\ WF_vars(Inside)

-----------------------------------------------------------------------------
(* alloc_info and free_info keep two chains through the same `next` field: *)
(* solist from libdl_info to sonext and the freelist; together they hold   *)
(* every entry of the pool handed out so far, none of them twice.          *)
Distinct(list) == Cardinality(On(list)) = Len(list)
ListsWellFormed ==
  /\ Distinct(Solist) /\ Distinct(From(freelist))
  /\ Solist[Len(Solist)] = sonext
  /\ On(Solist) \cap On(From(freelist)) = {}
  /\ On(Solist) \cup On(From(freelist)) = 0 .. socount

(* The reference count is exact at every step of every call: handles the   *)
(* program holds, DT_NEEDED entries that record the library (those of      *)
(* failed libraries too), and uses an unload in progress has taken over.   *)
RecordedIn(s) ==
  UNION { {d} \X { i \in DOMAIN info[d].deps : info[d].deps[i] = s } : d \in Slots }
BeingDropped(s) ==
  { k \in DOMAIN stack : stack[k].fn = "unload" /\ stack[k].si = s }
RefcountExact ==
  \A s \in Slots :
    info[s].refcount =
      handles[s] + Cardinality(RecordedIn(s)) + Cardinality(BeingDropped(s))

(* Whatever is recorded as needed is there: on solist, linked, mapped, and *)
(* the library that was asked for by name.  So symbol lookup, constructors *)
(* and dlsym through a DT_NEEDED entry never touch a freed soinfo.         *)
Usable(s) ==
  /\ s \in On(Solist) /\ info[s].linked /\ ~info[s].error
  /\ info[s].image # "unmapped"
NeededPresent ==
  \A s \in On(Solist) : \A i \in DOMAIN info[s].deps :
    LET d == info[s].deps[i]
    IN d # NULL => Usable(d) /\ info[d].name = NeededBy(s)[i]

(* A handle the program holds is usable and its library initialised, and   *)
(* its destructors have not run, while dlopens that fail, unloads of other *)
(* libraries and reuse of pool entries go on.                              *)
HandlesUsable ==
  \A s \in Slots :
    handles[s] > 0 => Usable(s) /\ info[s].inits = 1 /\ info[s].finis = 0

(* Destructors run only for a library whose constructors ran, although     *)
(* call_destructors does not look at constructors_called.                  *)
FiniAfterInit == \A s \in Slots : info[s].finis <= info[s].inits

(* The debugger's list, followed back from its tail, holds exactly the     *)
(* libraries that were linked from a file and are not yet unmapped; and so *)
(* does what a debugger reads forward from r_map as long as r_map is the   *)
(* first of them.  The removal of the first one does not move r_map: from  *)
(* then on a debugger reads from a freed entry, until the list has become  *)
(* empty and a library is inserted again.                                  *)
DebugListExact ==
  LET listed == { s \in On(Solist) : info[s].linked /\ ~info[s].error
                                       /\ info[s].image = "mapped" }
  IN  /\ FromTail = listed
      /\ r_map \in listed /\ l_prev[r_map] = NULL => FromHead = listed

(* Every dlopen and dlclose returns, cyclic DT_NEEDED entries included.    *)
CallsReturn == ~Idle ~> Idle

(* linker.c:336 "prev will never be NULL, because the first entry in       *)
(* solist is always the static libdl_info": the entry an unload is about   *)
(* to free has a predecessor.                                              *)
FreeHasPrev == AboutToFree => \E p \in On(Solist) : next[p] = Top.si

(* android_dlfcn.c:147 "Determine if this address can be found in any      *)
(* library currently mapped": what find_containing_library can return      *)
(* between calls is mapped.                                                *)
HasRange(s) == info[s].image # "none"
DladdrFindsMapped ==
  Idle => \A s \in On(Solist) : HasRange(s) => info[s].image = "mapped"

-----------------------------------------------------------------------------
(* The promise to the program.                                             *)
Entries == Slots \cup {NULL}
Status == [s \in Entries |->
  IF s = NULL THEN "absent"
  ELSE IF info[s].error THEN "failed"
  ELSE IF ~info[s].linked THEN "absent"
  ELSE IF info[s].finis > 0 THEN "stopped"
  ELSE IF info[s].image = "none" THEN "stub"
  ELSE IF info[s].inits > 0 THEN "started" ELSE "linked"]
Opens == [s \in Entries |-> IF s = NULL THEN 0 ELSE handles[s]]

LibraryStatus == [n \in Libraries |-> Status[Lookup(n)]]
LibraryOpens  == [n \in Libraries |-> Opens[Lookup(n)]]

Loader == INSTANCE AbstractLoader
            WITH status <- LibraryStatus, opens <- LibraryOpens,
                 Preloaded <- Stubs \cup {LibDL}
ImplementsLoader == Loader!Spec
=============================================================================
