-------------------------- MODULE LinkerUseProof ---------------------------
(***************************************************************************)
(* What the program may rely on when it uses the linker, for every value   *)
(* of the constants: what is needed is present, a handle can be used, the  *)
(* dl functions own the linker while they use it, an argument can be used  *)
(* when its call comes to it, the debugger's list is exact, and            *)
(* destructors run only after constructors; and the linker implements      *)
(* AbstractLoader.  Built on LinkerProof.                                  *)
(***************************************************************************)
EXTENDS Dlfcn, LinkerProof

-----------------------------------------------------------------------------
(* What is found is what was asked for, and is usable.                     *)
UsableIn(r, s, on) == s \in on /\ r.linked /\ ~r.error /\ r.image # "unmapped"
AskedBy(f, x) == IF f.fn = "dlopen" THEN f.name ELSE Needed[x[f.si].name][f.i]
AskedFrames(t, x) ==
  \A k \in 2 .. Len(t) :
    t[k].fn \in Finding \cup {"link_image"} => t[k].name = AskedBy(t[k - 1], x)
AskedRet(t, x, r, on) ==
  r \notin {NOTHING, NULL} => UsableIn(x[r], r, on) /\ x[r].name = AskedBy(t[Len(t)], x)
LinkedMapped ==
  \A s \in Slots :
    s \in On(Solist) /\ info[s].linked /\ ~info[s].error => info[s].image # "unmapped"
AskedInv ==
  AskedFrames(stack, info) /\ AskedRet(stack, info, ret, On(Solist)) /\ LinkedMapped
PresentInv == AskedInv /\ NeededPresent

(* Usable, of a soinfo and the list it should be on.                       *)
LEMMA UsableIs ==
  ASSUME NEW s
  PROVE  /\ Usable(s) <=> UsableIn(info[s], s, On(Solist))
         /\ Usable(s)' <=> UsableIn(info'[s], s, On(Solist)')
BY DEF Usable, UsableIn

(* NeededPresent, entry by entry.                                          *)
Present(x, on) ==
  \A s \in Slots : s \in on =>
    \A i \in 1 .. Len(x[s].deps) :
      x[s].deps[i] # NULL =>
        /\ UsableIn(x[x[s].deps[i]], x[s].deps[i], on)
        /\ x[x[s].deps[i]].name = Needed[x[s].name][i]

(* NeededPresent, of all soinfo structures and solist.                     *)
LEMMA PresentIs ==
  ASSUME TypeInv
  PROVE  NeededPresent <=> Present(info, On(Solist))
<1>1. \A s \in Slots : DOMAIN info[s].deps = 1 .. Len(info[s].deps)
  BY DepsFields DEF TypeInv
<1>2. On(Solist) \subseteq Slots
  BY ListsRight DEF TypeInv
<1>3. ASSUME NEW s \in Slots, s \in On(Solist)
      PROVE  (\A i \in DOMAIN info[s].deps :
                LET d == info[s].deps[i]
                IN d # NULL => Usable(d) /\ info[d].name = NeededBy(s)[i])
             <=> (\A i \in 1 .. Len(info[s].deps) :
                    info[s].deps[i] # NULL =>
                      /\ UsableIn(info[info[s].deps[i]], info[s].deps[i], On(Solist))
                      /\ info[info[s].deps[i]].name = Needed[info[s].name][i])
  BY <1>1, UsableIs DEF NeededBy
<1>4. CASE NeededPresent
  BY <1>3, <1>4 DEF NeededPresent, Present
<1>5. CASE Present(info, On(Solist))
  BY <1>2, <1>3, <1>5 DEF NeededPresent, Present
<1> QED BY <1>4, <1>5

(* The same of the state after a step.                                     *)
LEMMA PresentIsNext ==
  ASSUME TypeInv', NEW on, on = On(Solist)', Present(info', on)
  PROVE  NeededPresent'
<1>1. TypeInv' /\ Present(info', On(Solist)')
  OBVIOUS
<1>2. (TypeInv => (NeededPresent <=> Present(info, On(Solist))))'
  BY PresentIs, PTL
<1> QED BY <1>1, <1>2 DEF Present, UsableIn

(* What keeps the recorded libraries present: an entry that is dropped, an *)
(* entry of solist nobody records, and a new soinfo that records nothing.  *)
KeepsPresent(x, y, on, on2, gone) ==
  /\ \A s \in Slots : s \in on2 => s \in on
  /\ \A s \in Slots : y[s].name = x[s].name
  /\ \A s \in Slots : s \in on2 =>
       /\ Len(y[s].deps) = Len(x[s].deps)
       /\ \A i \in 1 .. Len(x[s].deps) :
            y[s].deps[i] # NULL => y[s].deps[i] = x[s].deps[i]
  /\ \A s \in Slots : s \in on2 =>
       \A i \in 1 .. Len(x[s].deps) : x[s].deps[i] # NULL => x[s].deps[i] # gone
  /\ \A d \in Slots : d # gone /\ UsableIn(x[d], d, on) => UsableIn(y[d], d, on2)

(* NeededPresent is kept when what is recorded stays usable under its      *)
(* name.                                                                   *)
LEMMA PresentKept ==
  ASSUME NEW x \in [Slots -> Soinfos], NEW y \in [Slots -> Soinfos],
         NEW on, NEW on2, NEW gone, Present(x, on), KeepsPresent(x, y, on, on2, gone)
  PROVE  Present(y, on2)
<1> USE DEF KeepsPresent
<1>1. SUFFICES ASSUME NEW s \in Slots, s \in on2, NEW i \in 1 .. Len(y[s].deps),
                      y[s].deps[i] # NULL
               PROVE  /\ UsableIn(y[y[s].deps[i]], y[s].deps[i], on2)
                      /\ y[y[s].deps[i]].name = Needed[y[s].name][i]
  BY DEF Present
<1>2. PICK d : d = y[s].deps[i]
  OBVIOUS
<1>3. i \in 1 .. Len(x[s].deps) /\ d = x[s].deps[i] /\ d # NULL /\ d # gone /\ s \in on
  BY <1>1, <1>2
<1>4. d \in Slots
  <2>1. x[s].deps \in Seq(PoolEntry \cup {NULL})
    BY DEF Soinfos
  <2>2. x[s].deps[i] \in PoolEntry \cup {NULL}
    BY <1>3, <2>1
  <2> QED BY <1>3, <2>2, PoolEntries
<1>5. UsableIn(x[d], d, on) /\ x[d].name = Needed[x[s].name][i]
  BY <1>3 DEF Present
<1> QED BY <1>2, <1>3, <1>4, <1>5

(* A new soinfo on the list records nothing, and the others are as they    *)
(* were.                                                                   *)
LEMMA PresentGrown ==
  ASSUME NEW x \in [Slots -> Soinfos], NEW y \in [Slots -> Soinfos],
         NEW on, NEW a \in Slots, a \notin on, Present(x, on),
         \A s \in Slots : s # a => y[s] = x[s], y[a].deps = << >>
  PROVE  Present(y, on \cup {a})
<1>1. SUFFICES ASSUME NEW s \in Slots, s \in on \cup {a}, NEW i \in 1 .. Len(y[s].deps),
                      y[s].deps[i] # NULL
               PROVE  /\ UsableIn(y[y[s].deps[i]], y[s].deps[i], on \cup {a})
                      /\ y[y[s].deps[i]].name = Needed[y[s].name][i]
  BY DEF Present
<1>2. s # a
  <2>1. Len(y[a].deps) = 0
    OBVIOUS
  <2> QED BY <1>1, <2>1
<1>3. PICK d : d = y[s].deps[i]
  OBVIOUS
<1>4. i \in 1 .. Len(x[s].deps) /\ d = x[s].deps[i] /\ d # NULL /\ s \in on /\ y[s] = x[s]
  BY <1>1, <1>2, <1>3
<1>5. d \in Slots
  <2>1. x[s].deps \in Seq(PoolEntry \cup {NULL})
    BY DEF Soinfos
  <2>2. x[s].deps[i] \in PoolEntry \cup {NULL}
    BY <1>4, <2>1
  <2> QED BY <1>4, <2>2, PoolEntries
<1>6. UsableIn(x[d], d, on) /\ x[d].name = Needed[x[s].name][i]
  BY <1>4 DEF Present
<1>7. d # a
  BY <1>6 DEF UsableIn
<1> QED BY <1>3, <1>4, <1>5, <1>6, <1>7 DEF UsableIn

(* One more record of a library that is usable.                            *)
LEMMA PresentAppended ==
  ASSUME NEW x \in [Slots -> Soinfos], NEW y \in [Slots -> Soinfos],
         NEW on, NEW a \in Slots, NEW b \in PoolEntry, Present(x, on),
         \A s \in Slots : y[s].name = x[s].name,
         \A s \in Slots : s # a => y[s].deps = x[s].deps,
         y[a].deps = Append(x[a].deps, b),
         \A d \in Slots : UsableIn(x[d], d, on) => UsableIn(y[d], d, on),
         UsableIn(x[b], b, on), x[b].name = Needed[x[a].name][Len(x[a].deps) + 1]
  PROVE  Present(y, on)
<1>1. SUFFICES ASSUME NEW s \in Slots, s \in on, NEW i \in 1 .. Len(y[s].deps),
                      y[s].deps[i] # NULL
               PROVE  /\ UsableIn(y[y[s].deps[i]], y[s].deps[i], on)
                      /\ y[y[s].deps[i]].name = Needed[y[s].name][i]
  BY DEF Present
<1>2. PICK d : d = y[s].deps[i]
  OBVIOUS
<1>3. PICK n \in Nat : n = Len(x[a].deps)
  BY RecordsAre
<1>4. /\ Len(y[a].deps) = n + 1 /\ y[a].deps[n + 1] = b
      /\ \A k \in 1 .. n : y[a].deps[k] = x[a].deps[k]
  <2>1. x[a].deps \in Seq(PoolEntry \cup {NULL})
    BY DEF Soinfos
  <2> QED BY <1>3, <2>1
<1>5. \A k \in 1 .. n + 1 : k = n + 1 \/ k \in 1 .. n
  OBVIOUS
<1>6. CASE s = a /\ i = n + 1
  <2>1. d = b /\ b \in Slots
    BY <1>2, <1>4, <1>6, PoolEntries
  <2> QED BY <1>2, <1>3, <1>6, <2>1
<1>7. CASE ~(s = a /\ i = n + 1)
  <2>1. i \in 1 .. Len(x[s].deps) /\ d = x[s].deps[i] /\ d # NULL
    BY <1>1, <1>2, <1>3, <1>4, <1>5, <1>7
  <2>2. d \in Slots
    <3>1. x[s].deps \in Seq(PoolEntry \cup {NULL})
      BY DEF Soinfos
    <3>2. x[s].deps[i] \in PoolEntry \cup {NULL}
      BY <2>1, <3>1
    <3> QED BY <2>1, <3>2, PoolEntries
  <2>3. UsableIn(x[d], d, on) /\ x[d].name = Needed[x[s].name][i]
    BY <1>1, <2>1 DEF Present
  <2> QED BY <1>2, <2>2, <2>3
<1> QED BY <1>6, <1>7

(* Of a soinfo with one user, a dlclose or unload, nobody records it.      *)
LEMMA Unrecorded ==
  ASSUME TypeInv, RefcountExact, NEW a \in Slots,
         info[a].refcount <= Cardinality(Drops(stack, a)),
         NEW s \in Slots, NEW i \in 1 .. Len(info[s].deps)
  PROVE  info[s].deps[i] # a
<1>1. PICK c \in Int, h \in Nat, r \in Nat, d \in Nat :
        /\ c = info[a].refcount /\ h = handles[a] /\ r = Cardinality(Records(info, a))
        /\ d = Cardinality(Drops(stack, a)) /\ c = h + r + d
  BY CountsAre
<1>2. r = 0
  BY <1>1
<1>3. /\ IsFiniteSet(Records(info, a))
      /\ \A p : p \in Records(info, a) <=>
           \E e \in Slots : \E j \in 1 .. Len(info[e].deps) :
             p = << e, j >> /\ info[e].deps[j] = a
  BY RecordsAre DEF TypeInv, LinkerTypes
<1>4. Records(info, a) = {}
  BY <1>1, <1>2, <1>3, FS_EmptySet
<1> QED BY <1>3, <1>4

(* Asking: the calls that look for a library.                              *)
LEMMA AskedElsewhere ==
  ASSUME NEW t, NEW x, Len(t) \in Nat, Len(t) = 0 \/ Starting(t) \/ Closing(t)
  PROVE  AskedFrames(t, x)
BY DEF AskedFrames, Starting, Closing, Finding

(* What was asked for, after a return, a move and a call.                  *)
LEMMA AskedSteps ==
  ASSUME NEW s, NEW t, NEW x, NEW y, Len(s) \in Nat, Len(s) >= 2, Building(s),
         AskedFrames(s, x),
         \A k \in 1 .. Len(s) : s[k].fn = "link_image" => y[s[k].si].name = x[s[k].si].name
  PROVE  /\ AskedFrames(s, y) /\ s[Len(s)].name = AskedBy(s[Len(s) - 1], y)
         /\ Pops(s, t) => AskedFrames(t, y) /\ t[Len(t)] = s[Len(s) - 1]
         /\ \A f : Sets(s, t, f) /\ f.name = s[Len(s)].name => AskedFrames(t, y)
         /\ \A f, g : Calls(s, t, f, g) /\ f.name = s[Len(s)].name /\ g.name = AskedBy(f, y)
                        => AskedFrames(t, y)
<1>1. PICK n \in Nat : n = Len(s) /\ n >= 2
  OBVIOUS
<1>2. \A k \in 1 .. n - 1 : s[k].fn \in {"dlopen", "link_image"}
  <2>1. s[1].fn = "dlopen" /\ \A k \in 2 .. n - 1 : s[k].fn = "link_image"
    BY <1>1 DEF Building
  <2>2. \A k \in 1 .. n - 1 : k = 1 \/ k \in 2 .. n - 1
    OBVIOUS
  <2> QED BY <2>1, <2>2
<1>3. \A k \in 1 .. n - 1 : AskedBy(s[k], y) = AskedBy(s[k], x)
  BY <1>1, <1>2 DEF AskedBy
<1>4. \A k \in 2 .. n : s[k].name = AskedBy(s[k - 1], y)
  <2>1. ASSUME NEW k \in 2 .. n PROVE s[k].name = AskedBy(s[k - 1], y)
    <3>1. k - 1 \in 1 .. n - 1
      OBVIOUS
    <3>2. s[k].name = AskedBy(s[k - 1], x)
      BY <1>1 DEF AskedFrames, Building
    <3> QED BY <1>3, <3>1, <3>2
  <2> QED BY <2>1
<1>5. AskedFrames(s, y)
  BY <1>1, <1>4 DEF AskedFrames
<1>6. /\ n \in 2 .. n /\ n - 1 \in 1 .. n - 1
      /\ \A k \in 2 .. n - 1 : k \in 2 .. n /\ k - 1 \in 1 .. n - 1
      /\ \A k \in 2 .. n : k - 1 \in 1 .. n - 1
  BY <1>1
<1>7. ASSUME Pops(s, t) PROVE AskedFrames(t, y) /\ t[Len(t)] = s[Len(s) - 1]
  BY <1>1, <1>4, <1>6, <1>7 DEF Pops, AskedFrames
<1>8. ASSUME NEW f, Sets(s, t, f), f.name = s[Len(s)].name PROVE AskedFrames(t, y)
  <2>1. /\ Len(t) = n /\ t[n].name = s[n].name
        /\ \A k \in 1 .. n - 1 : t[k] = s[k]
    BY <1>1, <1>8 DEF Sets
  <2>2. \A k \in 2 .. n : k = n \/ k \in 1 .. n - 1
    OBVIOUS
  <2> QED BY <1>4, <1>6, <2>1, <2>2 DEF AskedFrames
<1>9. ASSUME NEW f, NEW g, Calls(s, t, f, g), f.name = s[Len(s)].name, g.name = AskedBy(f, y)
      PROVE  AskedFrames(t, y)
  <2>1. /\ Len(t) = n + 1 /\ t[n] = f /\ t[n + 1] = g /\ f.name = s[n].name
        /\ \A k \in 1 .. n - 1 : t[k] = s[k]
    BY <1>1, <1>9 DEF Calls
  <2>2. \A k \in 2 .. n + 1 : k = n + 1 \/ k = n \/ (k \in 2 .. n /\ k \in 1 .. n - 1)
    OBVIOUS
  <2>3. t[n + 1].name = AskedBy(t[(n + 1) - 1], y)
    BY <1>9, <2>1
  <2>4. t[n].name = AskedBy(t[n - 1], y)
    BY <1>4, <1>6, <2>1
  <2>5. ASSUME NEW k \in 2 .. n, k \in 1 .. n - 1
        PROVE  t[k].name = AskedBy(t[k - 1], y)
    <3>1. k - 1 \in 1 .. n - 1
      BY <1>6
    <3>2. t[k] = s[k] /\ t[k - 1] = s[k - 1]
      BY <2>1, <2>5, <3>1
    <3> QED BY <1>4, <3>2
  <2>6. \A k \in 2 .. n + 1 : t[k].name = AskedBy(t[k - 1], y)
    BY <2>2, <2>3, <2>4, <2>5
  <2> QED BY <2>1, <2>6 DEF AskedFrames
<1> QED BY <1>1, <1>4, <1>5, <1>6, <1>7, <1>8, <1>9

(* The calls that look for a library, while a dlopen starts what it found  *)
(* or a dlclose unloads,                                                   *)
NoFind(t) == \A k \in 1 .. Len(t) : t[k].fn \notin Finding \cup {"link_image"}

(* Only a call that finds, loads or links waits for a library.             *)
LEMMA FoundQuiet ==
  ASSUME TypeInv, ShapeInv, stack # << >>, Top.fn \notin Finding \cup {"link_image"}
  PROVE  /\ NoFind(stack)
         /\ Pops(stack, stack') => NoFind(stack')
         /\ \A fn, si, i, m :
              Moving(fn, si, i, m) /\ fn \notin Finding \cup {"link_image"} => NoFind(stack')
         /\ \A si, i, fn, s, m :
              Calling(si, i, fn, s, m) /\ fn \notin Finding \cup {"link_image"}
                => NoFind(stack')
<1>1. PICK n \in Nat \ {0} : n = Len(stack)
  BY StackLength
<1>2. Shape(stack) /\ Top = stack[n] /\ \A k \in 1 .. n : k = n \/ k \in 1 .. n - 1
  BY <1>1 DEF ShapeInv, Top
<1>3. n = 1 \/ Starting(stack) \/ Closing(stack)
  <2>1. Top \in Frames
    BY <1>1, StackLength DEF Top
  <2>2. Top.fn \in Finding \cup Holding \cup {"dlopen"}
    BY <2>1, FrameFields
  <2>3. Top.fn = "dlopen" \/ Top.fn \in {"constructors", "init"} \/ Top.fn = "unload"
          \/ Top.fn = "fini"
    BY <2>2 DEF Holding
  <2>4. Len(stack) \in Nat \ {0} /\ Top = stack[Len(stack)]
    BY <1>1, <1>2
  <2> QED BY <1>1, <1>2, <2>3, <2>4, ShapeTop
<1>4. \A k \in 1 .. n : stack[k].fn \notin Finding \cup {"link_image"}
  <2>1. CASE n = 1
    BY <1>2, <2>1
  <2>2. CASE Starting(stack) \/ Closing(stack)
    <3>1. /\ stack[1].fn \in {"dlopen", "unload"}
          /\ \A k \in 2 .. n : stack[k].fn \in {"constructors", "init", "unload", "fini"}
      BY <1>1, <2>2 DEF Starting, Closing
    <3>2. \A k \in 1 .. n : k = 1 \/ k \in 2 .. n
      OBVIOUS
    <3> QED BY <3>1, <3>2 DEF Finding
  <2> QED BY <1>3, <2>1, <2>2
<1>5. NoFind(stack)
  BY <1>1, <1>4 DEF NoFind
<1>6. ASSUME Pops(stack, stack') PROVE NoFind(stack')
  BY <1>1, <1>4, <1>6 DEF Pops, NoFind
<1>7. ASSUME NEW fn, NEW si, NEW i, NEW m, Moving(fn, si, i, m),
             fn \notin Finding \cup {"link_image"}
      PROVE  NoFind(stack')
  <2>1. PICK f \in Frames : Sets(stack, stack', f) /\ Is(f, fn, si, i, m)
    BY <1>7 DEF Moving
  <2>2. Len(stack') = n /\ stack'[n] = f /\ \A k \in 1 .. n - 1 : stack'[k] = stack[k]
    BY <1>1, <2>1 DEF Sets
  <2>3. f.fn \notin Finding \cup {"link_image"}
    BY <1>7, <2>1 DEF Is
  <2> QED BY <1>2, <1>4, <2>2, <2>3 DEF NoFind
<1>8. ASSUME NEW si, NEW i, NEW fn, NEW s, NEW m, Calling(si, i, fn, s, m),
             fn \notin Finding \cup {"link_image"}
      PROVE  NoFind(stack')
  <2>1. PICK f \in Frames, g \in Frames :
          Calls(stack, stack', f, g) /\ Is(f, Top.fn, si, i, Top.name) /\ Is(g, fn, s, 0, m)
    BY <1>8 DEF Calling
  <2>2. /\ Len(stack') = n + 1 /\ stack'[n] = f /\ stack'[n + 1] = g
        /\ \A k \in 1 .. n - 1 : stack'[k] = stack[k]
    BY <1>1, <2>1 DEF Calls
  <2>3. f.fn \notin Finding \cup {"link_image"} /\ g.fn \notin Finding \cup {"link_image"}
    BY <1>8, <2>1 DEF Is
  <2>4. \A k \in 1 .. n + 1 : k = n + 1 \/ k = n \/ k \in 1 .. n - 1
    OBVIOUS
  <2>5. \A k \in 1 .. n - 1 : stack[k].fn \notin Finding \cup {"link_image"}
    BY <1>4
  <2> QED BY <2>2, <2>3, <2>4, <2>5 DEF NoFind
<1> QED BY <1>5, <1>6, <1>7, <1>8

(* A stack without such a call asks for nothing.                           *)
LEMMA NoFindAsks ==
  ASSUME NEW t, Len(t) \in Nat, NoFind(t), NEW x
  PROVE  AskedFrames(t, x)
<1>1. \A k \in 2 .. Len(t) : k \in 1 .. Len(t)
  OBVIOUS
<1> QED BY <1>1 DEF AskedFrames, NoFind

(* and while a dlopen finds, loads and links.                              *)
LEMMA AskedBuilding ==
  ASSUME TypeInv, ShapeInv, AskedInv, stack # << >>,
         Top.fn \in Finding \cup {"link_image"},
         \A k \in 1 .. Len(stack) :
           stack[k].fn = "link_image" => info'[stack[k].si].name = info[stack[k].si].name
  PROVE  /\ Pops(stack, stack') =>
              AskedFrames(stack', info') /\ AskedBy(stack'[Len(stack')], info') = Top.name
         /\ \A fn, si, i : Moving(fn, si, i, Top.name) => AskedFrames(stack', info')
         /\ \A si, i, s, m :
              Calling(si, i, "find_library", s, m) /\ Top.fn = "link_image"
                /\ m = Needed[info'[si].name][i] => AskedFrames(stack', info')
<1>1. Len(stack) \in Nat \ {0} /\ Top = stack[Len(stack)] /\ Shape(stack)
  BY StackLength DEF Top, ShapeInv
<1>2. Building(stack) /\ Len(stack) >= 2 /\ AskedFrames(stack, info)
  BY <1>1, ShapeTop DEF AskedInv
<1>3. PICK y : y = info'
  OBVIOUS
<1>4. /\ Top.name = AskedBy(stack[Len(stack) - 1], y)
      /\ Pops(stack, stack') => AskedFrames(stack', y) /\ stack'[Len(stack')] = stack[Len(stack) - 1]
      /\ \A f : Sets(stack, stack', f) /\ f.name = Top.name => AskedFrames(stack', y)
      /\ \A f, g : Calls(stack, stack', f, g) /\ f.name = Top.name /\ g.name = AskedBy(f, y)
                     => AskedFrames(stack', y)
  BY ZenonT(30), <1>1, <1>2, <1>3, AskedSteps
<1>5. ASSUME NEW fn, NEW si, NEW i, Moving(fn, si, i, Top.name) PROVE AskedFrames(stack', y)
  BY <1>4, <1>5 DEF Moving, Is
<1>6. ASSUME NEW si, NEW i, NEW s, NEW m, Calling(si, i, "find_library", s, m),
             Top.fn = "link_image", m = Needed[y[si].name][i]
      PROVE  AskedFrames(stack', y)
  <2>1. PICK f \in Frames, g \in Frames :
          /\ Calls(stack, stack', f, g) /\ Is(f, Top.fn, si, i, Top.name)
          /\ Is(g, "find_library", s, 0, m)
    BY <1>6 DEF Calling
  <2>2. f.name = Top.name /\ g.name = AskedBy(f, y)
    BY <1>6, <2>1 DEF Is, AskedBy
  <2> QED BY <1>4, <2>1, <2>2
<1> QED BY <1>3, <1>4, <1>5, <1>6

(* The recorded libraries of a step that takes at most `gone` away.        *)
LEMMA PresentShrunk ==
  ASSUME TypeInv, TypeInv', NeededPresent, NEW on, on = On(Solist)', NEW gone,
         \A s \in Slots : s \in on => s \in On(Solist), SameName,
         \A s \in Slots : s \in on =>
           /\ Len(info'[s].deps) = Len(info[s].deps)
           /\ \A i \in 1 .. Len(info[s].deps) :
                info'[s].deps[i] # NULL => info'[s].deps[i] = info[s].deps[i],
         \/ ~UsableIn(info[gone], gone, On(Solist))
         \/ \A s \in Slots : \A i \in 1 .. Len(info[s].deps) : info[s].deps[i] # gone,
         \A d \in Slots :
           d # gone /\ UsableIn(info[d], d, On(Solist)) => UsableIn(info'[d], d, on)
  PROVE  NeededPresent'
<1>1. info \in [Slots -> Soinfos] /\ info' \in [Slots -> Soinfos]
  BY DEF TypeInv, LinkerTypes
<1>2. PICK o : o = On(Solist)
  OBVIOUS
<1>3. Present(info, o)
  BY <1>2, PresentIs
<1>4. PICK y : y = info'
  OBVIOUS
<1>5. \A s \in Slots : s \in on =>
        \A i \in 1 .. Len(info[s].deps) : info[s].deps[i] # NULL => info[s].deps[i] # gone
  BY <1>2, <1>3 DEF Present
<1>6. Present(y, on)
  <2>1. y \in [Slots -> Soinfos] /\ \A s \in Slots : s \in on => s \in o
    BY <1>1, <1>2, <1>4
  <2>2. \A s \in Slots : y[s].name = info[s].name
    BY <1>4 DEF SameName
  <2>3. \A s \in Slots : s \in on =>
          /\ Len(y[s].deps) = Len(info[s].deps)
          /\ \A i \in 1 .. Len(info[s].deps) :
               y[s].deps[i] # NULL => y[s].deps[i] = info[s].deps[i]
    BY <1>4
  <2>4. \A d \in Slots : d # gone /\ UsableIn(info[d], d, o) => UsableIn(y[d], d, on)
    BY <1>2, <1>4
  <2>5. KeepsPresent(info, y, o, on, gone)
    BY <1>5, <2>1, <2>2, <2>3, <2>4 DEF KeepsPresent
  <2> QED BY <1>1, <1>3, <2>1, <2>5, PresentKept
<1> QED BY <1>4, <1>6, PresentIsNext

(* Nothing that matters to them changes.                                   *)
LEMMA PresentStill ==
  ASSUME TypeInv, TypeInv', PresentInv, SameName, SameLinked, SameError, SameImage, SameDeps,
         UNCHANGED lists
  PROVE  NeededPresent' /\ LinkedMapped'
<1>1. PICK on : on = On(Solist)' /\ on = On(Solist)
  BY ListsSame
<1>2. \A d \in Slots : UsableIn(info[d], d, on) <=> UsableIn(info'[d], d, on)
  BY DEF UsableIn, SameLinked, SameError, SameImage
<1>3. NULL \notin Slots /\ ~UsableIn(info[NULL], NULL, on)
  BY <1>1, PoolEntries, ListsRight DEF UsableIn, TypeInv
<1>4. NeededPresent'
  BY <1>1, <1>2, <1>3, PresentShrunk DEF PresentInv, SameDeps
<1>5. LinkedMapped'
  BY <1>1 DEF PresentInv, AskedInv, LinkedMapped, SameLinked, SameError, SameImage
<1> QED BY <1>4, <1>5

(* Before the first step nothing is recorded.                              *)
LEMMA PresentInitially ==
  ASSUME Init
  PROVE  PresentInv
<1>1. stack = << >> /\ ret = NOTHING
  BY DEF Init
<1>2. AskedFrames(stack, info) /\ AskedRet(stack, info, ret, On(Solist))
  BY <1>1 DEF AskedFrames, AskedRet
<1>3. \A s \in Slots : info[s].image = "none" /\ info[s].deps = << >>
  BY InfoInitially, SoinfoMade
<1>4. LinkedMapped
  BY <1>3 DEF LinkedMapped
<1>5. TypeInv /\ \A s \in Slots : Len(info[s].deps) = 0
  BY <1>3, TypesInitially
<1>6. NeededPresent
  BY <1>5, PresentIs DEF Present
<1> QED BY <1>2, <1>4, <1>6 DEF PresentInv, AskedInv

(* A step of the host's, of the start of a library or of an unload.        *)
LEMMA PresentQuiet ==
  ASSUME TypeInv', NoFind(stack'), ret' = NOTHING, NeededPresent', LinkedMapped'
  PROVE  PresentInv'
<1>1. Len(stack') \in Nat
  BY DEF TypeInv, LinkerTypes
<1>2. AskedFrames(stack', info') /\ AskedRet(stack', info', ret', On(Solist)')
  BY <1>1, NoFindAsks DEF AskedRet
<1> QED BY <1>2 DEF PresentInv, AskedInv

(* alloc_info.                                                             *)
LEMMA PresentNew ==
  ASSUME TypeInv, TypeInv', PresentInv, NEW a \in PoolEntry, a \notin On(Solist),
         On(Solist)' = On(Solist) \cup {a}, Only(a), info'[a].deps = << >>,
         info'[a].image = "none"
  PROVE  NeededPresent' /\ LinkedMapped'
<1>1. info \in [Slots -> Soinfos] /\ info' \in [Slots -> Soinfos] /\ a \in Slots
  BY PoolEntries DEF TypeInv, LinkerTypes
<1>2. PICK o : o = On(Solist)
  OBVIOUS
<1>3. PICK y : y = info'
  OBVIOUS
<1>4. Present(info, o)
  BY <1>2, PresentIs DEF PresentInv
<1>5. Present(y, o \cup {a})
  BY <1>1, <1>2, <1>3, <1>4, PresentGrown DEF Only
<1>6. NeededPresent'
  BY <1>2, <1>3, <1>5, PresentIsNext
<1>7. LinkedMapped'
  BY <1>2 DEF PresentInv, AskedInv, LinkedMapped, Only
<1> QED BY <1>6, <1>7

(* An entry taken off solist.                                              *)
LEMMA PresentGone ==
  ASSUME TypeInv, TypeInv', PresentInv, NEW a \in Slots, On(Solist)' = On(Solist) \ {a},
         SameName, SameLinked, SameError, SameDeps,
         \A s \in Slots : s # a => info'[s].image = info[s].image,
         \/ ~info[a].linked
         \/ \A s \in Slots : \A i \in 1 .. Len(info[s].deps) : info[s].deps[i] # a
  PROVE  NeededPresent' /\ LinkedMapped'
<1>1. PICK on : on = On(Solist)'
  OBVIOUS
<1>2. \A d \in Slots :
        d # a /\ UsableIn(info[d], d, On(Solist)) => UsableIn(info'[d], d, on)
  BY <1>1 DEF UsableIn, SameLinked, SameError
<1>3. \/ ~UsableIn(info[a], a, On(Solist))
      \/ \A s \in Slots : \A i \in 1 .. Len(info[s].deps) : info[s].deps[i] # a
  BY DEF UsableIn
<1>4. \A s \in Slots : s \in on => s \in On(Solist)
  BY <1>1
<1>5. NeededPresent'
  BY <1>1, <1>2, <1>3, <1>4, PresentShrunk DEF PresentInv, SameDeps
<1>6. LinkedMapped'
  BY DEF PresentInv, AskedInv, LinkedMapped, SameLinked, SameError
<1> QED BY <1>5, <1>6

(* A step that looks for a library or links one.                           *)
LEMMA PresentFinding ==
  ASSUME LibDLUnnamed, TypeInv, TypeInv', ShapeInv, WorkInv, PresentInv,
         FindLibrary \/ LoadRefused \/ LoadAlloc \/ LoadSegments \/ LoadFails
         \/ LinkFails \/ LinkFind \/ (LinkNeeded /\ ret # NULL)
         \/ (LinkFinish /\ ~LinkFail(TRUE))
  PROVE  PresentInv'
<1> DEFINE Kept == \A k \in 1 .. Len(stack) :
             stack[k].fn = "link_image" => info'[stack[k].si].name = info[stack[k].si].name
           Goal == AskedFrames(stack', info')
<1>1. PICK on : on = On(Solist)'
  OBVIOUS
<1>2. PICK y : y = info'
  OBVIOUS
<1>3. stack # << >> /\ Top.fn \in Finding \cup {"link_image"}
  BY FindLibraryStep, LoadRefusedStep, LoadAllocStep, LoadSegmentsStep, LoadFailsStep,
     LinkFailStep, LinkFindStep, LinkNeededStep, LinkedStep DEF Finding
<1>4. /\ \A k \in 1 .. Len(stack) :
           stack[k].fn = "link_image" => stack[k].si \in Slots /\ stack[k].si \in On(Solist)
      /\ PlacedAt(Top, On(Solist)) /\ LinkingOf(Top, info[Top.si])
      /\ Top.fn \in Finding => ret = NOTHING
  <2>1. ASSUME NEW k \in 1 .. Len(stack), stack[k].fn = "link_image"
        PROVE  stack[k].si \in Slots /\ stack[k].si \in On(Solist)
    <3>1. stack[k] \in Frames
      BY StackLength
    <3>2. stack[k].si \in PoolEntry
      BY <2>1, <3>1, FrameFields DEF Holding
    <3> QED BY <2>1, <3>2, PoolEntries DEF WorkInv, Placed, PlacedAt
  <2>2. PICK n \in Nat \ {0} : n = Len(stack)
    BY <1>3, StackLength
  <2>3. n \in 1 .. n /\ Top = stack[n]
    BY <2>2 DEF Top
  <2>4. PlacedAt(Top, On(Solist)) /\ LinkingOf(Top, info[Top.si])
    BY <2>2, <2>3 DEF WorkInv, Placed, Linking
  <2> QED BY <2>1, <2>2, <2>3, <2>4 DEF ShapeInv, ReturnsTo, Finding
<1>5. ASSUME Kept
      PROVE  /\ Pops(stack, stack') => Goal /\ AskedBy(stack'[Len(stack')], y) = Top.name
             /\ \A fn, si, i : Moving(fn, si, i, Top.name) => Goal
             /\ \A si, i, s, m :
                  Calling(si, i, "find_library", s, m) /\ Top.fn = "link_image"
                    /\ m = Needed[y[si].name][i] => Goal
  BY <1>2, <1>3, <1>5, AskedBuilding DEF PresentInv
<1>6. SameName => Kept
  BY <1>4 DEF SameName
<1>7. info' = info /\ UNCHANGED lists => Kept /\ NeededPresent' /\ LinkedMapped'
  BY <1>6, PresentStill, SameInfo DEF AllSame
<1>8. SUFFICES Goal /\ AskedRet(stack', y, ret', on) /\ NeededPresent' /\ LinkedMapped'
  BY <1>1, <1>2 DEF PresentInv, AskedInv
<1>9. ret' = NOTHING \/ ret' = NULL => AskedRet(stack', y, ret', on)
  BY DEF AskedRet
<1> HIDE DEF Kept, Goal
<1>10. CASE FindLibrary
  <2>1. /\ UNCHANGED lists /\ info' = info /\ Top.fn = "find_library"
        /\ \/ Pops(stack, stack') /\ ret' = NULL
           \/ /\ Pops(stack, stack') /\ ret' \in On(Solist) /\ ret' \in PoolEntry
              /\ info[ret'].linked /\ ~info[ret'].error /\ info[ret'].name = Top.name
           \/ Moving("load_library", NULL, 0, Top.name) /\ ret' = ret
    BY <1>10, FindLibraryStep
  <2>2. Goal /\ NeededPresent' /\ LinkedMapped'
    BY <1>5, <1>7, <2>1
  <2>3. ASSUME Pops(stack, stack'), ret' \in On(Solist), ret' \in PoolEntry,
               info[ret'].linked, ~info[ret'].error, info[ret'].name = Top.name
        PROVE  AskedRet(stack', y, ret', on)
    <3>1. AskedBy(stack'[Len(stack')], y) = Top.name
      BY <1>5, <1>7, <2>1, <2>3
    <3>2. on = On(Solist) /\ y = info
      BY <1>1, <1>2, <2>1, ListsSame
    <3>3. y[ret'].image # "unmapped"
      BY <2>3, <3>2, PoolEntries DEF PresentInv, AskedInv, LinkedMapped
    <3> QED BY <2>3, <3>1, <3>2, <3>3 DEF AskedRet, UsableIn
  <2>4. Top.fn \in Finding
    BY <2>1 DEF Finding
  <2> QED BY <1>4, <1>9, <2>1, <2>2, <2>3, <2>4
<1>11. CASE LoadRefused
  BY <1>5, <1>7, <1>9, <1>11, LoadRefusedStep
<1>12. CASE LoadAlloc
  <2>1. Top.fn = "load_library" /\ Top.fn \in Finding
    BY <1>12, LoadAllocStep DEF Finding
  <2>2. CASE Pops(stack, stack') /\ ret' = NULL /\ UNCHANGED lists /\ info' = info
    BY <1>5, <1>7, <1>9, <2>2
  <2>3. CASE \E a \in PoolEntry :
               /\ a \notin On(Solist) /\ On(Solist)' = On(Solist) \cup {a}
               /\ Only(a) /\ info'[a] = Soinfo(Top.name) /\ Top.name \in Libraries
               /\ Moving("load_library", a, Top.i, Top.name) /\ ret' = ret
    <3>1. PICK a \in PoolEntry :
            /\ a \notin On(Solist) /\ On(Solist)' = On(Solist) \cup {a}
            /\ Only(a) /\ info'[a] = Soinfo(Top.name) /\ Top.name \in Libraries
            /\ Moving("load_library", a, Top.i, Top.name) /\ ret' = ret
      BY <2>3
    <3>2. info'[a].deps = << >> /\ info'[a].image = "none"
      BY <3>1, SoinfoMade
    <3>3. NeededPresent' /\ LinkedMapped'
      BY <3>1, <3>2, PresentNew
    <3>4. Kept
      BY <1>4, <3>1 DEF Kept, Only
    <3>5. Goal /\ ret' = NOTHING
      BY <1>4, <1>5, <2>1, <3>1, <3>4
    <3> QED BY <1>9, <3>3, <3>5
  <2> QED BY <1>12, <2>2, <2>3, LoadAllocStep
<1>13. CASE LoadSegments
  <2>1. /\ UNCHANGED lists /\ ret' = ret /\ Top.fn \in Finding /\ Top.si \in Slots
        /\ Moving("link_image", Top.si, 1, Top.name)
    BY <1>13, LoadSegmentsStep, PoolEntries DEF Finding
  <2>2. /\ SameName /\ SameLinked /\ SameError /\ SameDeps /\ info'[Top.si].image = "mapped"
        /\ \A s \in Slots : s # Top.si => info'[s].image = info[s].image
    BY <1>13, LoadSegmentsFields
  <2>3. on = On(Solist)
    BY <1>1, <2>1, ListsSame
  <2>4. \A d \in Slots :
          UsableIn(info[d], d, On(Solist)) => UsableIn(info'[d], d, on)
    BY <2>2, <2>3 DEF UsableIn, SameLinked, SameError
  <2>5. ~UsableIn(info[NULL], NULL, On(Solist))
    BY PoolEntries, ListsRight DEF UsableIn, TypeInv
  <2>6. NeededPresent'
    BY <1>1, <2>2, <2>3, <2>4, <2>5, PresentShrunk DEF PresentInv, SameDeps
  <2>7. LinkedMapped'
    BY <1>1, <2>2, <2>3
       DEF PresentInv, AskedInv, LinkedMapped, SameLinked, SameError
  <2> QED BY <1>4, <1>5, <1>6, <1>9, <2>1, <2>2, <2>6, <2>7
<1>14. CASE LoadFails
  <2>1. /\ info' = info /\ On(Solist)' = On(Solist) \ {Top.si} /\ Pops(stack, stack')
        /\ ret' = NULL /\ Top.fn = "load_library" /\ Top.si \in PoolEntry
    BY <1>14, LoadFailsStep
  <2>2. Top.si \in Slots /\ Top.si # NULL /\ AllSame
    BY <2>1, PoolEntries, SameInfo
  <2>3. ~info[Top.si].linked
    <3>1. info[Top.si] = Soinfo(Top.name)
      BY <1>3, <2>1, <2>2 DEF WorkInv, Loading, InFn
    <3>2. Top \in Frames
      BY <1>3, StackLength DEF Top
    <3> QED BY <3>1, <3>2, FrameFields, SoinfoMade
  <2>4. NeededPresent' /\ LinkedMapped'
    BY <2>1, <2>2, <2>3, PresentGone DEF AllSame
  <2> QED BY <1>5, <1>6, <1>9, <2>1, <2>2, <2>4 DEF AllSame
<1>15. CASE LinkFails
  <2>1. /\ UNCHANGED lists /\ Pops(stack, stack') /\ ret' = NULL
        /\ Top.fn = "link_image" /\ Top.si \in Slots
    BY <1>15, LinkFailStep, PoolEntries
  <2>2. /\ SameName /\ SameDeps /\ info'[Top.si].error
        /\ \A s \in Slots :
             s # Top.si => /\ info'[s].image = info[s].image
                           /\ info'[s].linked = info[s].linked
                           /\ info'[s].error = info[s].error
    BY <1>15, LinkFailFields
  <2>3. on = On(Solist)
    BY <1>1, <2>1, ListsSame
  <2>4. \A d \in Slots : d # Top.si /\
          UsableIn(info[d], d, On(Solist)) => UsableIn(info'[d], d, on)
    BY <2>2, <2>3 DEF UsableIn
  <2>5. ~UsableIn(info[Top.si], Top.si, On(Solist))
    BY <1>4, <2>1 DEF UsableIn, LinkingOf
  <2>6. NeededPresent'
    BY <1>1, <2>2, <2>3, <2>4, <2>5, PresentShrunk DEF PresentInv, SameDeps
  <2>7. LinkedMapped'
    BY <1>1, <2>2, <2>3 DEF PresentInv, AskedInv, LinkedMapped
  <2> QED BY <1>5, <1>6, <1>9, <2>1, <2>2, <2>6, <2>7
<1>16. CASE LinkFind
  <2>1. /\ UNCHANGED lists /\ info' = info /\ ret' = ret /\ Top.fn = "link_image"
        /\ ret = NOTHING
        /\ Calling(Top.si, Top.i, "find_library", NULL, NeededBy(Top.si)[Top.i])
    BY <1>16, LinkFindStep
  <2>2. NeededBy(Top.si)[Top.i] = Needed[y[Top.si].name][Top.i]
    BY <1>2, <2>1 DEF NeededBy
  <2> QED BY <1>5, <1>7, <1>9, <2>1, <2>2
<1>17. CASE LinkNeeded /\ ret # NULL
  <2>1. /\ UNCHANGED lists /\ ret' = NOTHING /\ Top.fn = "link_image"
        /\ Top.si \in PoolEntry /\ ret \in PoolEntry
        /\ Moving("link_image", Top.si, Top.i + 1, Top.name)
    BY <1>17, LinkNeededStep
  <2>2. PICK a \in Slots, b \in PoolEntry : a = Top.si /\ b = ret
    BY <2>1, PoolEntries
  <2>3. /\ SameName /\ SameLinked /\ SameError /\ SameImage
        /\ info'[a].deps = Append(info[a].deps, b)
        /\ \A s \in Slots : s # a => info'[s].deps = info[s].deps
    BY <1>17, <2>2, LinkNeededFields
  <2>4. PICK o : o = On(Solist) /\ o = on
    BY <1>1, <2>1, ListsSame
  <2>5. info \in [Slots -> Soinfos] /\ y \in [Slots -> Soinfos] /\ Present(info, o)
    BY <1>2, <2>4, PresentIs DEF TypeInv, LinkerTypes, PresentInv
  <2>6. \A d \in Slots : UsableIn(info[d], d, o) => UsableIn(y[d], d, o)
    BY <1>2, <2>3 DEF UsableIn, SameLinked, SameError, SameImage
  <2>7. UsableIn(info[b], b, o) /\ info[b].name = Needed[info[a].name][Len(info[a].deps) + 1]
    <3>1. b \notin {NOTHING, NULL}
      BY PoolEntries
    <3>2. UsableIn(info[b], b, o) /\ info[b].name = AskedBy(Top, info)
      BY <2>2, <2>4, <3>1 DEF PresentInv, AskedInv, AskedRet, Top
    <3>3. Top.i = Len(info[a].deps) + 1
      BY <1>4, <2>1, <2>2 DEF LinkingOf
    <3> QED BY <2>1, <2>2, <3>2, <3>3 DEF AskedBy
  <2>8. Present(y, o)
    <3>1. \A s \in Slots : y[s].name = info[s].name
      BY <1>2, <2>3 DEF SameName
    <3>2. /\ \A s \in Slots : s # a => y[s].deps = info[s].deps
          /\ y[a].deps = Append(info[a].deps, b)
      BY <1>2, <2>3
    <3> QED BY <2>5, <2>6, <2>7, <3>1, <3>2, PresentAppended
  <2>9. NeededPresent'
    BY <1>1, <1>2, <2>4, <2>8, PresentIsNext
  <2>10. LinkedMapped'
    BY <1>1, <2>3, <2>4
       DEF PresentInv, AskedInv, LinkedMapped, SameLinked, SameError, SameImage
  <2> QED BY <1>5, <1>6, <1>9, <2>1, <2>3, <2>9, <2>10
<1>18. CASE LinkFinish /\ ~LinkFail(TRUE)
  <2>1. /\ UNCHANGED lists /\ Pops(stack, stack') /\ ret' = Top.si
        /\ Top.fn = "link_image" /\ Top.si \in PoolEntry /\ Top.si \in Slots
    BY <1>18, LinkedStep, PoolEntries
  <2>2. /\ SameName /\ SameError /\ SameImage /\ SameDeps /\ info'[Top.si].linked
        /\ \A s \in Slots : s # Top.si => info'[s].linked = info[s].linked
    BY <1>18, LinkedFields
  <2>3. on = On(Solist)
    BY <1>1, <2>1, ListsSame
  <2>4. \A d \in Slots : UsableIn(info[d], d, On(Solist)) => UsableIn(info'[d], d, on)
    BY <2>2, <2>3 DEF UsableIn, SameError, SameImage
  <2>5. ~UsableIn(info[NULL], NULL, On(Solist))
    BY PoolEntries, ListsRight DEF UsableIn, TypeInv
  <2>6. NeededPresent'
    BY <1>1, <2>2, <2>3, <2>4, <2>5, PresentShrunk DEF PresentInv, SameDeps
  <2>7. /\ info[Top.si].name = Top.name /\ info[Top.si].image = "mapped"
        /\ ~info[Top.si].error /\ Top.si \in On(Solist)
    BY <1>4, <2>1, PoolEntries DEF LinkingOf, PlacedAt
  <2>8. LinkedMapped'
    BY <1>1, <2>2, <2>3, <2>7
       DEF PresentInv, AskedInv, LinkedMapped, SameError, SameImage
  <2>9. AskedRet(stack', y, ret', on)
    <3>1. AskedBy(stack'[Len(stack')], y) = Top.name
      BY <1>5, <1>6, <2>1, <2>2
    <3>2. UsableIn(y[Top.si], Top.si, on) /\ y[Top.si].name = Top.name
      BY <1>2, <2>1, <2>2, <2>3, <2>7 DEF UsableIn, SameName, SameError, SameImage
    <3> QED BY <2>1, <3>1, <3>2 DEF AskedRet
  <2> QED BY <1>5, <1>6, <2>1, <2>2, <2>6, <2>8, <2>9
<1> QED BY <1>10, <1>11, <1>12, <1>13, <1>14, <1>15, <1>16, <1>17, <1>18

(* The last use of an entry that is about to be freed is the unload's.     *)
LEMMA FreedUnrecorded ==
  ASSUME TypeInv, UseInv, UnloadFree,
         NEW s \in Slots, NEW i \in 1 .. Len(info[s].deps)
  PROVE  info[s].deps[i] # Top.si
<1>1. /\ stack # << >> /\ Top.fn = "unload" /\ Top.si \in PoolEntry /\ Top.i > 0
  BY UnloadFreeStep
<1>2. PICK n \in Nat \ {0} : n = Len(stack)
  BY <1>1, StackLength
<1>3. PICK a \in Slots : a = Top.si
  BY <1>1, PoolEntries
<1>4. info[a].refcount = 1
  BY <1>1, <1>3, UnloadTop DEF Alone
<1>5. n \in Drops(stack, a) /\ Len(stack) \in Nat /\ DOMAIN stack = 1 .. Len(stack)
  BY <1>1, <1>2, <1>3 DEF Drops, Top, TypeInv, LinkerTypes
<1>6. IsFiniteSet(Drops(stack, a)) /\ Cardinality(Drops(stack, a)) \in Nat
  BY <1>5, DropsAre
<1>7. Cardinality(Drops(stack, a)) # 0
  BY <1>5, <1>6, FS_EmptySet
<1>8. info[a].refcount <= Cardinality(Drops(stack, a))
  BY <1>4, <1>6, <1>7
<1> QED BY <1>3, <1>8, Unrecorded DEF UseInv

(* Every step of a call keeps NeededPresent and what is asked for.         *)
LEMMA PresentInside ==
  ASSUME LibDLUnnamed, TypeInv, TypeInv', ShapeInv, WorkInv, UseInv, PresentInv, Inside
  PROVE  PresentInv'
<1>1. ASSUME stack # << >>, Top.fn \in {"constructors", "init", "unload", "fini"}
      PROVE  ret = NOTHING
  BY <1>1 DEF ShapeInv, ReturnsTo, Top
<1>2. "constructors" \notin Finding \cup {"link_image"} /\ "init" \notin Finding \cup {"link_image"}
      /\ "unload" \notin Finding \cup {"link_image"} /\ "fini" \notin Finding \cup {"link_image"}
      /\ "dlopen" \notin Finding \cup {"link_image"}
  BY DEF Finding
<1>3. ASSUME info' = info, UNCHANGED lists PROVE NeededPresent' /\ LinkedMapped'
  BY <1>3, PresentStill, SameInfo DEF AllSame
<1>4. CASE DlopenFound
  <2>1. NoFind(stack')
    BY <1>2, <1>4, DlopenFoundStep, FoundQuiet
  <2> QED BY <1>3, <1>4, <2>1, DlopenFoundStep, PresentQuiet
<1>5. CASE DlopenReturn
  <2>1. NoFind(stack')
    BY <1>2, <1>5, DlopenReturnStep, FoundQuiet
  <2>2. ret' = NOTHING /\ UNCHANGED lists
    BY <1>5, DlopenReturnStep, PoolEntries DEF ShapeInv, ReturnsTo, Top
  <2> QED BY <1>5, <2>1, <2>2, DlopenReturnFields, PresentStill, PresentQuiet
<1>6. CASE CtorEnter
  <2>1. NoFind(stack') /\ ret' = NOTHING /\ UNCHANGED lists
    BY <1>1, <1>2, <1>6, CtorEnterStep, FoundQuiet
  <2> QED BY <1>6, <2>1, CtorEnterFields, PresentStill, PresentQuiet
<1>7. CASE CtorNeeded
  <2>1. NoFind(stack') /\ ret' = NOTHING
    BY <1>1, <1>2, <1>7, CtorNeededStep, FoundQuiet
  <2> QED BY <1>3, <1>7, <2>1, CtorNeededStep, PresentQuiet
<1>8. CASE CtorInit
  <2>1. NoFind(stack') /\ ret' = NOTHING
    BY <1>1, <1>2, <1>8, CtorInitStep, FoundQuiet
  <2> QED BY <1>3, <1>8, <2>1, CtorInitStep, PresentQuiet
<1>9. CASE InitReturns
  <2>1. NoFind(stack') /\ ret' = NOTHING /\ UNCHANGED lists
    BY <1>1, <1>2, <1>9, InitReturnsStep, FoundQuiet
  <2> QED BY <1>9, <2>1, InitReturnsFields, PresentStill, PresentQuiet
<1>10. CASE UnloadEnter
  <2>1. NoFind(stack') /\ ret' = NOTHING /\ UNCHANGED lists
    BY <1>1, <1>2, <1>10, UnloadEnterStep, FoundQuiet
  <2>2. CASE info' = info
    BY <1>3, <2>1, <2>2, PresentQuiet
  <2>3. CASE info[Top.si].refcount # 1
    BY <1>10, <2>1, <2>3, UnloadEnterFields, PresentStill, PresentQuiet
  <2> QED BY <1>10, <2>2, <2>3, UnloadEnterStep
<1>11. CASE FiniReturns
  <2>1. NoFind(stack') /\ ret' = NOTHING /\ UNCHANGED lists
    BY <1>1, <1>2, <1>11, FiniReturnsStep, FoundQuiet
  <2> QED BY <1>11, <2>1, FiniReturnsFields, PresentStill, PresentQuiet
<1>12. CASE UnloadNeeded
  <2>1. NoFind(stack') /\ ret' = NOTHING /\ UNCHANGED lists
    BY <1>1, <1>2, <1>12, UnloadNeededStep, FoundQuiet
  <2>2. PICK a \in Slots : a = Top.si
    BY <1>12, UnloadNeededStep, PoolEntries
  <2>3. /\ SameName /\ SameLinked /\ SameError /\ SameImage
        /\ info'[a].deps = [info[a].deps EXCEPT ![Top.i] = NULL]
        /\ \A s \in Slots : s # a => info'[s].deps = info[s].deps
    BY <1>12, <2>2, UnloadNeededFields
  <2>4. PICK on : on = On(Solist)' /\ on = On(Solist)
    BY <2>1, ListsSame
  <2>5. \A s \in Slots : s \in on =>
          /\ Len(info'[s].deps) = Len(info[s].deps)
          /\ \A i \in 1 .. Len(info[s].deps) :
               info'[s].deps[i] # NULL => info'[s].deps[i] = info[s].deps[i]
    <3>1. PICK d : d = info[a].deps
      OBVIOUS
    <3>2. d \in Seq(PoolEntry \cup {NULL})
      BY <3>1, InfoFields DEF TypeInv
    <3>3. PICK e : e = [d EXCEPT ![Top.i] = NULL]
      OBVIOUS
    <3>4. /\ Len(e) = Len(d)
          /\ \A i \in 1 .. Len(d) : e[i] # NULL => e[i] = d[i]
      BY <3>2, <3>3
    <3> QED BY <2>3, <3>1, <3>3, <3>4
  <2>6. \A d \in Slots : UsableIn(info[d], d, on) => UsableIn(info'[d], d, on)
    BY <2>3 DEF UsableIn, SameLinked, SameError, SameImage
  <2>7. ~UsableIn(info[NULL], NULL, On(Solist))
    BY PoolEntries, ListsRight DEF UsableIn, TypeInv
  <2>8. NeededPresent'
    BY <2>3, <2>4, <2>5, <2>6, <2>7, PresentShrunk DEF PresentInv
  <2>9. LinkedMapped'
    BY <2>3, <2>4 DEF PresentInv, AskedInv, LinkedMapped, SameLinked, SameError, SameImage
  <2> QED BY <2>1, <2>8, <2>9, PresentQuiet
<1>13. CASE UnloadFree
  <2>1. NoFind(stack') /\ ret' = NOTHING /\ On(Solist)' = On(Solist) \ {Top.si}
    BY <1>1, <1>2, <1>13, UnloadFreeStep, FoundQuiet
  <2>2. PICK a \in Slots : a = Top.si
    BY <1>13, UnloadFreeStep, PoolEntries
  <2>3. \A s \in Slots : \A i \in 1 .. Len(info[s].deps) : info[s].deps[i] # a
    BY <1>13, <2>2, FreedUnrecorded
  <2>4. NeededPresent' /\ LinkedMapped'
    BY <1>13, <2>1, <2>2, <2>3, UnloadFreeFields, PresentGone
  <2> QED BY <2>1, <2>4, PresentQuiet
<1> QED BY <1>4, <1>5, <1>6, <1>7, <1>8, <1>9, <1>10, <1>11, <1>12, <1>13, InsideCases,
           PresentFinding

(* So does every step.                                                     *)
LEMMA PresentStep ==
  ASSUME LibDLUnnamed, CountInv, TypeInv', PresentInv, [Next]_vars
  PROVE  PresentInv'
<1> USE DEF CountInv
<1>1. ASSUME stack = << >> PROVE ret = NOTHING
  BY <1>1 DEF ShapeInv, ReturnsTo
<1>2. ASSUME stack' = << >> PROVE NoFind(stack')
  BY <1>2 DEF NoFind
<1>3. CASE UNCHANGED vars
  <2>1. /\ stack' = stack /\ ret' = ret /\ info' = info /\ UNCHANGED lists
    BY <1>3 DEF vars, pool
  <2>2. On(Solist)' = On(Solist)
    BY <2>1, ListsSame
  <2>3. AskedInv'
    BY <2>1, <2>2 DEF PresentInv, AskedInv, LinkedMapped
  <2> QED BY <2>1, <2>3, PresentStill, SameInfo DEF PresentInv, AllSame
<1>4. ASSUME NEW n \in Opened, Dlopen(n) PROVE PresentInv'
  <2>1. /\ Len(stack') = 2 /\ stack = << >> /\ info' = info /\ ret' = ret /\ UNCHANGED lists
        /\ Is(stack'[1], "dlopen", NULL, 0, n) /\ Is(stack'[2], "find_library", NULL, 0, n)
    BY <1>4, DlopenStep
  <2>2. NeededPresent' /\ LinkedMapped'
    BY <2>1, PresentStill, SameInfo DEF AllSame
  <2>3. AskedRet(stack', info', ret', On(Solist)')
    BY <1>1, <2>1 DEF AskedRet
  <2>4. AskedFrames(stack', info')
    <3>1. \A k \in 2 .. 2 : k = 2 /\ k - 1 = 1
      OBVIOUS
    <3> QED BY <2>1, <3>1 DEF AskedFrames, AskedBy, Is
  <2> QED BY <2>2, <2>3, <2>4 DEF PresentInv, AskedInv
<1>5. ASSUME NEW s \in Slots, Dlclose(s) PROVE PresentInv'
  <2>1. /\ Len(stack') = 1 /\ stack = << >> /\ info' = info /\ ret' = ret /\ UNCHANGED lists
        /\ Is(stack'[1], "unload", s, 0, info[s].name)
    BY <1>5, DlcloseStep
  <2>2. NoFind(stack')
    <3>1. \A k \in 1 .. 1 : k = 1
      OBVIOUS
    <3> QED BY <2>1, <3>1 DEF NoFind, Finding, Is
  <2> QED BY <1>1, <2>1, <2>2, PresentStill, PresentQuiet, SameInfo DEF AllSame
<1>6. ASSUME NEW s \in Slots, LibraryDestroy(s) PROVE PresentInv'
  <2>1. /\ info' = info /\ stack' = << >> /\ stack = << >> /\ ret' = ret
        /\ info[s].refcount = 0 /\ On(Solist)' = On(Solist) \ {s}
    BY <1>6, LibraryDestroyStep
  <2>2. Cardinality(Drops(stack, s)) \in Nat
    <3>1. Len(stack) \in Nat /\ DOMAIN stack = 1 .. Len(stack)
      BY DEF TypeInv, LinkerTypes
    <3> QED BY <3>1, DropsAre
  <2>3. info[s].refcount <= Cardinality(Drops(stack, s))
    BY <2>1, <2>2
  <2>4. \A e \in Slots : \A i \in 1 .. Len(info[e].deps) : info[e].deps[i] # s
    BY <2>3, Unrecorded DEF UseInv
  <2>5. NeededPresent' /\ LinkedMapped'
    BY <2>1, <2>4, PresentGone, SameInfo DEF AllSame, SameImage
  <2> QED BY <1>1, <1>2, <2>1, <2>5, PresentQuiet
<1>7. ASSUME NEW n \in Stubs, LibraryCreate(n) PROVE PresentInv'
  <2>1. stack' = << >> /\ stack = << >> /\ ret' = ret /\ n \in Libraries
    BY <1>7, LibraryCreateStep
  <2>2. PICK a \in PoolEntry :
          /\ a \notin On(Solist) /\ On(Solist)' = On(Solist) \cup {a}
          /\ Only(a) /\ info'[a] = Stub(n)
    BY <1>7, LibraryCreateStep
  <2>3. info'[a].deps = << >> /\ info'[a].image = "none"
    BY <2>1, <2>2, SoinfoMade
  <2>4. NeededPresent' /\ LinkedMapped'
    BY <2>2, <2>3, PresentNew
  <2> QED BY <1>1, <1>2, <2>1, <2>4, PresentQuiet
<1>8. CASE Inside
  BY <1>8, PresentInside
<1> QED BY <1>3, <1>4, <1>5, <1>6, <1>7, <1>8 DEF Next

(* A DT_NEEDED entry that link_image wrote never outlives the library it   *)
(* records: until unload_library clears it, that library is on solist,     *)
(* linked, mapped, and the one that was asked for by name.                 *)
THEOREM NeededAlwaysPresent ==
  ASSUME LibDLUnnamed
  PROVE  Spec => []NeededPresent
<1> DEFINE I == CountInv /\ PresentInv
<1>1. Init => I
  BY CountsInitially, PresentInitially
<1>2. I /\ [Next]_vars => I'
  BY CountsStep, PresentStep DEF CountInv
<1>3. I => NeededPresent
  BY DEF PresentInv
<1> HIDE DEF I
<1> QED BY <1>1, <1>2, <1>3, PTL DEF Spec

-----------------------------------------------------------------------------
(* Constructors.  A soinfo's have run, once, when its flag is set and no   *)
(* call in progress is running them; no two calls are running the same.    *)
Starts(f) == f.fn = "init" \/ (f.fn = "constructors" /\ f.i > 0)
Below(t, s) == \E k \in 1 .. Len(t) - 1 : Starts(t[k]) /\ t[k].si = s
InCtor(t, s) == \E k \in 1 .. Len(t) : Starts(t[k]) /\ t[k].si = s
OneCtor(t) ==
  \A j, k \in 1 .. Len(t) : Starts(t[j]) /\ Starts(t[k]) /\ t[j].si = t[k].si => j = k
StartedAt(x, t, s) ==
  /\ x.inits = IF x.constructors_called /\ ~InCtor(t, s) THEN 1 ELSE 0
  /\ InCtor(t, s) => x.constructors_called
Started == OneCtor(stack) /\ \A s \in Slots : StartedAt(info[s], stack, s)

(* Who is running constructors after a return, a step and a call.          *)
LEMMA StartsNext ==
  ASSUME TypeInv, stack # << >>
  PROVE  /\ \A s : InCtor(stack, s) <=> Below(stack, s) \/ (Starts(Top) /\ Top.si = s)
         /\ OneCtor(stack) => ~(Starts(Top) /\ Below(stack, Top.si))
         /\ Pops(stack, stack') =>
              /\ \A s : InCtor(stack', s) <=> Below(stack, s)
              /\ OneCtor(stack) => OneCtor(stack')
         /\ \A f : Sets(stack, stack', f) =>
              /\ \A s : InCtor(stack', s) <=> Below(stack, s) \/ (Starts(f) /\ f.si = s)
              /\ OneCtor(stack) /\ ~(Starts(f) /\ Below(stack, f.si)) => OneCtor(stack')
         /\ \A f, g : Calls(stack, stack', f, g) /\ ~Starts(g) =>
              /\ \A s : InCtor(stack', s) <=> Below(stack, s) \/ (Starts(f) /\ f.si = s)
              /\ OneCtor(stack) /\ ~(Starts(f) /\ Below(stack, f.si)) => OneCtor(stack')
<1>1. PICK n \in Nat \ {0} : n = Len(stack)
  BY StackLength
<1>2. /\ n \in 1 .. n /\ \A k \in 1 .. n - 1 : k \in 1 .. n /\ k # n
      /\ \A k \in 1 .. n : k = n \/ k \in 1 .. n - 1
      /\ \A k \in 1 .. n + 1 : k = n + 1 \/ k \in 1 .. n
      /\ \A k \in 1 .. n : k \in 1 .. n + 1
      /\ Top = stack[n]
  BY <1>1 DEF Top
<1>3. \A s : InCtor(stack, s) <=> Below(stack, s) \/ (Starts(Top) /\ Top.si = s)
  BY <1>1, <1>2 DEF InCtor, Below
<1>4. OneCtor(stack) => ~(Starts(Top) /\ Below(stack, Top.si))
  BY <1>1, <1>2 DEF OneCtor, Below
<1>5. ASSUME Pops(stack, stack')
      PROVE  /\ \A s : InCtor(stack', s) <=> Below(stack, s)
             /\ OneCtor(stack) => OneCtor(stack')
  <2>1. Len(stack') = n - 1 /\ \A k \in 1 .. n - 1 : stack'[k] = stack[k]
    BY <1>1, <1>5 DEF Pops
  <2> QED BY <1>1, <1>2, <2>1 DEF InCtor, Below, OneCtor
<1>6. ASSUME NEW f, Sets(stack, stack', f)
      PROVE  /\ \A s : InCtor(stack', s) <=> Below(stack, s) \/ (Starts(f) /\ f.si = s)
             /\ OneCtor(stack) /\ ~(Starts(f) /\ Below(stack, f.si)) => OneCtor(stack')
  <2>1. Len(stack') = n /\ stack'[n] = f /\ \A k \in 1 .. n - 1 : stack'[k] = stack[k]
    BY <1>1, <1>6 DEF Sets
  <2>2. \A s : InCtor(stack', s) <=> Below(stack, s) \/ (Starts(f) /\ f.si = s)
    BY <1>1, <1>2, <2>1 DEF InCtor, Below
  <2>3. ASSUME OneCtor(stack), ~(Starts(f) /\ Below(stack, f.si)) PROVE OneCtor(stack')
    BY <1>1, <1>2, <2>1, <2>3 DEF OneCtor, Below
  <2> QED BY <2>2, <2>3
<1>7. ASSUME NEW f, NEW g, Calls(stack, stack', f, g), ~Starts(g)
      PROVE  /\ \A s : InCtor(stack', s) <=> Below(stack, s) \/ (Starts(f) /\ f.si = s)
             /\ OneCtor(stack) /\ ~(Starts(f) /\ Below(stack, f.si)) => OneCtor(stack')
  <2>1. /\ Len(stack') = n + 1 /\ stack'[n] = f /\ ~Starts(stack'[n + 1])
        /\ \A k \in 1 .. n - 1 : stack'[k] = stack[k]
    BY <1>1, <1>7 DEF Calls
  <2>2. \A s : InCtor(stack', s) <=> Below(stack, s) \/ (Starts(f) /\ f.si = s)
    BY <1>1, <1>2, <2>1 DEF InCtor, Below
  <2>3. ASSUME OneCtor(stack), ~(Starts(f) /\ Below(stack, f.si)) PROVE OneCtor(stack')
    BY <1>1, <1>2, <2>1, <2>3 DEF OneCtor, Below
  <2> QED BY <2>2, <2>3
<1> QED BY <1>3, <1>4, <1>5, <1>6, <1>7

(* While a library is looked for or unloaded no constructors run, and      *)
(* dlopen has nothing yet.                                                 *)
NoCtor(t) ==
  \A k \in 1 .. Len(t) : /\ t[k].fn \notin {"constructors", "init"}
                         /\ t[k].fn = "dlopen" => t[k].si = NULL

(* No call that finds, loads, links or unloads leaves a constructor in     *)
(* progress.                                                               *)
LEMMA CtorQuiet ==
  ASSUME TypeInv, ShapeInv, stack # << >>, Top.fn \in Finding \cup {"link_image", "unload", "fini"}
  PROVE  /\ NoCtor(stack)
         /\ Pops(stack, stack') => NoCtor(stack')
         /\ \A fn, si, i, m :
              Moving(fn, si, i, m) /\ fn \notin {"constructors", "init", "dlopen"}
                => NoCtor(stack')
         /\ \A si, i, fn, s, m :
              Calling(si, i, fn, s, m) /\ fn \notin {"constructors", "init", "dlopen"}
                => NoCtor(stack')
<1>1. PICK n \in Nat \ {0} : n = Len(stack)
  BY StackLength
<1>2. Shape(stack) /\ Top = stack[n] /\ \A k \in 1 .. n : k = n \/ k \in 1 .. n - 1
  BY <1>1 DEF ShapeInv, Top
<1>3. Building(stack) \/ Closing(stack)
  <2>1. Len(stack) \in Nat \ {0} /\ Top = stack[Len(stack)]
    BY <1>1, <1>2
  <2> QED BY <1>2, <2>1, ShapeTop
<1>4. \A k \in 1 .. n : stack[k].fn \notin {"constructors", "init"}
                       /\ (stack[k].fn = "dlopen" => stack[k].si = NULL)
  <2>1. /\ stack[1].fn \notin {"constructors", "init"}
        /\ stack[1].fn = "dlopen" => stack[1].si = NULL
        /\ \A k \in 2 .. n : stack[k].fn \in Finding \cup {"link_image", "unload", "fini"}
    BY <1>1, <1>3 DEF Building, Closing
  <2>2. \A k \in 1 .. n : k = 1 \/ k \in 2 .. n
    OBVIOUS
  <2> QED BY <2>1, <2>2 DEF Finding
<1>5. NoCtor(stack)
  BY <1>1, <1>4 DEF NoCtor
<1>6. ASSUME Pops(stack, stack') PROVE NoCtor(stack')
  BY <1>1, <1>4, <1>6 DEF Pops, NoCtor
<1>7. ASSUME NEW fn, NEW si, NEW i, NEW m, Moving(fn, si, i, m),
             fn \notin {"constructors", "init", "dlopen"}
      PROVE  NoCtor(stack')
  <2>1. PICK f \in Frames : Sets(stack, stack', f) /\ Is(f, fn, si, i, m)
    BY <1>7 DEF Moving
  <2>2. Len(stack') = n /\ stack'[n] = f /\ \A k \in 1 .. n - 1 : stack'[k] = stack[k]
    BY <1>1, <2>1 DEF Sets
  <2>3. f.fn \notin {"constructors", "init", "dlopen"}
    BY <1>7, <2>1 DEF Is
  <2> QED BY <1>2, <1>4, <2>2, <2>3 DEF NoCtor
<1>8. ASSUME NEW si, NEW i, NEW fn, NEW s, NEW m, Calling(si, i, fn, s, m),
             fn \notin {"constructors", "init", "dlopen"}
      PROVE  NoCtor(stack')
  <2>1. PICK f \in Frames, g \in Frames :
          Calls(stack, stack', f, g) /\ Is(f, Top.fn, si, i, Top.name) /\ Is(g, fn, s, 0, m)
    BY <1>8 DEF Calling
  <2>2. /\ Len(stack') = n + 1 /\ stack'[n] = f /\ stack'[n + 1] = g
        /\ \A k \in 1 .. n - 1 : stack'[k] = stack[k]
    BY <1>1, <2>1 DEF Calls
  <2>3. f.fn \notin {"constructors", "init", "dlopen"}
        /\ g.fn \notin {"constructors", "init", "dlopen"}
    BY <1>8, <2>1 DEF Is, Finding
  <2>4. \A k \in 1 .. n + 1 : k = n + 1 \/ k = n \/ k \in 1 .. n - 1
    OBVIOUS
  <2>5. \A k \in 1 .. n - 1 : stack[k].fn \notin {"constructors", "init"}
                             /\ (stack[k].fn = "dlopen" => stack[k].si = NULL)
    BY <1>4
  <2> QED BY <2>2, <2>3, <2>4, <2>5 DEF NoCtor
<1> QED BY <1>5, <1>6, <1>7, <1>8

(* With no constructor in progress no library is running its own.          *)
LEMMA NoCtorStarts ==
  ASSUME NEW t, NoCtor(t) \/ Len(t) = 0 \/ (Len(t) = 1 /\ t[1].fn = "dlopen")
  PROVE  OneCtor(t) /\ \A s : ~InCtor(t, s)
<1>1. CASE NoCtor(t)
  BY <1>1 DEF NoCtor, OneCtor, InCtor, Starts
<1>2. CASE Len(t) = 0
  BY <1>2 DEF OneCtor, InCtor
<1>3. CASE Len(t) = 1 /\ t[1].fn = "dlopen"
  <2>1. \A k \in 1 .. 1 : k = 1
    OBVIOUS
  <2> QED BY <1>3, <2>1 DEF OneCtor, InCtor, Starts
<1> QED BY <1>1, <1>2, <1>3

(* A step that runs no constructors.                                       *)
LEMMA StartedQuiet ==
  ASSUME Started, \A s : ~InCtor(stack, s), \A s : ~InCtor(stack', s), OneCtor(stack'),
         \A s \in Slots :
           \/ /\ info'[s].inits = info[s].inits
              /\ info'[s].constructors_called = info[s].constructors_called
           \/ info'[s].inits = 0 /\ ~info'[s].constructors_called
  PROVE  Started'
<1>1. ASSUME NEW s \in Slots PROVE StartedAt(info'[s], stack', s)
  BY DEF Started, StartedAt
<1> QED BY <1>1 DEF Started

(* At first no constructor has been called.                                *)
LEMMA StartedInitially ==
  ASSUME Init
  PROVE  Started
<1>1. stack = << >>
  BY DEF Init
<1>2. OneCtor(stack) /\ \A s : ~InCtor(stack, s)
  BY <1>1, NoCtorStarts
<1>3. \A s \in Slots : info[s].inits = 0 /\ ~info[s].constructors_called
  BY InfoInitially, SoinfoMade
<1> QED BY <1>2, <1>3 DEF Started, StartedAt

(* Every step of a call: only call_constructors_recursive runs any.        *)
LEMMA StartedInside ==
  ASSUME LibDLUnnamed, TypeInv, ShapeInv, Started, Inside
  PROVE  Started'
<1> DEFINE Quiet == NoCtor(stack) /\ NoCtor(stack')
           Same  == SameInits /\ SameCalled
<1>1. ASSUME Quiet, \A s \in Slots :
                      \/ /\ info'[s].inits = info[s].inits
                         /\ info'[s].constructors_called = info[s].constructors_called
                      \/ info'[s].inits = 0 /\ ~info'[s].constructors_called
      PROVE  Started'
  BY <1>1, NoCtorStarts, StartedQuiet
<1>2. ASSUME Quiet, Same PROVE Started'
  BY <1>1, <1>2 DEF SameInits, SameCalled
<1>3. info' = info => Same
  BY SameInfo DEF AllSame
<1>4. ASSUME stack # << >>, Top.fn \in Finding \cup {"link_image", "unload", "fini"}
      PROVE  /\ NoCtor(stack)
             /\ Pops(stack, stack') => Quiet
             /\ \A fn, si, i, m : Moving(fn, si, i, m)
                  /\ fn \notin {"constructors", "init", "dlopen"} => Quiet
             /\ \A si, i, fn, s, m : Calling(si, i, fn, s, m)
                  /\ fn \notin {"constructors", "init", "dlopen"} => Quiet
  BY <1>4, CtorQuiet
<1>5. "find_library" \in Finding /\ "load_library" \in Finding
  BY DEF Finding
<1> HIDE DEF Quiet
<1>6. CASE FindLibrary
  BY <1>2, <1>3, <1>4, <1>5, <1>6, FindLibraryStep
<1>7. CASE LoadRefused
  BY <1>2, <1>3, <1>4, <1>5, <1>7, LoadRefusedStep
<1>8. CASE LoadAlloc
  <2>1. Quiet
    BY <1>4, <1>5, <1>8, LoadAllocStep
  <2>2. CASE info' = info
    BY <1>2, <1>3, <2>1, <2>2
  <2>3. CASE \E a \in PoolEntry : /\ Only(a) /\ info'[a] = Soinfo(Top.name)
                                  /\ Top.name \in Libraries
    <3>1. PICK a \in PoolEntry : /\ Only(a) /\ info'[a] = Soinfo(Top.name)
                                 /\ Top.name \in Libraries
      BY <2>3
    <3>2. info'[a].inits = 0 /\ ~info'[a].constructors_called
      BY <3>1, SoinfoMade
    <3> QED BY <1>1, <2>1, <3>1, <3>2 DEF Only
  <2> QED BY <1>8, <2>2, <2>3, LoadAllocStep
<1>9. CASE LoadSegments
  BY <1>2, <1>4, <1>5, <1>9, LoadSegmentsStep, LoadSegmentsFields
<1>10. CASE LoadFails
  BY SMTT(20), <1>2, <1>3, <1>4, <1>5, <1>10, LoadFailsStep
<1>11. CASE LinkFails
  BY <1>2, <1>4, <1>11, LinkFailStep, LinkFailFields
<1>12. CASE LinkFind
  BY <1>2, <1>3, <1>4, <1>12, LinkFindStep
<1>13. CASE LinkNeeded /\ ret # NULL
  BY <1>2, <1>4, <1>13, LinkNeededStep, LinkNeededFields
<1>14. CASE LinkFinish /\ ~LinkFail(TRUE)
  BY <1>2, <1>4, <1>14, LinkedStep, LinkedFields
<1>15. ASSUME stack # << >>, Top.fn = "dlopen", Same,
              \/ Pops(stack, stack')
              \/ \E si, i, s, m : Calling(si, i, "constructors", s, m)
       PROVE  Started'
  <2>1. Len(stack) = 1 /\ stack[1].fn = "dlopen"
    <3>1. Len(stack) \in Nat \ {0} /\ Top = stack[Len(stack)] /\ Shape(stack)
      BY <1>15, StackLength DEF Top, ShapeInv
    <3> QED BY <1>15, <3>1, ShapeTop
  <2>2. OneCtor(stack) /\ \A s : ~InCtor(stack, s) /\ ~Below(stack, s)
    BY <2>1, NoCtorStarts DEF Below
  <2>3. OneCtor(stack') /\ \A s : ~InCtor(stack', s)
    <3>1. CASE Pops(stack, stack')
      BY <1>15, <2>2, <3>1, StartsNext
    <3>2. ASSUME NEW si, NEW i, NEW s, NEW m, Calling(si, i, "constructors", s, m)
          PROVE  OneCtor(stack') /\ \A e : ~InCtor(stack', e)
      <4>1. PICK f \in Frames, g \in Frames :
              /\ Calls(stack, stack', f, g) /\ Is(f, Top.fn, si, i, Top.name)
              /\ Is(g, "constructors", s, 0, m)
        BY <3>2 DEF Calling
      <4>2. ~Starts(f) /\ ~Starts(g)
        BY <1>15, <4>1 DEF Starts, Is
      <4> QED BY <1>15, <2>2, <4>1, <4>2, StartsNext
    <3> QED BY <1>15, <3>1, <3>2
  <2> QED BY <1>15, <2>2, <2>3, StartedQuiet DEF SameInits, SameCalled
<1>16. CASE DlopenFound
  BY <1>3, <1>15, <1>16, DlopenFoundStep
<1>17. CASE DlopenReturn
  BY <1>15, <1>17, DlopenReturnStep, DlopenReturnFields
<1>18. CASE CtorEnter
  <2>1. /\ stack # << >> /\ Top.fn = "constructors" /\ Top.si \in PoolEntry /\ Top.i = 0
        /\ \/ info[Top.si].constructors_called /\ Pops(stack, stack') /\ info' = info
           \/ /\ ~info[Top.si].constructors_called
              /\ Moving("constructors", Top.si, 1, Top.name)
    BY <1>18, CtorEnterStep
  <2>2. PICK a \in Slots : a = Top.si
    BY <2>1, PoolEntries
  <2>3. SameInits /\ info'[a].constructors_called
        /\ \A s \in Slots :
             s # a => info'[s].constructors_called = info[s].constructors_called
    BY <1>18, <2>2, CtorEnterFields
  <2>4. ~Starts(Top) /\ \A s : InCtor(stack, s) <=> Below(stack, s)
    BY <2>1, StartsNext DEF Starts
  <2>5. CASE info[Top.si].constructors_called /\ Pops(stack, stack') /\ info' = info
    <3>1. OneCtor(stack') /\ \A s : InCtor(stack', s) <=> InCtor(stack, s)
      BY <2>1, <2>4, <2>5, StartsNext DEF Started
    <3> QED BY <2>5, <3>1 DEF Started, StartedAt
  <2>6. CASE ~info[Top.si].constructors_called /\ Moving("constructors", Top.si, 1, Top.name)
    <3>1. PICK f \in Frames :
            Sets(stack, stack', f) /\ Is(f, "constructors", Top.si, 1, Top.name)
      BY <2>6 DEF Moving
    <3>2. Starts(f) /\ f.si = a
      BY <2>2, <3>1 DEF Starts, Is
    <3>3. ~Below(stack, a) /\ info[a].inits = 0
      BY <2>2, <2>4, <2>6 DEF Started, StartedAt
    <3>4. OneCtor(stack') /\ \A s : InCtor(stack', s) <=> InCtor(stack, s) \/ s = a
      BY <2>1, <2>4, <3>1, <3>2, <3>3, StartsNext DEF Started
    <3>5. \A s \in Slots : StartedAt(info'[s], stack', s)
      BY <2>3, <3>3, <3>4 DEF Started, StartedAt, SameInits
    <3> QED BY <3>4, <3>5 DEF Started
  <2> QED BY <2>1, <2>5, <2>6
<1>19. ASSUME stack # << >>, Starts(Top), Same,
              \/ \E fn, i, m : Moving(fn, Top.si, i, m) /\ (i > 0 \/ fn = "init")
                                 /\ fn \in {"constructors", "init"}
              \/ \E i, s, m : Calling(Top.si, i, "constructors", s, m) /\ i > 0
                                 /\ Top.fn = "constructors"
       PROVE  Started'
  <2>1. OneCtor(stack) /\ ~Below(stack, Top.si)
        /\ \A s : InCtor(stack, s) <=> Below(stack, s) \/ Top.si = s
    BY <1>19, StartsNext DEF Started
  <2>2. OneCtor(stack') /\ \A s : InCtor(stack', s) <=> InCtor(stack, s)
    <3>1. ASSUME NEW fn, NEW i, NEW m, Moving(fn, Top.si, i, m), i > 0 \/ fn = "init",
                 fn \in {"constructors", "init"}
          PROVE  OneCtor(stack') /\ \A s : InCtor(stack', s) <=> InCtor(stack, s)
      <4>1. PICK f \in Frames : Sets(stack, stack', f) /\ Is(f, fn, Top.si, i, m)
        BY <3>1 DEF Moving
      <4>2. Starts(f) /\ f.si = Top.si
        BY <3>1, <4>1 DEF Starts, Is
      <4> QED BY <1>19, <2>1, <4>1, <4>2, StartsNext
    <3>2. ASSUME NEW i, NEW s, NEW m, Calling(Top.si, i, "constructors", s, m), i > 0,
                 Top.fn = "constructors"
          PROVE  OneCtor(stack') /\ \A e : InCtor(stack', e) <=> InCtor(stack, e)
      <4>1. PICK f \in Frames, g \in Frames :
              /\ Calls(stack, stack', f, g) /\ Is(f, Top.fn, Top.si, i, Top.name)
              /\ Is(g, "constructors", s, 0, m)
        BY <3>2 DEF Calling
      <4>2. Starts(f) /\ f.si = Top.si /\ ~Starts(g)
        BY <3>2, <4>1 DEF Starts, Is
      <4> QED BY <1>19, <2>1, <4>1, <4>2, StartsNext
    <3> QED BY <1>19, <3>1, <3>2
  <2>3. \A s \in Slots : StartedAt(info'[s], stack', s)
    BY <1>19, <2>2 DEF Started, StartedAt, SameInits, SameCalled
  <2> QED BY <2>2, <2>3 DEF Started
<1>20. CASE CtorNeeded
  <2>1. /\ stack # << >> /\ Top.fn = "constructors" /\ Same
        /\ Top.i \in 1 .. Len(info[Top.si].deps) /\ Top.si \in Slots
        /\ \/ \E s : Calling(Top.si, Top.i + 1, "constructors", s, Top.name)
           \/ Moving("constructors", Top.si, Top.i + 1, Top.name)
    BY <1>3, <1>20, CtorNeededStep, PoolEntries
  <2>2. Starts(Top) /\ Top.i + 1 > 0
    <3>1. Len(info[Top.si].deps) \in Nat
      BY <2>1, DepsFields DEF TypeInv
    <3> QED BY <2>1, <3>1 DEF Starts
  <2> QED BY <1>19, <2>1, <2>2
<1>21. CASE CtorInit
  <2>1. /\ stack # << >> /\ Top.fn = "constructors" /\ Same /\ Top.si \in Slots
        /\ Top.i > Len(info[Top.si].deps) /\ Moving("init", Top.si, 0, Top.name)
    BY <1>3, <1>21, CtorInitStep, PoolEntries
  <2>2. Starts(Top)
    <3>1. Len(info[Top.si].deps) \in Nat /\ Top \in Frames
      BY <2>1, DepsFields, StackLength DEF TypeInv, Top
    <3>2. Top.i \in Nat
      BY <3>1, FrameFields
    <3> QED BY <2>1, <3>1, <3>2 DEF Starts
  <2> QED BY <1>19, <2>1, <2>2
<1>22. CASE InitReturns
  <2>1. stack # << >> /\ Top.fn = "init" /\ Top.si \in PoolEntry /\ Pops(stack, stack')
    BY <1>22, InitReturnsStep
  <2>2. PICK a \in Slots : a = Top.si
    BY <2>1, PoolEntries
  <2>3. /\ SameCalled /\ info'[a].inits = info[a].inits + 1
        /\ \A s \in Slots : s # a => info'[s].inits = info[s].inits
    BY <1>22, <2>2, InitReturnsFields
  <2>4. Starts(Top) /\ ~Below(stack, a)
        /\ \A s : InCtor(stack, s) <=> Below(stack, s) \/ a = s
    BY <2>1, <2>2, StartsNext DEF Started, Starts
  <2>5. OneCtor(stack') /\ \A s : InCtor(stack', s) <=> Below(stack, s)
    BY <2>1, StartsNext DEF Started
  <2>6. info[a].inits = 0 /\ info[a].constructors_called
    BY <2>4 DEF Started, StartedAt
  <2>7. \A s \in Slots : StartedAt(info'[s], stack', s)
    BY <2>3, <2>4, <2>5, <2>6 DEF Started, StartedAt, SameCalled
  <2> QED BY <2>5, <2>7 DEF Started
<1>23. CASE UnloadEnter
  <2>1. Quiet
    BY <1>4, <1>23, UnloadEnterStep
  <2>2. Same
    BY <1>3, <1>23, UnloadEnterStep, UnloadEnterFields
  <2> QED BY <1>2, <2>1, <2>2
<1>24. CASE FiniReturns
  BY <1>2, <1>4, <1>24, FiniReturnsStep, FiniReturnsFields
<1>25. CASE UnloadNeeded
  BY <1>2, <1>4, <1>25, UnloadNeededStep, UnloadNeededFields
<1>26. CASE UnloadFree
  BY <1>2, <1>4, <1>26, UnloadFreeStep, UnloadFreeFields
<1> QED BY <1>6, <1>7, <1>8, <1>9, <1>10, <1>11, <1>12, <1>13, <1>14, <1>16, <1>17,
           <1>18, <1>20, <1>21, <1>22, <1>23, <1>24, <1>25, <1>26, InsideCases

(* Every step keeps Started.                                               *)
LEMMA StartedStep ==
  ASSUME LibDLUnnamed, TypeInv, ShapeInv, Started, [Next]_vars
  PROVE  Started'
<1>1. CASE UNCHANGED vars
  <2>1. stack' = stack /\ info' = info
    BY <1>1 DEF vars, pool
  <2> QED BY <2>1 DEF Started
<1>2. ASSUME stack = << >>, OneCtor(stack') /\ \A s : ~InCtor(stack', s),
             \A s \in Slots :
               \/ /\ info'[s].inits = info[s].inits
                  /\ info'[s].constructors_called = info[s].constructors_called
               \/ info'[s].inits = 0 /\ ~info'[s].constructors_called
      PROVE  Started'
  BY <1>2, NoCtorStarts, StartedQuiet
<1>3. stack' = << >> => OneCtor(stack') /\ \A s : ~InCtor(stack', s)
  BY NoCtorStarts
<1>4. ASSUME NEW n \in Opened, Dlopen(n) PROVE Started'
  <2>1. /\ Len(stack') = 2 /\ stack = << >> /\ info' = info
        /\ Is(stack'[1], "dlopen", NULL, 0, n) /\ Is(stack'[2], "find_library", NULL, 0, n)
    BY <1>4, DlopenStep
  <2>2. NoCtor(stack')
    <3>1. \A k \in 1 .. 2 : k = 1 \/ k = 2
      OBVIOUS
    <3> QED BY <2>1, <3>1 DEF NoCtor, Is
  <2> QED BY <1>2, <2>1, <2>2, NoCtorStarts
<1>5. ASSUME NEW s \in Slots, Dlclose(s) PROVE Started'
  <2>1. /\ Len(stack') = 1 /\ stack = << >> /\ info' = info
        /\ Is(stack'[1], "unload", s, 0, info[s].name)
    BY <1>5, DlcloseStep
  <2>2. NoCtor(stack')
    <3>1. \A k \in 1 .. 1 : k = 1
      OBVIOUS
    <3> QED BY <2>1, <3>1 DEF NoCtor, Is
  <2> QED BY <1>2, <2>1, <2>2, NoCtorStarts
<1>6. ASSUME NEW s \in Slots, LibraryDestroy(s) PROVE Started'
  BY <1>2, <1>3, <1>6, LibraryDestroyStep
<1>7. ASSUME NEW n \in Stubs, LibraryCreate(n) PROVE Started'
  <2>1. stack' = << >> /\ stack = << >> /\ n \in Libraries
    BY <1>7, LibraryCreateStep
  <2>2. PICK a \in PoolEntry : Only(a) /\ info'[a] = Stub(n)
    BY <1>7, LibraryCreateStep
  <2>3. info'[a].inits = 0 /\ ~info'[a].constructors_called
    BY <2>1, <2>2, SoinfoMade
  <2> QED BY <1>2, <1>3, <2>1, <2>2, <2>3 DEF Only
<1>8. CASE Inside
  BY <1>8, StartedInside
<1> QED BY <1>1, <1>4, <1>5, <1>6, <1>7, <1>8 DEF Next

(* What a dlopen found stays usable while its constructors run, and they   *)
(* have been called by the time it is handed out.                          *)
OpenAt(f, x, on) ==
  f.fn \in {"dlopen", "constructors", "init"} /\ f.si # NULL => UsableIn(x[f.si], f.si, on)
OpenFrames(t, x, on) == \A k \in 1 .. Len(t) : OpenAt(t[k], x, on)
Reached(t, x) ==
  Len(t) >= 1 /\ t[1].fn = "dlopen" /\ t[1].si # NULL =>
    \/ x[t[1].si].constructors_called
    \/ Len(t) = 2 /\ t[2].fn = "constructors" /\ t[2].i = 0 /\ t[2].si = t[1].si
Opening == OpenFrames(stack, info, On(Solist)) /\ Reached(stack, info)

(* With nothing initialised on the stack there is nothing to keep usable.  *)
LEMMA NothingOpen ==
  ASSUME Len(stack') \in Nat, NoCtor(stack') \/ Len(stack') = 0
  PROVE  Opening'
<1>1. CASE NoCtor(stack')
  <2>1. Len(stack') >= 1 => 1 \in 1 .. Len(stack')
    OBVIOUS
  <2> QED BY <1>1, <2>1 DEF NoCtor, Opening, OpenFrames, OpenAt, Reached
<1>2. CASE Len(stack') = 0
  BY <1>2 DEF Opening, OpenFrames, Reached
<1> QED BY <1>1, <1>2

UsableNext(s) == UsableIn(info'[s], s, On(Solist)')

(* A step while constructors run: nothing becomes less usable.             *)
LEMMA OpenNext ==
  ASSUME TypeInv, ShapeInv, Opening, stack # << >>, Starting(stack), Len(stack) >= 2,
         SameLinked, SameError, SameImage, UNCHANGED lists,
         \A s \in Slots : info[s].constructors_called => info'[s].constructors_called,
         info'[Top.si].constructors_called \/ ~(Top.fn = "constructors" /\ Top.i = 0)
  PROVE  /\ UsableNext(Top.si)
         /\ Pops(stack, stack') => Opening'
         /\ \A fn, i, m :
              Moving(fn, Top.si, i, m) /\ fn \in {"constructors", "init"} => Opening'
         /\ \A i, s, m :
              Calling(Top.si, i, "constructors", s, m) /\ UsableNext(s) => Opening'
<1>1. PICK n \in Nat \ {0} : n = Len(stack) /\ n >= 2
  BY StackLength
<1>2. PICK on : on = On(Solist)' /\ on = On(Solist)
  BY ListsSame
<1>3. PICK y : y = info'
  OBVIOUS
<1>4. /\ n \in 1 .. n /\ 1 \in 1 .. n - 1 /\ \A k \in 1 .. n - 1 : k \in 1 .. n
      /\ \A k \in 1 .. n : k = n \/ k \in 1 .. n - 1
      /\ \A k \in 1 .. n + 1 : k = n + 1 \/ k = n \/ k \in 1 .. n - 1
      /\ Top = stack[n]
  BY <1>1 DEF Top
<1>5. \A k \in 1 .. n : stack[k].si \in Slots \cup {NULL}
  BY <1>1, StackLength, FrameFields, PoolEntries
<1>6. \A s \in Slots : UsableIn(info[s], s, on) <=> UsableIn(y[s], s, on)
  BY <1>3 DEF UsableIn, SameLinked, SameError, SameImage
<1>7. \A k \in 1 .. n : OpenAt(stack[k], y, on)
  BY <1>1, <1>2, <1>5, <1>6 DEF Opening, OpenFrames, OpenAt
<1>8. stack[1].fn = "dlopen" /\ stack[1].si # NULL /\ stack[1].si \in Slots
      /\ Top.fn \in {"constructors", "init"} /\ Top.si \in PoolEntry
  <2>1. stack[1].fn = "dlopen" /\ stack[1].si # NULL /\ Top.fn \in {"constructors", "init"}
    <3>1. n \in 2 .. n
      BY <1>1
    <3> QED BY <1>1, <1>4, <3>1 DEF Starting
  <2>2. Top \in Frames /\ 1 \in 1 .. n
    BY <1>1, <1>4, StackLength
  <2> QED BY <1>5, <2>1, <2>2, FrameFields DEF Holding
<1>9. y[stack[1].si].constructors_called
  <2>1. \/ info[stack[1].si].constructors_called
        \/ n = 2 /\ stack[2].fn = "constructors" /\ stack[2].i = 0 /\ stack[2].si = stack[1].si
    BY <1>1, <1>8 DEF Opening, Reached
  <2> QED BY <1>3, <1>4, <1>8, <2>1
<1>10. UsableIn(y[Top.si], Top.si, on)
  BY <1>4, <1>7, <1>8, PoolEntries DEF OpenAt
<1>11. ASSUME Pops(stack, stack') PROVE Opening'
  <2>1. Len(stack') = n - 1 /\ \A k \in 1 .. n - 1 : stack'[k] = stack[k]
    BY <1>1, <1>11 DEF Pops
  <2> QED BY <1>2, <1>3, <1>4, <1>7, <1>9, <2>1 DEF Opening, OpenFrames, Reached
<1>12. ASSUME NEW fn, NEW i, NEW m, Moving(fn, Top.si, i, m), fn \in {"constructors", "init"}
       PROVE  Opening'
  <2>1. PICK f \in Frames : Sets(stack, stack', f) /\ Is(f, fn, Top.si, i, m)
    BY <1>12 DEF Moving
  <2>2. Len(stack') = n /\ stack'[n] = f /\ \A k \in 1 .. n - 1 : stack'[k] = stack[k]
    BY <1>1, <2>1 DEF Sets
  <2>3. OpenAt(f, y, on)
    BY <1>10, <2>1 DEF OpenAt, Is
  <2>4. OpenFrames(stack', y, on)
    BY <1>4, <1>7, <2>2, <2>3 DEF OpenFrames
  <2> QED BY <1>2, <1>3, <1>4, <1>9, <2>2, <2>4 DEF Opening, Reached
<1>13. ASSUME NEW i, NEW s, NEW m, Calling(Top.si, i, "constructors", s, m),
              UsableIn(y[s], s, on)
       PROVE  Opening'
  <2>1. PICK f \in Frames, g \in Frames :
          /\ Calls(stack, stack', f, g) /\ Is(f, Top.fn, Top.si, i, Top.name)
          /\ Is(g, "constructors", s, 0, m)
    BY <1>13 DEF Calling
  <2>2. /\ Len(stack') = n + 1 /\ stack'[n] = f /\ stack'[n + 1] = g
        /\ \A k \in 1 .. n - 1 : stack'[k] = stack[k]
    BY <1>1, <2>1 DEF Calls
  <2>3. OpenAt(f, y, on) /\ OpenAt(g, y, on)
    BY <1>10, <1>13, <2>1 DEF OpenAt, Is
  <2>4. OpenFrames(stack', y, on)
    BY <1>4, <1>7, <2>2, <2>3 DEF OpenFrames
  <2> QED BY <1>2, <1>3, <1>4, <1>9, <2>2, <2>4 DEF Opening, Reached
<1>14. UsableNext(Top.si)
  BY <1>2, <1>3, <1>10 DEF UsableNext
<1>15. \A i, s, m :
         Calling(Top.si, i, "constructors", s, m) /\ UsableNext(s) => Opening'
  <2> SUFFICES ASSUME NEW i, NEW s, NEW m, Calling(Top.si, i, "constructors", s, m),
                      UsableNext(s)
               PROVE  Opening'
    OBVIOUS
  <2>1. UsableIn(y[s], s, on)
    BY <1>2, <1>3 DEF UsableNext
  <2> QED BY <1>13, <2>1
<1>16. \A fn, i, m :
         Moving(fn, Top.si, i, m) /\ fn \in {"constructors", "init"} => Opening'
  BY <1>12
<1> QED BY <1>11, <1>14, <1>15, <1>16

(* Every step of a call keeps Opening.                                     *)
LEMMA OpeningInside ==
  ASSUME LibDLUnnamed, TypeInv, TypeInv', ShapeInv, PresentInv, Opening, Inside
  PROVE  Opening'
<1>1. Len(stack') \in Nat
  BY DEF TypeInv, LinkerTypes
<1>2. ASSUME stack # << >>, Top.fn \in Finding \cup {"link_image", "unload", "fini"}
      PROVE  /\ Pops(stack, stack') => Opening'
             /\ \A fn, si, i, m : Moving(fn, si, i, m)
                  /\ fn \notin {"constructors", "init", "dlopen"} => Opening'
             /\ \A si, i, fn, s, m : Calling(si, i, fn, s, m)
                  /\ fn \notin {"constructors", "init", "dlopen"} => Opening'
  BY <1>1, <1>2, CtorQuiet, NothingOpen
<1>3. "find_library" \in Finding /\ "load_library" \in Finding
  BY DEF Finding
<1>4. FindLibrary => Opening'
  BY <1>2, <1>3, FindLibraryStep
<1>5. LoadRefused => Opening'
  BY <1>2, <1>3, LoadRefusedStep
<1>6. LoadAlloc => Opening'
  BY <1>2, <1>3, LoadAllocStep
<1>7. LoadSegments => Opening'
  BY <1>2, <1>3, LoadSegmentsStep
<1>8. LoadFails => Opening'
  BY <1>2, <1>3, LoadFailsStep
<1>9. LinkFails => Opening'
  BY <1>2, LinkFailStep
<1>10. LinkFind => Opening'
  BY <1>2, LinkFindStep
<1>11. LinkNeeded /\ ret # NULL => Opening'
  BY <1>2, LinkNeededStep
<1>12. LinkFinish /\ ~LinkFail(TRUE) => Opening'
  BY <1>2, LinkedStep
<1>13. UnloadEnter => Opening'
  BY <1>2, UnloadEnterStep
<1>14. FiniReturns => Opening'
  BY <1>2, FiniReturnsStep
<1>15. UnloadNeeded => Opening'
  BY <1>2, UnloadNeededStep
<1>16. UnloadFree => Opening'
  BY <1>2, UnloadFreeStep
<1>17. ASSUME stack # << >>
       PROVE  /\ Top.fn = "dlopen" => Len(stack) = 1
              /\ Top.fn \in {"constructors", "init"} => Starting(stack) /\ Len(stack) >= 2
  <2>1. Len(stack) \in Nat \ {0} /\ Top = stack[Len(stack)] /\ Shape(stack)
    BY <1>17, StackLength DEF Top, ShapeInv
  <2> QED BY <2>1, ShapeTop
<1>18. CASE DlopenFound
  <2>1. /\ stack # << >> /\ Top.fn = "dlopen" /\ Len(stack) = 1 /\ ret # NOTHING
        /\ UNCHANGED lists /\ info' = info
        /\ \/ Pops(stack, stack')
           \/ ret \in PoolEntry /\ Calling(ret, Top.i, "constructors", ret, Top.name)
    BY <1>17, <1>18, DlopenFoundStep
  <2>2. CASE Pops(stack, stack')
    BY <1>1, <2>1, <2>2, NothingOpen DEF Pops
  <2>3. CASE ret \in PoolEntry /\ Calling(ret, Top.i, "constructors", ret, Top.name)
    <3>1. PICK f \in Frames, g \in Frames :
            /\ Calls(stack, stack', f, g) /\ Is(f, Top.fn, ret, Top.i, Top.name)
            /\ Is(g, "constructors", ret, 0, Top.name)
      BY <2>3 DEF Calling
    <3>2. PICK on : on = On(Solist)' /\ on = On(Solist)
      BY <2>1, ListsSame
    <3>3. UsableIn(info[ret], ret, on)
      BY <2>1, <2>3, <3>2, PoolEntries DEF PresentInv, AskedInv, AskedRet
    <3>4. Len(stack') = 2 /\ stack'[1] = f /\ stack'[2] = g
      BY <2>1, <3>1 DEF Calls
    <3>5. \A k \in 1 .. 2 : k = 1 \/ k = 2
      OBVIOUS
    <3>6. OpenFrames(stack', info, on)
      BY <3>1, <3>3, <3>4, <3>5 DEF OpenFrames, OpenAt, Is
    <3>7. Reached(stack', info)
      BY <3>1, <3>4 DEF Reached, Is
    <3> QED BY <2>1, <3>2, <3>6, <3>7 DEF Opening
  <2> QED BY <2>1, <2>2, <2>3
<1>19. CASE DlopenReturn
  <2>1. Len(stack') = 0
    <3>1. stack # << >> /\ Top.fn = "dlopen" /\ Pops(stack, stack')
      BY <1>19, DlopenReturnStep
    <3>2. Len(stack) = 1
      BY <1>17, <3>1
    <3> QED BY <3>1, <3>2 DEF Pops
  <2> QED BY <1>1, <2>1, NothingOpen
<1>20. CASE CtorEnter
  <2>1. /\ stack # << >> /\ Top.fn = "constructors" /\ UNCHANGED lists /\ Top.si \in Slots
        /\ Pops(stack, stack') \/ Moving("constructors", Top.si, 1, Top.name)
    BY <1>20, CtorEnterStep, PoolEntries
  <2>2. /\ SameLinked /\ SameError /\ SameImage /\ info'[Top.si].constructors_called
        /\ \A s \in Slots : info[s].constructors_called => info'[s].constructors_called
    BY <1>20, CtorEnterFields
  <2> QED BY <1>17, <2>1, <2>2, OpenNext
<1>21. CASE CtorNeeded
  <2>1. PICK a \in Slots : a = Top.si
    BY <1>21, CtorNeededStep, PoolEntries
  <2>2. /\ stack # << >> /\ Top.fn = "constructors" /\ info' = info /\ UNCHANGED lists
        /\ Top.i \in 1 .. Len(info[a].deps)
        /\ \/ /\ info[a].deps[Top.i] \in PoolEntry
              /\ Calling(Top.si, Top.i + 1, "constructors", info[a].deps[Top.i], Top.name)
           \/ Moving("constructors", Top.si, Top.i + 1, Top.name)
    BY <1>21, <2>1, CtorNeededStep
  <2>3. AllSame /\ On(Solist)' = On(Solist) /\ Len(info[a].deps) \in Nat
    BY <2>2, SameInfo, ListsSame, DepsFields DEF TypeInv
  <2>4. /\ UsableNext(a)
        /\ Moving("constructors", Top.si, Top.i + 1, Top.name) => Opening'
        /\ \A s : Calling(Top.si, Top.i + 1, "constructors", s, Top.name) /\ UsableNext(s)
                 => Opening'
    BY <1>17, <2>1, <2>2, <2>3, OpenNext DEF AllSame
  <2>5. info[a].deps[Top.i] # NULL =>
          UsableIn(info[info[a].deps[Top.i]], info[a].deps[Top.i], On(Solist))
    <3>1. a \in On(Solist)
      BY <2>2, <2>3, <2>4 DEF UsableIn, UsableNext
    <3>2. Present(info, On(Solist))
      BY PresentIs DEF PresentInv
    <3> QED BY <2>2, <3>1, <3>2 DEF Present
  <2> QED BY <2>2, <2>3, <2>4, <2>5, PoolEntries DEF UsableNext
<1>22. CASE CtorInit
  <2>1. /\ stack # << >> /\ Top.fn = "constructors" /\ info' = info /\ UNCHANGED lists
        /\ Top.i > Len(info[Top.si].deps) /\ Top.si \in Slots
        /\ Moving("init", Top.si, 0, Top.name)
    BY <1>22, CtorInitStep, PoolEntries
  <2>2. Len(info[Top.si].deps) \in Nat
    BY <2>1, DepsFields DEF TypeInv
  <2>3. ~(Top.i = 0) /\ AllSame
    BY <2>1, <2>2, SameInfo
  <2> QED BY <1>17, <2>1, <2>3, OpenNext DEF AllSame
<1>23. CASE InitReturns
  BY <1>17, <1>23, InitReturnsStep, InitReturnsFields, OpenNext DEF SameCalled
<1> QED BY <1>4, <1>5, <1>6, <1>7, <1>8, <1>9, <1>10, <1>11, <1>12, <1>13, <1>14, <1>15,
           <1>16, <1>18, <1>19, <1>20, <1>21, <1>22, <1>23, InsideCases

(* At first no library is being opened.                                    *)
LEMMA OpeningInitially ==
  ASSUME Init
  PROVE  Opening
<1>1. stack = << >> /\ Len(stack) = 0
  BY DEF Init
<1> QED BY <1>1 DEF Opening, OpenFrames, Reached

(* Every step keeps Opening.                                               *)
LEMMA OpeningStep ==
  ASSUME LibDLUnnamed, TypeInv, TypeInv', ShapeInv, PresentInv, Opening, [Next]_vars
  PROVE  Opening'
<1>1. CASE UNCHANGED vars
  <2>1. stack' = stack /\ info' = info /\ UNCHANGED lists
    BY <1>1 DEF vars, pool
  <2>2. On(Solist)' = On(Solist)
    BY <2>1, ListsSame
  <2> QED BY <2>1, <2>2 DEF Opening
<1>2. Len(stack') \in Nat
  BY DEF TypeInv, LinkerTypes
<1>3. stack' = << >> => Opening'
  BY <1>2, NothingOpen
<1>4. ASSUME NEW n \in Opened, Dlopen(n) PROVE Opening'
  <2>1. /\ Len(stack') = 2
        /\ Is(stack'[1], "dlopen", NULL, 0, n) /\ Is(stack'[2], "find_library", NULL, 0, n)
    BY <1>4, DlopenStep
  <2>2. NoCtor(stack')
    <3>1. \A k \in 1 .. 2 : k = 1 \/ k = 2
      OBVIOUS
    <3> QED BY <2>1, <3>1 DEF NoCtor, Is
  <2> QED BY <1>2, <2>2, NothingOpen
<1>5. ASSUME NEW s \in Slots, Dlclose(s) PROVE Opening'
  <2>1. Len(stack') = 1 /\ Is(stack'[1], "unload", s, 0, info[s].name)
    BY <1>5, DlcloseStep
  <2>2. NoCtor(stack')
    <3>1. \A k \in 1 .. 1 : k = 1
      OBVIOUS
    <3> QED BY <2>1, <3>1 DEF NoCtor, Is
  <2> QED BY <1>2, <2>2, NothingOpen
<1>6. ASSUME NEW s \in Slots, LibraryDestroy(s) PROVE Opening'
  BY <1>3, <1>6, LibraryDestroyStep
<1>7. ASSUME NEW n \in Stubs, LibraryCreate(n) PROVE Opening'
  BY <1>3, <1>7, LibraryCreateStep
<1>8. CASE Inside
  BY <1>8, OpeningInside
<1> QED BY <1>1, <1>4, <1>5, <1>6, <1>7, <1>8 DEF Next

-----------------------------------------------------------------------------
(* When the destructors of a library run, and once they have run, the      *)
(* unload that called them is in progress until it frees the library.      *)
StopAt(t, s) == \E k \in 1 .. Len(t) : t[k].fn = "unload" /\ t[k].i > 0 /\ t[k].si = s
Stopping ==
  /\ \A s \in Slots : s \in On(Solist) => info[s].finis = 0 \/ StopAt(stack, s)
  /\ InFn("fini") => info[Top.si].finis = 0

(* The unload that finds a count of one is the only user left.             *)
LEMMA LastUser ==
  ASSUME TypeInv, UseInv, stack # << >>, Top.fn = "unload", info[Top.si].refcount = 1
  PROVE  /\ handles[Top.si] = 0 /\ Top.si \in On(Solist)
         /\ \A s \in Slots : \A i \in 1 .. Len(info[s].deps) : info[s].deps[i] # Top.si
         /\ \A k \in 1 .. Len(stack) - 1 : ~(stack[k].fn = "unload" /\ stack[k].si = Top.si)
<1>1. PICK n \in Nat \ {0} : n = Len(stack)
  BY StackLength
<1>2. Top = stack[n] /\ n \in 1 .. n /\ stack[n] \in Frames
  BY <1>1, StackLength DEF Top
<1>3. PICK a \in Slots : a = Top.si
  <2>1. "unload" \in Holding
    BY DEF Holding
  <2> QED BY <1>2, <2>1, FrameFields, PoolEntries
<1>4. PICK c \in Int, h \in Nat, r \in Nat, d \in Nat :
        /\ c = info[a].refcount /\ h = handles[a] /\ r = Cardinality(Records(info, a))
        /\ d = Cardinality(Drops(stack, a)) /\ c = h + r + d
  BY CountsAre DEF UseInv
<1>5. /\ Drops(stack, a) = { k \in 1 .. n : stack[k].fn = "unload" /\ stack[k].si = a }
      /\ IsFiniteSet(Drops(stack, a))
  <2>1. DOMAIN stack = 1 .. Len(stack)
    BY DEF TypeInv, LinkerTypes
  <2> QED BY <1>1, <2>1, DropsAre
<1>6. n \in Drops(stack, a)
  BY <1>2, <1>3, <1>5
<1>7. d # 0
  BY <1>4, <1>5, <1>6, FS_EmptySet
<1>8. h = 0 /\ r = 0 /\ d = 1
  BY <1>3, <1>4, <1>7
<1>9. \A k \in 1 .. Len(stack) - 1 : ~(stack[k].fn = "unload" /\ stack[k].si = Top.si)
  <2>1. PICK x : Drops(stack, a) = {x}
    BY <1>4, <1>5, <1>8, FS_Singleton
  <2>2. \A k \in 1 .. n - 1 : k \in 1 .. n /\ k # n
    OBVIOUS
  <2> QED BY <1>1, <1>3, <1>5, <1>6, <2>1, <2>2
<1>10. \A s \in Slots : \A i \in 1 .. Len(info[s].deps) : info[s].deps[i] # Top.si
  <2>1. IsFiniteSet(Records(info, a))
    BY RecordsAre DEF TypeInv, LinkerTypes
  <2>2. Records(info, a) = {}
    BY <1>4, <1>8, <2>1, FS_EmptySet
  <2>3. ASSUME NEW s \in Slots, NEW i \in 1 .. Len(info[s].deps) PROVE info[s].deps[i] # a
    BY <2>2, RecordsAre DEF TypeInv, LinkerTypes
  <2> QED BY <1>3, <2>3
<1>11. a \in On(Solist)
  BY <1>3 DEF UseInv, OffList, Nothing
<1> QED BY <1>3, <1>4, <1>8, <1>9, <1>10, <1>11

(* At first no destructor has run.                                         *)
LEMMA StoppingInitially ==
  ASSUME Init
  PROVE  Stopping
<1>1. ASSUME NEW s \in Slots PROVE info[s].finis = 0
  <2>1. PICK m \in Libraries : info[s] = Stub(m) \/ info[s] = Soinfo(m)
    BY InfoInitially
  <2> QED BY <2>1, SoinfoMade
<1>2. stack = << >>
  BY DEF Init
<1> QED BY <1>1, <1>2 DEF Stopping, InFn

(* No unload in progress: no destructors have run for what is on solist.   *)
LEMMA NoneStopping ==
  ASSUME Stopping, NoUnload(stack)
  PROVE  \A s \in Slots : s \in On(Solist) => info[s].finis = 0
BY DEF Stopping, NoUnload, StopAt

(* Without an unload before and after, no destructors have run.            *)
LEMMA StoppingQuiet ==
  ASSUME TypeInv', ShapeInv', Stopping, NoUnload(stack), NoUnload(stack'),
         \A s \in Slots : s \in On(Solist)' =>
           info'[s].finis = 0 \/ (s \in On(Solist) /\ info'[s].finis = info[s].finis)
  PROVE  Stopping'
<1>1. \A s \in Slots : s \in On(Solist)' => info'[s].finis = 0
  BY NoneStopping
<1>2. ~InFn("fini")'
  <2>1. SUFFICES ASSUME stack' # << >>, stack'[Len(stack')].fn = "fini" PROVE FALSE
    BY DEF InFn, Top
  <2>2. Len(stack') \in Nat \ {0} /\ Shape(stack') /\ 1 \in 1 .. Len(stack')
    BY <2>1 DEF TypeInv, LinkerTypes, ShapeInv
  <2>3. Closing(stack')
    BY <2>1, <2>2, ShapeTop
  <2> QED BY <2>2, <2>3 DEF Closing, NoUnload
<1> QED BY <1>1, <1>2 DEF Stopping

(* A return from unload_library or the destructors: the unload beneath the *)
(* destructors is the one that called them.                                *)
LEMMA ClosingTop ==
  ASSUME TypeInv, ShapeInv, stack # << >>, Top.fn \in {"unload", "fini"}, Pops(stack, stack')
  PROVE  /\ ~InFn("fini")'
         /\ Top.fn = "fini" => \E k \in 1 .. Len(stack') :
                                 stack'[k].fn = "unload" /\ stack'[k].i > 0
                                   /\ stack'[k].si = Top.si
<1>1. PICK n \in Nat \ {0} : n = Len(stack)
  BY StackLength
<1>2. Shape(stack) /\ Top = stack[n]
  BY <1>1 DEF ShapeInv, Top
<1>3. Closing(stack) /\ (Top.fn = "fini" => n >= 2)
  BY <1>1, <1>2, ShapeTop
<1>4. Len(stack') = n - 1 /\ \A k \in 1 .. n - 1 : stack'[k] = stack[k]
  BY <1>1 DEF Pops
<1>5. \A k \in 1 .. n - 1 : stack[k].fn = "unload"
  <2>1. \A k \in 1 .. n - 1 : k = 1 \/ k \in 2 .. n - 1
    OBVIOUS
  <2> QED BY <1>1, <1>3, <2>1 DEF Closing
<1>6. ~InFn("fini")'
  <2>1. SUFFICES ASSUME stack' # << >>, stack'[Len(stack')].fn = "fini" PROVE FALSE
    BY DEF InFn, Top
  <2>2. CASE n = 1
    BY <1>4, <2>1, <2>2 DEF Pops
  <2>3. CASE n >= 2
    <3>1. n - 1 \in 1 .. n - 1
      BY <2>3
    <3> QED BY <1>4, <1>5, <2>1, <3>1
  <2> QED BY <2>2, <2>3
<1>7. ASSUME Top.fn = "fini"
      PROVE  n - 1 \in 1 .. n - 1 /\ stack[n - 1].fn = "unload" /\ stack[n - 1].i = 1
             /\ stack[n - 1].si = Top.si
  <2>1. n - 1 \in 1 .. n - 1 /\ n \in 2 .. n
    BY <1>3, <1>7
  <2> QED BY <1>1, <1>2, <1>3, <1>5, <1>7, <2>1 DEF Closing
<1>8. ASSUME Top.fn = "fini"
      PROVE  \E k \in 1 .. Len(stack') :
               stack'[k].fn = "unload" /\ stack'[k].i > 0 /\ stack'[k].si = Top.si
  <2>1. /\ n - 1 \in 1 .. Len(stack') /\ stack'[n - 1].fn = "unload"
        /\ stack'[n - 1].i > 0 /\ stack'[n - 1].si = Top.si
    BY <1>4, <1>7, <1>8
  <2> QED BY <2>1
<1> QED BY <1>6, <1>8

(* The steps of an unload.                                                 *)
LEMMA StoppingUnload ==
  ASSUME TypeInv, TypeInv', ShapeInv, UseInv, Stopping,
         UnloadEnter \/ FiniReturns \/ UnloadNeeded \/ UnloadFree
  PROVE  Stopping'
<1>0. PICK n \in Nat : n = Len(stack)
  BY StackLength
<1>1. Top = stack[n] /\ \A k \in 1 .. n : k = n \/ k \in 1 .. n - 1
  BY <1>0 DEF Top
<1>2. ASSUME Pops(stack, stack')
      PROVE  \A s \in Slots : StopAt(stack, s) /\ ~(Top.fn = "unload" /\ Top.i > 0 /\ Top.si = s)
                                => StopAt(stack', s)
  <2>1. Len(stack') = n - 1 /\ \A k \in 1 .. n - 1 : stack'[k] = stack[k]
    BY <1>0, <1>2 DEF Pops
  <2> QED BY <1>0, <1>1, <2>1 DEF StopAt
<1>3. ASSUME UnloadEnter, info[Top.si].refcount = 1 PROVE Stopping'
  <2>1. /\ stack # << >> /\ Top.fn = "unload" /\ Top.i = 0 /\ info' = info /\ UNCHANGED lists
        /\ Calling(Top.si, 1, "fini", Top.si, Top.name)
    BY <1>3, UnloadEnterStep
  <2>2. PICK f \in Frames, g \in Frames :
          /\ Calls(stack, stack', f, g) /\ Is(f, Top.fn, Top.si, 1, Top.name)
          /\ Is(g, "fini", Top.si, 0, Top.name)
    BY <2>1 DEF Calling
  <2>3. /\ n \in 1 .. n /\ Len(stack') = n + 1 /\ stack'[n] = f /\ stack'[n + 1] = g
        /\ \A k \in 1 .. n - 1 : stack'[k] = stack[k]
    BY <1>0, <2>1, <2>2 DEF Calls
  <2>4. \A s \in Slots : StopAt(stack, s) => StopAt(stack', s)
    <3>1. ASSUME NEW s \in Slots, NEW k \in 1 .. n,
                 stack[k].fn = "unload" /\ stack[k].i > 0 /\ stack[k].si = s
          PROVE  k \in 1 .. n - 1
      BY <1>1, <2>1, <3>1
    <3>2. \A k \in 1 .. n - 1 : k \in 1 .. n + 1
      OBVIOUS
    <3> QED BY <1>0, <2>3, <3>1, <3>2 DEF StopAt
  <2>5. info[Top.si].finis = 0
    <3>1. /\ Top.si \in On(Solist)
          /\ \A k \in 1 .. n - 1 : ~(stack[k].fn = "unload" /\ stack[k].si = Top.si)
      BY <1>0, <1>3, <2>1, LastUser
    <3>2. Top.si \in Slots
      BY <1>3, UnloadEnterStep, PoolEntries
    <3>3. ~StopAt(stack, Top.si)
      BY <1>0, <1>1, <2>1, <3>1 DEF StopAt
    <3> QED BY <3>1, <3>2, <3>3 DEF Stopping
  <2>6. Top' = g
    BY <2>3 DEF Top
  <2>7. On(Solist)' = On(Solist)
    BY <2>1, ListsSame
  <2> QED BY <2>1, <2>2, <2>4, <2>5, <2>6, <2>7 DEF Stopping, Is
<1>4. ASSUME UnloadEnter, info[Top.si].refcount # 1 PROVE Stopping'
  <2>1. /\ stack # << >> /\ Top.fn = "unload" /\ Top.i = 0 /\ UNCHANGED lists
        /\ Pops(stack, stack') /\ SameFinis
    BY <1>4, UnloadEnterStep, UnloadEnterFields
  <2>2. On(Solist)' = On(Solist) /\ ~InFn("fini")'
    BY <2>1, ListsSame, ClosingTop
  <2> QED BY <1>2, <2>1, <2>2 DEF Stopping, SameFinis
<1>5. CASE FiniReturns
  <2>1. /\ stack # << >> /\ Top.fn = "fini" /\ UNCHANGED lists /\ Pops(stack, stack')
        /\ \A s \in Slots : s # Top.si => info'[s].finis = info[s].finis
    BY <1>5, FiniReturnsStep, FiniReturnsFields
  <2>2. On(Solist)' = On(Solist) /\ ~InFn("fini")' /\ StopAt(stack', Top.si)
    BY <2>1, ListsSame, ClosingTop DEF StopAt
  <2>3. ASSUME NEW s \in Slots, s \in On(Solist)'
        PROVE  info'[s].finis = 0 \/ StopAt(stack', s)
    BY <1>2, <2>1, <2>2, <2>3 DEF Stopping
  <2> QED BY <2>2, <2>3 DEF Stopping
<1>6. CASE UnloadNeeded
  <2>1. /\ stack # << >> /\ Top.fn = "unload" /\ UNCHANGED lists /\ Top.i \in Nat /\ SameFinis
        /\ \/ \E s : Calling(Top.si, Top.i + 1, "unload", s, Top.name)
           \/ Moving("unload", Top.si, Top.i + 1, Top.name)
    <3>1. stack # << >> /\ Top.fn = "unload" /\ UNCHANGED lists /\ SameFinis
          /\ Top.si \in Slots /\ Top.i \in 1 .. Len(info[Top.si].deps)
      BY <1>6, UnloadNeededStep, UnloadNeededFields, PoolEntries
    <3>2. Top.i \in Nat
      BY <3>1, DepsFields DEF TypeInv
    <3> QED BY <1>6, <3>1, <3>2, UnloadNeededStep
  <2>2. On(Solist)' = On(Solist)
    BY <2>1, ListsSame
  <2>3. PICK f \in Frames :
          /\ Is(f, "unload", Top.si, Top.i + 1, Top.name)
          /\ \/ Sets(stack, stack', f)
             \/ \E g \in Frames : Calls(stack, stack', f, g) /\ g.fn = "unload"
    BY <2>1 DEF Calling, Moving, Is
  <2>4. /\ n \in 1 .. n /\ stack'[n] = f /\ \A k \in 1 .. n - 1 : stack'[k] = stack[k]
        /\ \/ Len(stack') = n
           \/ Len(stack') = n + 1 /\ stack'[n + 1].fn = "unload"
    BY <1>0, <2>1, <2>3 DEF Sets, Calls
  <2>5. \A k \in 1 .. n : k \in 1 .. Len(stack')
    BY <2>4
  <2>6. \A s \in Slots : StopAt(stack, s) => StopAt(stack', s)
    <3>1. ASSUME NEW k \in 1 .. n, stack[k].fn = "unload", stack[k].i > 0
          PROVE  stack'[k].fn = "unload" /\ stack'[k].i > 0 /\ stack'[k].si = stack[k].si
      <4>1. CASE k = n
        BY <1>1, <2>1, <2>3, <2>4, <4>1 DEF Is
      <4>2. CASE k \in 1 .. n - 1
        BY <2>4, <3>1, <4>2
      <4> QED BY <1>1, <4>1, <4>2
    <3> QED BY <1>0, <2>5, <3>1 DEF StopAt
  <2>7. ~InFn("fini")'
    BY <2>3, <2>4 DEF InFn, Top, Is
  <2> QED BY <2>1, <2>2, <2>6, <2>7 DEF Stopping, SameFinis
<1>7. CASE UnloadFree
  <2>1. /\ stack # << >> /\ Top.fn = "unload" /\ Pops(stack, stack') /\ SameFinis
        /\ On(Solist)' = On(Solist) \ {Top.si}
    BY <1>7, UnloadFreeStep, UnloadFreeFields
  <2>2. ~InFn("fini")'
    BY <2>1, ClosingTop
  <2>3. ASSUME NEW s \in Slots, s \in On(Solist)'
        PROVE  info'[s].finis = 0 \/ StopAt(stack', s)
    BY <1>2, <2>1, <2>3 DEF Stopping, SameFinis
  <2> QED BY <2>2, <2>3 DEF Stopping
<1> QED BY <1>3, <1>4, <1>5, <1>6, <1>7

(* Every step keeps Stopping.                                              *)
LEMMA StoppingStep ==
  ASSUME LibDLUnnamed, CountInv, TypeInv', ShapeInv', Stopping, [Next]_vars
  PROVE  Stopping'
<1> USE DEF CountInv
<1>1. CASE UNCHANGED vars
  <2>1. stack' = stack /\ info' = info /\ UNCHANGED lists
    BY <1>1 DEF vars, pool
  <2>2. On(Solist)' = On(Solist) /\ Top' = Top /\ InFn("fini")' = InFn("fini")
    BY <2>1, ListsSame DEF Top, InFn
  <2> QED BY <2>1, <2>2 DEF Stopping
<1>2. ASSUME NEW t, t = stack', stack = << >>, NoUnload(t),
             \A s \in Slots : s \in On(Solist)' =>
               info'[s].finis = 0 \/ (s \in On(Solist) /\ info'[s].finis = info[s].finis)
      PROVE  Stopping'
  <2>1. NoUnload(stack)
    BY <1>2 DEF NoUnload
  <2> QED BY <1>2, <2>1, StoppingQuiet
<1>3. stack' = << >> => NoUnload(stack')
  BY DEF NoUnload
<1>4. ASSUME NEW n \in Opened, Dlopen(n) PROVE Stopping'
  <2>1. /\ Len(stack') = 2 /\ stack = << >> /\ info' = info /\ UNCHANGED lists
        /\ Is(stack'[1], "dlopen", NULL, 0, n) /\ Is(stack'[2], "find_library", NULL, 0, n)
    BY <1>4, DlopenStep
  <2>2. NoUnload(stack')
    <3>1. \A k \in 1 .. 2 : k = 1 \/ k = 2
      OBVIOUS
    <3> QED BY <2>1, <3>1 DEF NoUnload, Is
  <2>3. On(Solist)' = On(Solist)
    BY <2>1, ListsSame
  <2> QED BY <1>2, <2>1, <2>2, <2>3
<1>5. ASSUME NEW s \in Slots, Dlclose(s) PROVE Stopping'
  <2>1. /\ Len(stack') = 1 /\ stack = << >> /\ info' = info /\ UNCHANGED lists
        /\ Is(stack'[1], "unload", s, 0, info[s].name)
    BY <1>5, DlcloseStep
  <2>3. NoUnload(stack)
    BY <2>1 DEF NoUnload
  <2>4. \A r \in Slots : r \in On(Solist)' => info'[r].finis = 0
    BY <2>1, <2>3, NoneStopping, ListsSame
  <2>5. ~InFn("fini")'
    BY <2>1 DEF InFn, Top, Is
  <2> QED BY <2>4, <2>5 DEF Stopping
<1>6. ASSUME NEW s \in Slots, LibraryDestroy(s) PROVE Stopping'
  BY <1>2, <1>3, <1>6, LibraryDestroyStep
<1>7. ASSUME NEW n \in Stubs, LibraryCreate(n) PROVE Stopping'
  <2>1. stack' = << >> /\ stack = << >> /\ n \in Libraries
    BY <1>7, LibraryCreateStep
  <2>2. PICK a \in PoolEntry :
          On(Solist)' = On(Solist) \cup {a} /\ Only(a) /\ info'[a] = Stub(n)
    BY <1>7, LibraryCreateStep
  <2>3. info'[a].finis = 0
    BY <2>1, <2>2, SoinfoMade
  <2> QED BY <1>2, <1>3, <2>1, <2>2, <2>3 DEF Only
<1>8. ASSUME stack # << >>, Top.fn \notin {"unload", "fini"},
             UNCHANGED lists \/ \E a : On(Solist)' = On(Solist) \ {a}, SameFinis
      PROVE  /\ Pops(stack, stack') => Stopping'
             /\ \A fn, si, i, m : Moving(fn, si, i, m) /\ fn # "unload" => Stopping'
             /\ \A si, i, fn, s, m : Calling(si, i, fn, s, m) /\ fn # "unload" => Stopping'
  <2>1. \A s \in Slots : s \in On(Solist)' => s \in On(Solist) /\ info'[s].finis = info[s].finis
    BY <1>8, ListsSame DEF SameFinis
  <2>2. NoUnload(stack) /\ (NoUnload(stack') => Stopping')
    BY <1>8, <2>1, OpeningQuiet, StoppingQuiet
  <2> QED BY <1>8, <2>2, OpeningQuiet
<1>9. info' = info => SameFinis
  BY DEF SameFinis
<1>10. CASE FindLibrary
  BY <1>8, <1>9, <1>10, FindLibraryStep
<1>11. CASE LoadRefused
  BY <1>8, <1>9, <1>11, LoadRefusedStep
<1>12. CASE LoadAlloc
  <2>1. stack # << >> /\ Top.fn = "load_library"
    BY <1>12, LoadAllocStep
  <2>2. CASE Pops(stack, stack') /\ UNCHANGED << lists, info >>
    BY <1>8, <1>9, <2>1, <2>2
  <2>3. CASE ~(Pops(stack, stack') /\ UNCHANGED << lists, info >>)
    <3>1. PICK a \in PoolEntry :
            /\ On(Solist)' = On(Solist) \cup {a} /\ Only(a) /\ info'[a] = Soinfo(Top.name)
            /\ Top.name \in Libraries /\ Moving("load_library", a, Top.i, Top.name)
      BY <1>12, <2>3, LoadAllocStep
    <3>2. NoUnload(stack) /\ NoUnload(stack')
      BY <2>1, <3>1, OpeningQuiet
    <3>3. info'[a].finis = 0
      BY <3>1, SoinfoMade
    <3> QED BY <3>1, <3>2, <3>3, StoppingQuiet DEF Only
  <2> QED BY <2>2, <2>3
<1>13. CASE LoadSegments
  BY <1>8, <1>13, LoadSegmentsStep, LoadSegmentsFields
<1>14. CASE LoadFails
  BY <1>8, <1>9, <1>14, LoadFailsStep
<1>15. CASE LinkFails
  BY <1>8, <1>15, LinkFailStep, LinkFailFields
<1>16. CASE LinkFind
  BY <1>8, <1>9, <1>16, LinkFindStep
<1>17. CASE LinkNeeded /\ ret # NULL
  BY <1>8, <1>17, LinkNeededStep, LinkNeededFields
<1>18. CASE LinkFinish /\ ~LinkFail(TRUE)
  BY <1>8, <1>18, LinkedStep, LinkedFields
<1>19. CASE DlopenFound
  BY <1>8, <1>9, <1>19, DlopenFoundStep
<1>20. CASE DlopenReturn
  BY <1>8, <1>20, DlopenReturnStep, DlopenReturnFields
<1>21. CASE CtorEnter
  BY <1>8, <1>21, CtorEnterStep, CtorEnterFields
<1>22. CASE CtorNeeded
  BY <1>8, <1>9, <1>22, CtorNeededStep
<1>23. CASE CtorInit
  BY <1>8, <1>9, <1>23, CtorInitStep
<1>24. CASE InitReturns
  BY <1>8, <1>24, InitReturnsStep, InitReturnsFields
<1>25. CASE UnloadEnter \/ FiniReturns \/ UnloadNeeded \/ UnloadFree
  BY <1>25, StoppingUnload
<1>26. CASE Inside
  BY <1>10, <1>11, <1>12, <1>13, <1>14, <1>15, <1>16, <1>17, <1>18, <1>19, <1>20, <1>21,
     <1>22, <1>23, <1>24, <1>25, <1>26, InsideCases
<1> QED BY <1>1, <1>4, <1>5, <1>6, <1>7, <1>26 DEF Next

-----------------------------------------------------------------------------
(* A step that neither gives out a handle nor touches what has one.        *)
LEMMA HandlesKept ==
  ASSUME TypeInv', HandlesUsable,
         \A s \in Slots : handles'[s] > 0 => handles[s] > 0,
         \A s \in Slots : handles[s] > 0 /\ s \in On(Solist) =>
           /\ s \in On(Solist)' /\ info'[s].linked = info[s].linked
           /\ info'[s].error = info[s].error
           /\ info'[s].image = "unmapped" => info[s].image = "unmapped"
           /\ info'[s].inits = info[s].inits /\ info'[s].finis = info[s].finis
  PROVE  HandlesUsable'
BY DEF HandlesUsable, Usable

(* Nobody holds a handle of a library whose last user is an unload.        *)
LEMMA Unheld ==
  ASSUME TypeInv, UseInv, NEW k \in 1 .. Len(stack), stack[k].fn = "unload", stack[k].i > 0
  PROVE  handles[stack[k].si] = 0
<1>1. stack[k] \in Frames /\ DOMAIN stack = 1 .. Len(stack) /\ Len(stack) \in Nat
  BY DEF TypeInv, LinkerTypes
<1>2. PICK a \in Slots : a = stack[k].si
  <2>1. "unload" \in Holding
    BY DEF Holding
  <2> QED BY <1>1, <2>1, FrameFields, PoolEntries
<1>3. PICK c \in Int, h \in Nat, r \in Nat, d \in Nat :
        /\ c = info[a].refcount /\ h = handles[a] /\ r = Cardinality(Records(info, a))
        /\ d = Cardinality(Drops(stack, a)) /\ c = h + r + d
  BY CountsAre DEF UseInv
<1>4. c = 1
  BY <1>2, <1>3 DEF UseInv, UnloadsAlone, Alone
<1>5. k \in Drops(stack, a) /\ IsFiniteSet(Drops(stack, a))
  BY <1>1, <1>2, DropsAre
<1>6. d # 0
  BY <1>3, <1>5, FS_EmptySet
<1>7. h = 0
  BY SMTT(20), <1>3, <1>4, <1>6
<1> QED BY <1>2, <1>3, <1>7

(* What a dlopen is about to hand out has been initialised and is not      *)
(* being unloaded.                                                         *)
LEMMA HandedOut ==
  ASSUME TypeInv, ShapeInv, Started, Opening, Stopping, DlopenReturn
  PROVE  /\ UsableIn(info[Top.si], Top.si, On(Solist))
         /\ info[Top.si].inits = 1 /\ info[Top.si].finis = 0
<1>1. stack # << >> /\ Top.fn = "dlopen" /\ Top.si \in PoolEntry
  BY DlopenReturnStep
<1>2. Len(stack) \in Nat \ {0} /\ Shape(stack) /\ Top = stack[Len(stack)]
  BY <1>1, StackLength DEF ShapeInv, Top
<1>3. Len(stack) = 1 /\ Top = stack[1] /\ 1 \in 1 .. Len(stack)
  BY <1>1, <1>2, ShapeTop
<1>4. Top.si \in Slots /\ Top.si # NULL
  BY <1>1, PoolEntries
<1>5. UsableIn(info[Top.si], Top.si, On(Solist))
  BY <1>1, <1>3, <1>4 DEF Opening, OpenFrames, OpenAt
<1>6. info[Top.si].constructors_called
  BY <1>1, <1>3, <1>4 DEF Opening, Reached
<1>7. ~InCtor(stack, Top.si)
  BY <1>1, <1>3, NoCtorStarts
<1>8. info[Top.si].inits = 1
  BY <1>4, <1>6, <1>7 DEF Started, StartedAt
<1>9. info[Top.si].finis = 0
  BY <1>1, <1>4, <1>5, OpeningQuiet, NoneStopping DEF UsableIn
<1> QED BY <1>5, <1>8, <1>9

(* Every step of a call keeps what is handed out usable.                   *)
LEMMA HandlesInside ==
  ASSUME LibDLUnnamed, CountInv, TypeInv', Started, Opening, Stopping, HandlesUsable, Inside
  PROVE  HandlesUsable'
<1> USE DEF CountInv
<1>1. \A s \in Slots : handles[s] > 0 => s \in On(Solist) /\ info[s].linked
  BY DEF HandlesUsable, Usable
<1>2. ASSUME UNCHANGED lists, handles' = handles, SameLinked, SameError, SameImage,
             SameInits, SameFinis
      PROVE  HandlesUsable'
  BY <1>2, HandlesKept, ListsSame DEF SameLinked, SameError, SameImage, SameInits, SameFinis
<1>3. info' = info => SameLinked /\ SameError /\ SameImage /\ SameInits /\ SameFinis
  BY DEF SameLinked, SameError, SameImage, SameInits, SameFinis
<1>4. CASE FindLibrary
  BY <1>2, <1>3, <1>4, FindLibraryStep
<1>5. CASE LoadRefused
  BY <1>2, <1>3, <1>5, LoadRefusedStep
<1>6. CASE LoadAlloc
  <2>1. handles' = handles
    BY <1>6, LoadAllocStep
  <2>2. CASE Pops(stack, stack') /\ UNCHANGED << lists, info >>
    BY <1>2, <1>3, <2>1, <2>2
  <2>3. CASE ~(Pops(stack, stack') /\ UNCHANGED << lists, info >>)
    <3>1. PICK a \in PoolEntry :
            a \notin On(Solist) /\ On(Solist)' = On(Solist) \cup {a} /\ Only(a)
      BY <1>6, <2>3, LoadAllocStep
    <3> QED BY <2>1, <3>1, HandlesKept DEF Only
  <2> QED BY <2>2, <2>3
<1>7. CASE LoadSegments
  <2>1. /\ UNCHANGED lists /\ handles' = handles
        /\ SameLinked /\ SameError /\ SameInits /\ SameFinis
        /\ info'[Top.si].image = "mapped"
        /\ \A s \in Slots : s # Top.si => info'[s].image = info[s].image
    BY <1>7, LoadSegmentsStep, LoadSegmentsFields
  <2>2. \A s \in Slots : info'[s].image = "unmapped" => info[s].image = "unmapped"
    BY <2>1
  <2> QED BY <2>1, <2>2, HandlesKept, ListsSame
          DEF SameLinked, SameError, SameInits, SameFinis
<1>8. CASE LoadFails
  <2>1. /\ stack # << >> /\ Top.fn = "load_library" /\ Top.si \in PoolEntry
        /\ info' = info /\ handles' = handles /\ On(Solist)' = On(Solist) \ {Top.si}
    BY <1>8, LoadFailsStep
  <2>2. ~info[Top.si].linked
    <3>1. info[Top.si] = Soinfo(Top.name) /\ Top.name \in Libraries
      <4>1. Top \in Frames
        BY <2>1, StackLength DEF Top
      <4> QED BY <2>1, <4>1, FrameFields, PoolEntries DEF WorkInv, Loading, InFn
    <3> QED BY <3>1, SoinfoMade
  <2>3. Top.si \in Slots
    BY <2>1, PoolEntries
  <2> QED BY <1>1, <2>1, <2>2, <2>3, HandlesKept
<1>9. ASSUME stack # << >>, Top.fn = "link_image" PROVE Top.si \in Slots /\ ~info[Top.si].linked
  <2>1. Top \in Frames /\ Top = stack[Len(stack)] /\ Len(stack) \in 1 .. Len(stack)
    BY <1>9, StackLength DEF Top
  <2>2. "link_image" \in Holding
    BY DEF Holding
  <2> QED BY <1>9, <2>1, <2>2, FrameFields, PoolEntries DEF WorkInv, Linking, LinkingOf
<1>10. CASE LinkFails
  <2>1. /\ stack # << >> /\ Top.fn = "link_image" /\ UNCHANGED lists /\ handles' = handles
        /\ SameInits /\ SameFinis
        /\ \A s \in Slots : s # Top.si => /\ info'[s].image = info[s].image
                                          /\ info'[s].linked = info[s].linked
                                          /\ info'[s].error = info[s].error
    BY <1>10, LinkFailStep, LinkFailFields
  <2>2. \A s \in Slots : handles[s] > 0 => s # Top.si
    BY <1>1, <1>9, <2>1
  <2> QED BY <2>1, <2>2, HandlesKept, ListsSame DEF SameInits, SameFinis
<1>11. CASE LinkFind
  BY <1>2, <1>3, <1>11, LinkFindStep
<1>12. CASE LinkNeeded /\ ret # NULL
  BY <1>2, <1>12, LinkNeededStep, LinkNeededFields
<1>13. CASE LinkFinish /\ ~LinkFail(TRUE)
  <2>1. /\ stack # << >> /\ Top.fn = "link_image" /\ UNCHANGED lists /\ handles' = handles
        /\ SameInits /\ SameFinis /\ SameError /\ SameImage
        /\ \A s \in Slots : s # Top.si => info'[s].linked = info[s].linked
    BY <1>13, LinkedStep, LinkedFields
  <2>2. \A s \in Slots : handles[s] > 0 => s # Top.si
    BY <1>1, <1>9, <2>1
  <2> QED BY <2>1, <2>2, HandlesKept, ListsSame DEF SameInits, SameFinis, SameError, SameImage
<1>14. CASE DlopenFound
  BY <1>2, <1>3, <1>14, DlopenFoundStep
<1>15. CASE DlopenReturn
  <2>1. /\ UNCHANGED lists /\ Top.si \in PoolEntry
        /\ handles' = [handles EXCEPT ![Top.si] = @ + 1]
        /\ SameLinked /\ SameError /\ SameImage /\ SameInits /\ SameFinis
    BY <1>15, DlopenReturnStep, DlopenReturnFields
  <2>2. On(Solist)' = On(Solist) /\ handles \in [Slots -> Nat]
    BY <2>1, ListsSame DEF TypeInv, LinkerTypes
  <2>3. \A s \in Slots : s # Top.si => handles'[s] = handles[s]
    BY <2>1, <2>2
  <2>4. \A s \in Slots : handles'[s] > 0 =>
          Usable(s) /\ info[s].inits = 1 /\ info[s].finis = 0
    BY <1>15, <2>3, HandedOut DEF HandlesUsable, Usable, UsableIn
  <2> QED BY <2>1, <2>2, <2>4
          DEF HandlesUsable, Usable, SameLinked, SameError, SameImage, SameInits, SameFinis
<1>16. CASE CtorEnter
  BY <1>2, <1>16, CtorEnterStep, CtorEnterFields
<1>17. CASE CtorNeeded
  BY <1>2, <1>3, <1>17, CtorNeededStep
<1>18. CASE CtorInit
  BY <1>2, <1>3, <1>18, CtorInitStep
<1>19. CASE InitReturns
  <2>1. /\ stack # << >> /\ Top.fn = "init" /\ UNCHANGED lists /\ handles' = handles
        /\ SameLinked /\ SameError /\ SameImage /\ SameFinis /\ Top.si \in Slots
        /\ \A s \in Slots : s # Top.si => info'[s].inits = info[s].inits
    BY <1>19, InitReturnsStep, InitReturnsFields, PoolEntries
  <2>2. InCtor(stack, Top.si)
    <3>1. Top = stack[Len(stack)] /\ Len(stack) \in 1 .. Len(stack)
      BY <2>1, StackLength DEF Top
    <3> QED BY <2>1, <3>1 DEF InCtor, Starts
  <2>3. info[Top.si].inits = 0
    BY <2>1, <2>2 DEF Started, StartedAt
  <2>4. \A s \in Slots : handles[s] > 0 => s # Top.si
    BY <2>3 DEF HandlesUsable
  <2> QED BY <2>1, <2>4, HandlesKept, ListsSame DEF SameLinked, SameError, SameImage, SameFinis
<1>20. CASE UnloadEnter
  BY <1>2, <1>3, <1>20, UnloadEnterStep, UnloadEnterFields
<1>21. CASE FiniReturns
  <2>1. /\ stack # << >> /\ Top.fn = "fini" /\ UNCHANGED lists /\ handles' = handles
        /\ SameLinked /\ SameError /\ SameImage /\ SameInits /\ Top.si \in Slots
        /\ \A s \in Slots : s # Top.si => info'[s].finis = info[s].finis
        /\ Pops(stack, stack')
    BY <1>21, FiniReturnsStep, FiniReturnsFields, PoolEntries
  <2>2. PICK k \in 1 .. Len(stack') :
          stack'[k].fn = "unload" /\ stack'[k].i > 0 /\ stack'[k].si = Top.si
    BY <2>1, ClosingTop
  <2>3. k \in 1 .. Len(stack) /\ stack'[k] = stack[k]
    <3>1. PICK n \in Nat : n = Len(stack)
      BY StackLength
    <3> QED BY <2>1, <3>1 DEF Pops
  <2>4. handles[Top.si] = 0
    BY <2>2, <2>3, Unheld
  <2> QED BY <2>1, <2>4, HandlesKept, ListsSame DEF SameLinked, SameError, SameImage, SameInits
<1>22. CASE UnloadNeeded
  BY <1>2, <1>22, UnloadNeededStep, UnloadNeededFields
<1>23. CASE UnloadFree
  <2>1. /\ stack # << >> /\ Top.fn = "unload" /\ Top.i > 0 /\ Top.si \in Slots
        /\ On(Solist)' = On(Solist) \ {Top.si} /\ handles' = handles
        /\ SameLinked /\ SameError /\ SameInits /\ SameFinis
        /\ \A s \in Slots : s # Top.si => info'[s].image = info[s].image
    BY <1>23, UnloadFreeStep, UnloadFreeFields, PoolEntries
  <2>2. Top = stack[Len(stack)] /\ Len(stack) \in 1 .. Len(stack)
    BY <2>1, StackLength DEF Top
  <2>3. handles[Top.si] = 0
    BY <2>1, <2>2, Unheld
  <2> QED BY <2>1, <2>3, HandlesKept DEF SameLinked, SameError, SameInits, SameFinis
<1> QED BY <1>4, <1>5, <1>6, <1>7, <1>8, <1>10, <1>11, <1>12, <1>13, <1>14, <1>15, <1>16,
           <1>17, <1>18, <1>19, <1>20, <1>21, <1>22, <1>23, InsideCases

(* So does every step.                                                     *)
LEMMA HandlesStep ==
  ASSUME LibDLUnnamed, CountInv, TypeInv', Started, Opening, Stopping, HandlesUsable, [Next]_vars
  PROVE  HandlesUsable'
<1> USE DEF CountInv
<1>1. ASSUME info' = info, UNCHANGED lists, \A s \in Slots : handles'[s] > 0 => handles[s] > 0
      PROVE  HandlesUsable'
  BY <1>1, HandlesKept, ListsSame
<1>2. CASE UNCHANGED vars
  BY <1>1, <1>2 DEF vars, pool
<1>3. ASSUME NEW n \in Opened, Dlopen(n) PROVE HandlesUsable'
  BY <1>1, <1>3, DlopenStep
<1>4. ASSUME NEW s \in Slots, Dlclose(s) PROVE HandlesUsable'
  <2>1. /\ info' = info /\ UNCHANGED lists /\ handles' = [handles EXCEPT ![s] = @ - 1]
        /\ handles[s] > 0 /\ handles \in [Slots -> Nat]
    BY <1>4, DlcloseStep DEF TypeInv, LinkerTypes
  <2>2. \A r \in Slots : handles'[r] > 0 => handles[r] > 0
    BY <2>1
  <2> QED BY <1>1, <2>1, <2>2
<1>5. ASSUME NEW s \in Slots, LibraryDestroy(s) PROVE HandlesUsable'
  <2>1. /\ info' = info /\ handles' = handles /\ info[s].refcount = 0
        /\ On(Solist)' = On(Solist) \ {s}
    BY <1>5, LibraryDestroyStep
  <2>2. handles[s] = 0
    <3>1. PICK c \in Int, h \in Nat, r \in Nat, d \in Nat :
            /\ c = info[s].refcount /\ h = handles[s] /\ r = Cardinality(Records(info, s))
            /\ d = Cardinality(Drops(stack, s)) /\ c = h + r + d
      BY CountsAre DEF UseInv
    <3> QED BY <2>1, <3>1
  <2> QED BY <2>1, <2>2, HandlesKept
<1>6. ASSUME NEW n \in Stubs, LibraryCreate(n) PROVE HandlesUsable'
  <2>1. handles' = handles
    BY <1>6, LibraryCreateStep
  <2>2. PICK a \in PoolEntry :
          a \notin On(Solist) /\ On(Solist)' = On(Solist) \cup {a} /\ Only(a)
    BY <1>6, LibraryCreateStep
  <2> QED BY <2>1, <2>2, HandlesKept DEF Only
<1>7. CASE Inside
  BY <1>7, HandlesInside
<1> QED BY <1>2, <1>3, <1>4, <1>5, <1>6, <1>7 DEF Next

(* A handle the program holds names a library that is on solist, linked,   *)
(* initialised once and not finalised, whatever other dlopens and dlcloses *)
(* do meanwhile and although pool entries are reused.                      *)
HandleInv == CountInv /\ PresentInv /\ Started /\ Opening /\ Stopping /\ HandlesUsable

(* The inductive invariant holds at first.                                 *)
LEMMA HandleInvInitially ==
  ASSUME Init
  PROVE  HandleInv
<1>1. HandlesUsable
  <2>1. \A s \in Slots : handles[s] = 0
    BY DEF Init
  <2> QED BY <2>1 DEF HandlesUsable
<1> QED BY <1>1, CountsInitially, PresentInitially, StartedInitially, OpeningInitially,
           StoppingInitially DEF HandleInv

(* Every step keeps it.                                                    *)
LEMMA HandleInvStep ==
  ASSUME LibDLUnnamed, HandleInv, [Next]_vars
  PROVE  HandleInv'
<1>1. CountInv /\ PresentInv /\ Started /\ Opening /\ Stopping /\ HandlesUsable
  BY DEF HandleInv
<1>2. TypeInv /\ ShapeInv
  BY <1>1 DEF CountInv
<1>3. CountInv' /\ TypeInv' /\ ShapeInv'
  BY <1>1, CountsStep DEF CountInv
<1>4. PresentInv'
  BY <1>1, <1>3, PresentStep
<1>5. Started'
  BY <1>1, <1>2, StartedStep
<1>6. Opening'
  BY <1>1, <1>2, <1>3, OpeningStep
<1>7. Stopping'
  BY <1>1, <1>3, StoppingStep
<1>8. HandlesUsable'
  BY <1>1, <1>3, HandlesStep
<1> QED BY <1>3, <1>4, <1>5, <1>6, <1>7, <1>8 DEF HandleInv

(* HandlesUsable: what a handle stands for is on solist, linked and        *)
(* mapped, its constructors have run and its destructors have not, in      *)
(* every state of the linker.                                              *)
THEOREM HandlesAlwaysUsable ==
  ASSUME LibDLUnnamed
  PROVE  Spec => []HandlesUsable
<1>1. HandleInv => HandlesUsable
  BY DEF HandleInv
<1> QED BY <1>1, HandleInvInitially, HandleInvStep, PTL DEF Spec

-----------------------------------------------------------------------------
(* The threads.  What each is doing in android_dlfcn.c.                    *)
DlFns == {"none", "dlopen", "dlsym", "dlclose", "dladdr", "dlerror"}
Places == {"out", "lock", "body", "running", "unlock", "clear"}
DlTypes ==
  /\ call \in [Threads -> [fn : DlFns, arg : Libraries \cup Slots \cup {NULL}, at : Places]]
  /\ \A t \in Threads : /\ call[t].fn = "dlopen" => call[t].arg \in Opened
                        /\ call[t].fn \in {"dlsym", "dlclose"} => call[t].arg \in Slots

(* A thread that has entered or is about to leave finds no call of the     *)
(* linker in progress.                                                     *)
Quiet == \A t \in Threads : call[t].at \in {"body", "unlock"} => Idle
OwnedInv == DlTypes /\ LinkerOwned /\ Quiet

(* What a thread may ask of the dl functions.                              *)
LEMMA Requested ==
  ASSUME NEW r \in Requests
  PROVE  /\ r \in [fn : DlFns, arg : Libraries \cup Slots \cup {NULL}, at : Places]
         /\ r.at = "lock"
         /\ r.fn = "dlopen" => r.arg \in Opened
         /\ r.fn \in {"dlsym", "dlclose"} => r.arg \in Slots /\ MayUse(r.arg)
<1>1. CASE r \in [fn : {"dlopen"}, arg : Opened, at : {"lock"}]
  BY <1>1, LinkerAssumption DEF DlFns, Places
<1>2. CASE r \in [fn : {"dlsym", "dlclose"}, arg : { s \in Slots : MayUse(s) }, at : {"lock"}]
  BY <1>2 DEF DlFns, Places
<1>3. CASE r = [fn |-> "dladdr", arg |-> NULL, at |-> "lock"]
  BY <1>3 DEF DlFns, Places
<1> QED BY <1>1, <1>2, <1>3 DEF Requests

(* Only one thread moves, from where to where.                             *)
MovesTo(t, l) ==
  /\ call' = [call EXCEPT ![t].at = l] /\ l \in Places

(* One thread moves on in its call, and no other.                          *)
LEMMA Moved ==
  ASSUME DlTypes, NEW t \in Threads, NEW l, MovesTo(t, l)
  PROVE  /\ DlTypes' /\ call'[t].at = l /\ call'[t].fn = call[t].fn /\ call'[t].arg = call[t].arg
         /\ \A u \in Threads : u # t => call'[u] = call[u]
<1>1. call'[t].at = l /\ call'[t].fn = call[t].fn /\ call'[t].arg = call[t].arg
  BY DEF DlTypes, MovesTo
<1>2. \A u \in Threads : u # t => call'[u] = call[u]
  BY DEF DlTypes, MovesTo
<1>3. call' \in [Threads -> [fn : DlFns, arg : Libraries \cup Slots \cup {NULL}, at : Places]]
  BY DEF DlTypes, MovesTo
<1> QED BY <1>1, <1>2, <1>3 DEF DlTypes

(* One entry of a function changed, and no other.                          *)
LEMMA Changed ==
  ASSUME DlTypes, NEW t \in Threads,
         NEW r \in [fn : DlFns, arg : Libraries \cup Slots \cup {NULL}, at : Places],
         r.fn = "dlopen" => r.arg \in Opened,
         r.fn \in {"dlsym", "dlclose"} => r.arg \in Slots,
         call' = [call EXCEPT ![t] = r]
  PROVE  DlTypes' /\ call'[t] = r /\ \A u \in Threads : u # t => call'[u] = call[u]
<1>1. call'[t] = r /\ \A u \in Threads : u # t => call'[u] = call[u]
  BY DEF DlTypes
<1>2. call' \in [Threads -> [fn : DlFns, arg : Libraries \cup Slots \cup {NULL}, at : Places]]
  BY DEF DlTypes
<1> QED BY <1>1, <1>2 DEF DlTypes

(* A thread outside the dl functions has no call.                          *)
LEMMA OutTyped ==
  Out \in [fn : DlFns, arg : Libraries \cup Slots \cup {NULL}, at : Places]
    /\ Out.fn = "none" /\ Out.at = "out"
BY DEF Out, DlFns, Places

(* At first nobody owns the linker, and it is idle.                        *)
LEMMA OwnedInitially ==
  ASSUME DlInit
  PROVE  OwnedInv
<1>1. DlTypes
  BY OutTyped DEF DlInit, DlTypes
<1>2. LinkerOwned /\ Quiet
  BY OutTyped DEF DlInit, Init, LinkerOwned, Quiet, Idle
<1> QED BY <1>1, <1>2 DEF OwnedInv

(* What a step of the threads does to the linker, to dl_lock and to `call`. *)
LEMMA OwnedStep ==
  ASSUME OwnedInv, [DlNext]_dlVars
  PROVE  OwnedInv'
<1> USE DEF OwnedInv
<1>1. CASE UNCHANGED dlVars
  BY <1>1 DEF dlVars, vars, DlTypes, LinkerOwned, Quiet, Idle
<1>2. SUFFICES ASSUME NEW t \in Threads, Request(t) \/ Proceed(t) \/ Reenter(t) \/ DlerrorRead(t)
               PROVE  OwnedInv'
  BY <1>1 DEF DlNext
<1>3. NoThread \notin Threads
  BY DlfcnAssumption
<1>4. \A u \in Threads : /\ call[u].at \in {"body", "running", "unlock"} => dl_lock = u
                         /\ call[u].at \in {"body", "unlock"} => stack = << >>
  BY DEF LinkerOwned, Quiet, Idle
<1>5. ASSUME DlTypes', \A u \in Threads : u # t => call'[u] = call[u],
             call'[t].at \in {"body", "running", "unlock"} => dl_lock' = t,
             call'[t].at \in {"body", "unlock"} => stack' = << >>,
             \/ stack' = stack /\ dl_lock' = dl_lock
             \/ dl_lock \in {t, NoThread} /\ (stack' # << >> => dl_lock' # NoThread)
      PROVE  OwnedInv'
  <2>1. \A u \in Threads : call'[u].at \in {"body", "running", "unlock"} => dl_lock' = u
    BY <1>3, <1>4, <1>5
  <2>2. stack' # << >> => dl_lock' # NoThread
    BY <1>5 DEF LinkerOwned, Idle
  <2>3. \A u \in Threads : call'[u].at \in {"body", "unlock"} => stack' = << >>
    BY <1>3, <1>4, <1>5
  <2> QED BY <1>5, <2>1, <2>2, <2>3 DEF LinkerOwned, Quiet, Idle
<1>6. CASE Request(t)
  <2>1. PICK r \in Requests : call' = [call EXCEPT ![t] = r]
    BY <1>6 DEF Request
  <2>2. stack' = stack /\ dl_lock' = dl_lock
    BY <1>6 DEF Request, vars
  <2>3. DlTypes' /\ call'[t] = r /\ r.at = "lock" /\ \A u \in Threads : u # t => call'[u] = call[u]
    BY <2>1, Requested, Changed
  <2> QED BY <1>5, <2>2, <2>3
<1>7. CASE LockDl(t)
  <2>1. /\ stack' = stack /\ dl_lock = NoThread /\ dl_lock' = t /\ MovesTo(t, "body")
    BY <1>7 DEF LockDl, vars, Goto, MovesTo, Places
  <2>2. stack = << >> /\ dl_lock' # NoThread
    BY <1>3, <2>1 DEF LinkerOwned, Idle
  <2>3. DlTypes' /\ call'[t].at = "body" /\ \A u \in Threads : u # t => call'[u] = call[u]
    BY <2>1, Moved
  <2> QED BY <1>5, <2>1, <2>2, <2>3
<1>8. CASE Start(t)
  <2>1. dl_lock = t /\ dl_lock' = dl_lock /\ MovesTo(t, "running")
    BY <1>4, <1>8 DEF Start, At, Goto, MovesTo, Places
  <2>2. DlTypes' /\ call'[t].at = "running" /\ \A u \in Threads : u # t => call'[u] = call[u]
    BY <2>1, Moved
  <2> QED BY <1>3, <1>5, <2>1, <2>2
<1>9. CASE Refuse(t)
  <2>1. stack' = stack /\ stack = << >> /\ dl_lock = t /\ dl_lock' = dl_lock /\ MovesTo(t, "unlock")
    BY <1>4, <1>9 DEF Refuse, At, Goto, MovesTo, Places, vars
  <2>2. DlTypes' /\ call'[t].at = "unlock" /\ \A u \in Threads : u # t => call'[u] = call[u]
    BY <2>1, Moved
  <2> QED BY <1>5, <2>1, <2>2
<1>10. CASE Run(t)
  <2>1. dl_lock = t /\ dl_lock' = dl_lock /\ call[t].at = "running"
    BY <1>4, <1>10 DEF Run, At
  <2>2. CASE stack' = << >>
    <3>1. MovesTo(t, "unlock")
      BY <1>10, <2>2 DEF Run, Goto, MovesTo, Places
    <3>2. DlTypes' /\ call'[t].at = "unlock" /\ \A u \in Threads : u # t => call'[u] = call[u]
      BY <3>1, Moved
    <3> QED BY <1>5, <2>1, <2>2, <3>2
  <2>3. CASE stack' # << >>
    <3>1. call' = call
      BY <1>10, <2>3 DEF Run
    <3>2. DlTypes'
      BY <3>1 DEF DlTypes
    <3> QED BY <1>3, <1>5, <2>1, <3>1, <3>2
  <2> QED BY <2>2, <2>3
<1>11. CASE Look(t)
  <2>1. stack' = stack /\ stack = << >> /\ dl_lock = t /\ dl_lock' = dl_lock /\ MovesTo(t, "unlock")
    BY <1>4, <1>11 DEF Look, At, Goto, MovesTo, Places, vars
  <2>2. DlTypes' /\ call'[t].at = "unlock" /\ \A u \in Threads : u # t => call'[u] = call[u]
    BY <2>1, Moved
  <2> QED BY <1>5, <2>1, <2>2
<1>12. CASE UnlockDl(t)
  <2>1. /\ stack' = stack /\ stack = << >> /\ dl_lock = t
        /\ call' = [call EXCEPT ![t] = Out]
    BY <1>4, <1>12 DEF UnlockDl, At, vars
  <2>2. DlTypes' /\ call'[t] = Out /\ \A u \in Threads : u # t => call'[u] = call[u]
    BY <2>1, OutTyped, Changed
  <2> QED BY <1>5, <2>1, <2>2, OutTyped
<1>13. CASE DlerrorClear(t)
  <2>1. stack' = stack /\ dl_lock' = dl_lock /\ call' = [call EXCEPT ![t] = Out]
    BY <1>13 DEF DlerrorClear, vars
  <2>2. DlTypes' /\ call'[t] = Out /\ \A u \in Threads : u # t => call'[u] = call[u]
    BY <2>1, OutTyped, Changed
  <2> QED BY <1>5, <2>1, <2>2, OutTyped
<1>14. CASE Reenter(t)
  <2>1. stack' = stack /\ dl_lock' = dl_lock
    BY <1>14 DEF Reenter, vars
  <2>2. PICK n \in Opened : call' = [call EXCEPT ![t] = [fn |-> "dlopen", arg |-> n, at |-> "lock"]]
    BY <1>14 DEF Reenter
  <2>3. PICK r : r = [fn |-> "dlopen", arg |-> n, at |-> "lock"]
    OBVIOUS
  <2>4. /\ r \in [fn : DlFns, arg : Libraries \cup Slots \cup {NULL}, at : Places]
        /\ r.fn = "dlopen" /\ r.arg \in Opened /\ r.at = "lock"
    BY <2>3, LinkerAssumption DEF DlFns, Places
  <2>5. DlTypes' /\ call'[t] = r /\ \A u \in Threads : u # t => call'[u] = call[u]
    BY <2>2, <2>3, <2>4, Changed
  <2> QED BY <1>5, <2>1, <2>4, <2>5
<1>15. CASE DlerrorRead(t)
  <2>1. /\ stack' = stack /\ dl_lock' = dl_lock
        /\ call' = [call EXCEPT ![t] = [fn |-> "dlerror", arg |-> NULL, at |-> "clear"]]
    BY <1>15 DEF DlerrorRead, vars
  <2>2. PICK r : r = [fn |-> "dlerror", arg |-> NULL, at |-> "clear"]
    OBVIOUS
  <2>3. /\ r \in [fn : DlFns, arg : Libraries \cup Slots \cup {NULL}, at : Places]
        /\ r.fn = "dlerror" /\ r.at = "clear"
    BY <2>2 DEF DlFns, Places
  <2>4. DlTypes' /\ call'[t] = r /\ \A u \in Threads : u # t => call'[u] = call[u]
    BY <2>1, <2>2, <2>3, Changed
  <2> QED BY <1>5, <2>1, <2>3, <2>4
<1> QED BY <1>2, <1>6, <1>7, <1>8, <1>9, <1>10, <1>11, <1>12, <1>13, <1>14, <1>15 DEF Proceed

(* Only the thread that holds dl_lock has a call of the linker in          *)
(* progress, from its first step to its last.                              *)
THEOREM LinkerAlwaysOwned == DlSpec => []LinkerOwned
<1>1. OwnedInv => LinkerOwned
  BY DEF OwnedInv
<1> QED BY <1>1, OwnedInitially, OwnedStep, PTL DEF DlSpec

-----------------------------------------------------------------------------
(* A thread in dlsym, or in a dlclose that has not started yet, keeps the  *)
(* handle it works on open.                                                *)
Owes(c, s) ==
  /\ c.fn \in {"dlsym", "dlclose"} /\ c.arg = s
  /\ ~(c.fn = "dlclose" /\ c.at \in {"running", "unlock"})
Owing(s) == { t \in Threads : Owes(call[t], s) }
OwingInv == \A s \in Slots : Cardinality(Owing(s)) <= handles[s]

(* The steps of the threads are steps of the linker.                       *)
LEMMA ThreadsRunLinker ==
  ASSUME DlTypes, [DlNext]_dlVars
  PROVE  [Next]_vars
<1>1. CASE UNCHANGED dlVars
  BY <1>1 DEF dlVars
<1>2. ASSUME NEW t \in Threads, Start(t) PROVE Next
  BY <1>2 DEF Start, Next, DlTypes
<1>3. ASSUME NEW t \in Threads, Run(t) PROVE Next
  BY <1>3 DEF Run, Next
<1>4. ASSUME NEW t \in Threads,
             \/ Request(t) \/ LockDl(t) \/ Refuse(t) \/ Look(t) \/ UnlockDl(t)
             \/ DlerrorClear(t) \/ Reenter(t) \/ DlerrorRead(t)
      PROVE  UNCHANGED vars
  BY <1>4 DEF Request, LockDl, Refuse, Look, UnlockDl, DlerrorClear, Reenter, DlerrorRead
<1> QED BY <1>1, <1>2, <1>3, <1>4 DEF DlNext, Proceed

(* A call in progress takes no handle back.                                *)
LEMMA HandlesGrow ==
  ASSUME LibDLUnnamed, TypeInv, Inside, NEW s \in Slots
  PROVE  handles'[s] >= handles[s]
<1>1. handles \in [Slots -> Nat]
  BY DEF TypeInv, LinkerTypes
<1>2. DlopenReturn => handles' = [handles EXCEPT ![Top.si] = @ + 1]
  BY DlopenReturnStep
<1>3. handles' = handles \/ DlopenReturn
  BY InsideCases, FindLibraryStep, LoadRefusedStep, LoadAllocStep, LoadSegmentsStep,
     LoadFailsStep, LinkFailStep, LinkFindStep, LinkNeededStep, LinkedStep, DlopenFoundStep,
     CtorEnterStep, CtorNeededStep, CtorInitStep, InitReturnsStep, UnloadEnterStep,
     FiniReturnsStep, UnloadNeededStep, UnloadFreeStep
<1> QED BY <1>1, <1>2, <1>3

(* The threads that owe a dlclose of a library are finitely many.          *)
LEMMA OwingFinite ==
  ASSUME NEW s
  PROVE  /\ IsFiniteSet(Owing(s)) /\ IsFiniteSet(Owing(s)') /\ IsFiniteSet(Using(s))
         /\ Cardinality(Owing(s)) \in Nat /\ Cardinality(Owing(s)') \in Nat
         /\ Owing(s) \subseteq Using(s) /\ Cardinality(Owing(s)) <= Cardinality(Using(s))
         /\ Cardinality(Using(s)) \in Nat
<1>1. IsFiniteSet(Threads)
  BY DlfcnAssumption
<1>2. /\ Owing(s) \subseteq Threads /\ Owing(s)' \subseteq Threads /\ Using(s) \subseteq Threads
      /\ Owing(s) \subseteq Using(s)
  BY DEF Owing, Owes, Using
<1> QED BY <1>1, <1>2, FS_Subset, FS_CardinalityType

(* One step for one handle.                                                *)
LEMMA OwingNext ==
  ASSUME TypeInv, TypeInv', OwingInv, NEW s \in Slots, NEW t \in Threads,
         \A u \in Threads : u # t => call'[u] = call[u],
         \/ handles'[s] >= handles[s] /\ (Owes(call'[t], s) => Owes(call[t], s))
         \/ handles'[s] = handles[s] /\ MayUse(s)
         \/ handles'[s] = handles[s] - 1 /\ Owes(call[t], s) /\ ~Owes(call'[t], s)
  PROVE  Cardinality(Owing(s)') <= handles'[s]
<1>1. PICK h \in Nat, k \in Nat : h = handles[s] /\ k = handles'[s]
  BY DEF TypeInv, LinkerTypes
<1>2. PICK c \in Nat, d \in Nat, m \in Nat :
        /\ c = Cardinality(Owing(s)) /\ d = Cardinality(Owing(s)') /\ m = Cardinality(Using(s))
        /\ c <= m
  BY OwingFinite
<1>3. c <= h
  BY <1>1, <1>2 DEF OwingInv
<1>4. \A u \in Threads : u # t => (u \in Owing(s)' <=> u \in Owing(s))
  BY DEF Owing
<1>5. Owing(s)' \subseteq Threads /\ Owing(s) \subseteq Threads
  BY DEF Owing
<1>6. CASE k >= h /\ (Owes(call'[t], s) => Owes(call[t], s))
  <2>1. Owing(s)' \subseteq Owing(s)
    BY <1>4, <1>5, <1>6 DEF Owing
  <2>2. d <= c
    BY <1>2, <2>1, OwingFinite, FS_Subset
  <2> QED BY <1>1, <1>2, <1>3, <1>6, <2>2
<1>7. CASE k = h /\ MayUse(s)
  <2>1. Owing(s)' \subseteq Owing(s) \cup {t}
    BY <1>4, <1>5
  <2>2. IsFiniteSet(Owing(s) \cup {t}) /\ Cardinality(Owing(s) \cup {t}) <= c + 1
    <3>1. /\ IsFiniteSet(Owing(s) \cup {t})
          /\ Cardinality(Owing(s) \cup {t}) = IF t \in Owing(s) THEN c ELSE c + 1
      BY <1>2, OwingFinite, FS_AddElement
    <3> QED BY <1>2, <3>1
  <2>3. d <= Cardinality(Owing(s) \cup {t}) /\ Cardinality(Owing(s) \cup {t}) \in Nat
    BY <1>2, <2>1, <2>2, FS_Subset, FS_CardinalityType
  <2>4. h > m
    BY <1>1, <1>2, <1>7 DEF MayUse
  <2> QED BY <1>1, <1>2, <1>7, <2>2, <2>3, <2>4
<1>8. CASE k = h - 1 /\ Owes(call[t], s) /\ ~Owes(call'[t], s)
  <2>1. t \in Owing(s) /\ Owing(s)' \subseteq Owing(s) \ {t}
    BY <1>4, <1>5, <1>8 DEF Owing
  <2>2. IsFiniteSet(Owing(s) \ {t}) /\ Cardinality(Owing(s) \ {t}) = c - 1
    BY <1>2, <2>1, OwingFinite, FS_RemoveElement
  <2>3. d <= c - 1
    BY <1>2, <2>1, <2>2, FS_Subset
  <2> QED BY <1>1, <1>2, <1>3, <1>8, <2>3
<1> QED BY <1>1, <1>6, <1>7, <1>8

(* Every step keeps as many handles as there are owed.                     *)
LEMMA OwingStep ==
  ASSUME LibDLUnnamed, TypeInv, TypeInv', OwnedInv, OwingInv, [DlNext]_dlVars
  PROVE  OwingInv'
<1> USE DEF OwnedInv
<1>1. CASE UNCHANGED dlVars
  BY <1>1 DEF dlVars, vars, OwingInv, Owing
<1>2. SUFFICES ASSUME NEW t \in Threads, NEW s \in Slots,
                      Request(t) \/ Proceed(t) \/ Reenter(t) \/ DlerrorRead(t)
               PROVE  Cardinality(Owing(s)') <= handles'[s]
  BY <1>1 DEF DlNext, OwingInv
<1>3. handles \in [Slots -> Nat] /\ handles[s] \in Nat
  BY DEF TypeInv, LinkerTypes
<1>4. ASSUME \A u \in Threads : u # t => call'[u] = call[u],
             Owes(call'[t], s) => Owes(call[t], s), handles'[s] >= handles[s]
      PROVE  Cardinality(Owing(s)') <= handles'[s]
  BY <1>4, OwingNext
<1>5. CASE Request(t)
  <2>1. PICK r \in Requests : call' = [call EXCEPT ![t] = r]
    BY <1>5 DEF Request
  <2>2. handles' = handles
    BY <1>5 DEF Request, vars
  <2>3. /\ call'[t] = r /\ \A u \in Threads : u # t => call'[u] = call[u]
        /\ r.fn \in {"dlsym", "dlclose"} => MayUse(r.arg)
    BY <2>1, Requested, Changed
  <2>4. Owes(call'[t], s) => MayUse(s)
    BY <2>3 DEF Owes
  <2>5. CASE Owes(call'[t], s)
    BY <2>2, <2>3, <2>4, <2>5, OwingNext
  <2>6. CASE ~Owes(call'[t], s)
    BY <1>3, <1>4, <2>2, <2>3, <2>6
  <2> QED BY <2>5, <2>6
<1>6. ASSUME NEW l, MovesTo(t, l)
      PROVE  /\ \A u \in Threads : u # t => call'[u] = call[u]
             /\ call'[t].at = l /\ call'[t].fn = call[t].fn /\ call'[t].arg = call[t].arg
  BY <1>6, Moved
<1>7. CASE LockDl(t)
  <2>1. handles' = handles /\ MovesTo(t, "body") /\ call[t].at = "lock"
    BY <1>7 DEF LockDl, vars, At, Goto, MovesTo, Places
  <2>2. Owes(call'[t], s) => Owes(call[t], s)
    BY <1>6, <2>1 DEF Owes
  <2> QED BY <1>3, <1>4, <1>6, <2>1, <2>2
<1>8. CASE Start(t)
  <2>1. /\ MovesTo(t, "running") /\ call[t].at = "body"
        /\ \/ call[t].fn = "dlopen" /\ Dlopen(call[t].arg)
           \/ call[t].fn = "dlclose" /\ Dlclose(call[t].arg)
    BY <1>8 DEF Start, At, Goto, MovesTo, Places
  <2>2. CASE call[t].fn = "dlopen" /\ Dlopen(call[t].arg)
    <3>1. handles' = handles
      BY <2>2 DEF Dlopen
    <3>2. ~Owes(call'[t], s)
      BY <1>6, <2>1, <2>2 DEF Owes
    <3> QED BY <1>3, <1>4, <1>6, <2>1, <3>1, <3>2
  <2>3. CASE call[t].fn = "dlclose" /\ Dlclose(call[t].arg)
    <3>1. handles' = [handles EXCEPT ![call[t].arg] = @ - 1]
      BY <2>3 DEF Dlclose
    <3>2. ~Owes(call'[t], s)
      BY <1>6, <2>1, <2>3 DEF Owes
    <3>3. CASE call[t].arg = s
      <4>1. handles'[s] = handles[s] - 1 /\ Owes(call[t], s)
        BY <1>3, <2>1, <2>3, <3>1, <3>3 DEF Owes
      <4> QED BY <1>6, <2>1, <3>2, <4>1, OwingNext
    <3>4. CASE call[t].arg # s
      <4>1. handles'[s] = handles[s]
        BY <1>3, <3>1, <3>4
      <4> QED BY <1>3, <1>4, <1>6, <2>1, <3>2, <4>1
    <3> QED BY <3>3, <3>4
  <2> QED BY <2>1, <2>2, <2>3
<1>9. CASE Refuse(t) \/ Look(t)
  <2>1. handles' = handles /\ MovesTo(t, "unlock") /\ call[t].fn # "dlclose" /\ call[t].at = "body"
    BY <1>9 DEF Refuse, Look, vars, At, Goto, MovesTo, Places
  <2>2. Owes(call'[t], s) => Owes(call[t], s)
    BY <1>6, <2>1 DEF Owes
  <2> QED BY <1>3, <1>4, <1>6, <2>1, <2>2
<1>10. CASE Run(t)
  <2>1. handles'[s] >= handles[s]
    BY <1>10, HandlesGrow DEF Run
  <2>2. CASE stack' = << >>
    <3>1. MovesTo(t, "unlock")
      BY <1>10, <2>2 DEF Run, Goto, MovesTo, Places
    <3>2. Owes(call'[t], s) => Owes(call[t], s)
      BY <1>6, <3>1 DEF Owes
    <3> QED BY <1>4, <1>6, <2>1, <3>1, <3>2
  <2>3. CASE stack' # << >>
    <3>1. call' = call
      BY <1>10, <2>3 DEF Run
    <3> QED BY <1>4, <2>1, <3>1
  <2> QED BY <2>2, <2>3
<1>11. CASE UnlockDl(t) \/ DlerrorClear(t)
  <2>1. handles' = handles /\ call' = [call EXCEPT ![t] = Out]
    BY <1>11 DEF UnlockDl, DlerrorClear, vars
  <2>2. call'[t] = Out /\ \A u \in Threads : u # t => call'[u] = call[u]
    BY <2>1, OutTyped, Changed
  <2>3. ~Owes(call'[t], s)
    BY <2>2, OutTyped DEF Owes
  <2> QED BY <1>3, <1>4, <2>1, <2>2, <2>3
<1>12. CASE Reenter(t) \/ DlerrorRead(t)
  <2>1. handles' = handles
    BY <1>12 DEF Reenter, DlerrorRead, vars
  <2>2. PICK r : call' = [call EXCEPT ![t] = r] /\ r.fn \in {"dlopen", "dlerror"}
    <3>1. ASSUME NEW f \in {"dlopen", "dlerror"}, NEW a, NEW l,
                 call' = [call EXCEPT ![t] = [fn |-> f, arg |-> a, at |-> l]]
          PROVE  \E r : call' = [call EXCEPT ![t] = r] /\ r.fn \in {"dlopen", "dlerror"}
      <4>1. PICK r : r = [fn |-> f, arg |-> a, at |-> l]
        OBVIOUS
      <4>2. call' = [call EXCEPT ![t] = r] /\ r.fn = f
        BY <3>1, <4>1
      <4> QED BY <4>2
    <3>2. CASE Reenter(t)
      <4>1. PICK n \in Opened :
              call' = [call EXCEPT ![t] = [fn |-> "dlopen", arg |-> n, at |-> "lock"]]
        BY <3>2 DEF Reenter
      <4> QED BY <3>1, <4>1
    <3>3. CASE DlerrorRead(t)
      <4>1. call' = [call EXCEPT ![t] = [fn |-> "dlerror", arg |-> NULL, at |-> "clear"]]
        BY <3>3 DEF DlerrorRead
      <4> QED BY <3>1, <4>1
    <3> QED BY <1>12, <3>2, <3>3
  <2>3. call'[t] = r /\ \A u \in Threads : u # t => call'[u] = call[u]
    BY <2>2 DEF DlTypes
  <2>4. ~Owes(call'[t], s)
    BY <2>2, <2>3 DEF Owes
  <2> QED BY <1>3, <1>4, <2>1, <2>3, <2>4
<1> QED BY <1>2, <1>5, <1>7, <1>8, <1>9, <1>10, <1>11, <1>12 DEF Proceed

(* The handles there are for those who hold them and those who owe them    *)
(* make every argument usable.                                             *)
LEMMA ArgumentsOwed ==
  ASSUME HandleInv, OwnedInv, OwingInv
  PROVE  ArgumentUsable
<1>1. SUFFICES ASSUME NEW t \in Threads, call[t].at = "body", call[t].fn \in {"dlsym", "dlclose"}
               PROVE  /\ handles[call[t].arg] > 0
                      /\ Usable(call[t].arg) /\ info[call[t].arg].inits = 1
  BY DEF ArgumentUsable, At
<1>2. PICK s \in Slots : s = call[t].arg
  BY <1>1 DEF OwnedInv, DlTypes
<1>3. t \in Owing(s)
  BY <1>1, <1>2 DEF Owing, Owes
<1>4. Cardinality(Owing(s)) # 0 /\ Cardinality(Owing(s)) \in Nat
  BY <1>3, OwingFinite, FS_EmptySet
<1>5. handles[s] \in Nat /\ Cardinality(Owing(s)) <= handles[s]
  BY DEF OwingInv, HandleInv, CountInv, TypeInv, LinkerTypes
<1>6. handles[s] > 0
  BY <1>4, <1>5
<1> QED BY <1>2, <1>6 DEF HandleInv, HandlesUsable

(* The handle a dlsym or dlclose works on is usable when the thread gets   *)
(* dl_lock, whatever other threads have unloaded while it waited.          *)
THEOREM ArgumentAlwaysUsable ==
  ASSUME LibDLUnnamed
  PROVE  DlSpec => []ArgumentUsable
<1> DEFINE I == HandleInv /\ OwnedInv /\ OwingInv
<1>1. DlInit => I
  <2>1. ASSUME DlInit PROVE OwingInv
    <3>1. \A s \in Slots : Owing(s) = {} /\ handles[s] = 0
      BY <2>1, OutTyped DEF DlInit, Init, Owing, Owes
    <3> QED BY <3>1, FS_EmptySet DEF OwingInv
  <2> QED BY <2>1, HandleInvInitially, OwnedInitially DEF DlInit
<1>2. I /\ [DlNext]_dlVars => I'
  <2>1. SUFFICES ASSUME HandleInv, OwnedInv, OwingInv, [DlNext]_dlVars
                 PROVE  HandleInv' /\ OwnedInv' /\ OwingInv'
    OBVIOUS
  <2>2. [Next]_vars
    BY <2>1, ThreadsRunLinker DEF OwnedInv
  <2>3. HandleInv'
    BY <2>1, <2>2, HandleInvStep
  <2>4. TypeInv /\ TypeInv'
    BY <2>1, <2>3 DEF HandleInv, CountInv
  <2> QED BY <2>1, <2>3, <2>4, OwnedStep, OwingStep
<1>3. I => ArgumentUsable
  BY SMTT(20), ArgumentsOwed
<1> HIDE DEF I
<1> QED BY <1>1, <1>2, <1>3, PTL DEF DlSpec

-----------------------------------------------------------------------------
(* The debugger's list: doubly linked, and walked from its tail.           *)
Doubly(l, prev, nxt, tail) ==
  /\ l \in Seq(Slots) /\ Once(l)
  /\ tail = IF Len(l) = 0 THEN NULL ELSE l[Len(l)]
  /\ \A k \in 1 .. Len(l) : prev[l[k]] = IF k = 1 THEN NULL ELSE l[k - 1]
  /\ \A k \in 1 .. Len(l) : nxt[l[k]] = IF k = Len(l) THEN NULL ELSE l[k + 1]
Links == [Slots -> Slots \cup {NULL}]

(* What DoublyLinked says of the list, its head, its tail and its links.   *)
LEMMA DoublyFields ==
  ASSUME NEW l, NEW prev, NEW nxt, NEW tail, Doubly(l, prev, nxt, tail)
  PROVE  /\ Len(l) \in Nat /\ \A k \in 1 .. Len(l) : l[k] \in Slots /\ l[k] # NULL
         /\ On(l) = { l[k] : k \in 1 .. Len(l) }
         /\ tail \in On(l) \cup {NULL}
         /\ \A k \in 1 .. Len(l) : prev[l[k]] \in On(l) \cup {NULL}
                                   /\ nxt[l[k]] \in On(l) \cup {NULL}
<1>1. /\ Len(l) \in Nat /\ DOMAIN l = 1 .. Len(l)
      /\ \A k \in 1 .. Len(l) : l[k] \in Slots
  BY DEF Doubly
<1>2. \A s \in Slots : s # NULL
  BY PoolEntries
<1>3. On(l) = { l[k] : k \in 1 .. Len(l) }
  BY <1>1 DEF On
<1>4. \A k \in 1 .. Len(l) : l[k] \in On(l)
  BY <1>3
<1>5. Len(l) # 0 => Len(l) \in 1 .. Len(l)
  <2>1. PICK n \in Nat : n = Len(l)
    BY <1>1
  <2>2. n # 0 => n \in 1 .. n
    OBVIOUS
  <2> QED BY SMTT(20), <2>1, <2>2
<1>6. \A k \in 1 .. Len(l) : /\ k # 1 => k - 1 \in 1 .. Len(l)
                             /\ k # Len(l) => k + 1 \in 1 .. Len(l)
  <2>1. PICK n \in Nat : n = Len(l)
    BY <1>1
  <2>2. \A k \in 1 .. n : /\ k # 1 => k - 1 \in 1 .. n
                          /\ k # n => k + 1 \in 1 .. n
    OBVIOUS
  <2> QED BY <2>1, <2>2
<1> QED BY <1>1, <1>2, <1>3, <1>4, <1>5, <1>6 DEF Doubly

(* FromTail meets every entry of the list and nothing else.                *)
LEMMA WalkedBack ==
  ASSUME NEW l, Doubly(l, l_prev, l_next, r_debug_tail), l_prev \in Links
  PROVE  FromTail = On(l)
<1> DEFINE N == Cardinality(DOMAIN l_prev)
           K == 0 .. N
           n == Len(l)
           g == [k \in K |-> IF k < n THEN l[n - k] ELSE NULL]
           IsWalk(f) ==
             f = [k \in K |-> IF k = 0 THEN r_debug_tail
                              ELSE LET s == f[k - 1] IN IF s = NULL THEN NULL ELSE l_prev[s]]
           back == CHOOSE f : IsWalk(f)
<1>1. /\ n \in Nat /\ \A k \in 1 .. n : l[k] \in Slots /\ l[k] # NULL
      /\ On(l) = { l[k] : k \in 1 .. n }
  BY DoublyFields
<1>2. N = SO_MAX + 1 /\ N \in Nat /\ IsFiniteSet(Slots)
  <2>1. SO_MAX \in Nat /\ (SO_MAX - 0) + 1 = SO_MAX + 1 /\ 0 <= SO_MAX
    BY LinkerAssumption
  <2>2. IsFiniteSet(Slots) /\ Cardinality(Slots) = SO_MAX + 1
    BY <2>1, FS_Interval DEF Slots
  <2>3. DOMAIN l_prev = Slots
    BY DEF Links
  <2> QED BY <2>1, <2>2, <2>3
<1>3. n <= N
  <2>1. Cardinality(On(l)) = n
    BY <1>1, OnceCardinality DEF Doubly
  <2>2. On(l) \subseteq Slots /\ DOMAIN l_prev = Slots
    BY <1>1 DEF Links
  <2> QED BY <1>2, <2>1, <2>2, FS_Subset
<1>4. IsWalk(g)
  <2>1. ASSUME NEW k \in K
        PROVE  g[k] = IF k = 0 THEN r_debug_tail
                      ELSE IF g[k - 1] = NULL THEN NULL ELSE l_prev[g[k - 1]]
    <3>1. CASE k = 0
      <4>1. 0 \in K /\ n - 0 = n
        BY <1>1, <1>2
      <4>2. g[0] = IF 0 < n THEN l[n] ELSE NULL
        BY <4>1
      <4>3. 0 < n <=> n # 0
        BY <1>1
      <4> HIDE DEF g
      <4> QED BY <3>1, <4>2, <4>3 DEF Doubly
    <3>2. CASE k # 0 /\ k < n
      <4>1. k - 1 \in K /\ k - 1 < n /\ n - (k - 1) = (n - k) + 1 /\ n - k \in 1 .. n
            /\ (n - k) + 1 \in 1 .. n /\ (n - k) + 1 # 1 /\ ((n - k) + 1) - 1 = n - k
        BY <1>1, <1>2, <3>2
      <4>2. g[k - 1] = l[(n - k) + 1] /\ g[k] = l[n - k]
        BY SMTT(20), <3>2, <4>1
      <4>3. l_prev[l[(n - k) + 1]] = l[n - k] /\ l[(n - k) + 1] # NULL
        BY <1>1, <4>1 DEF Doubly
      <4> HIDE DEF g
      <4> QED BY <3>2, <4>2, <4>3
    <3>3. CASE k # 0 /\ k = n
      <4>1. k - 1 \in K /\ k - 1 < n /\ n - (k - 1) = 1 /\ 1 \in 1 .. n /\ ~(k < n)
        BY <1>1, <1>2, <3>3
      <4>2. g[k - 1] = l[1] /\ g[k] = NULL
        BY <4>1
      <4>3. l_prev[l[1]] = NULL /\ l[1] # NULL
        BY <1>1, <4>1 DEF Doubly
      <4> HIDE DEF g
      <4> QED BY <3>3, <4>2, <4>3
    <3>4. CASE k > n
      <4>1. k - 1 \in K /\ ~(k - 1 < n) /\ ~(k < n) /\ k # 0
        BY <1>1, <1>2, <3>4
      <4>2. g[k - 1] = NULL /\ g[k] = NULL
        BY <4>1
      <4> HIDE DEF g
      <4> QED BY <4>1, <4>2
    <3> QED BY <1>1, <1>2, <3>1, <3>2, <3>3, <3>4
  <2>2. g = [k \in K |-> g[k]]
    OBVIOUS
  <2> HIDE DEF g, K
  <2> QED BY <2>1, <2>2
<1>5. IsWalk(back)
  <2> HIDE DEF IsWalk, g
  <2> QED BY <1>4
<1>6. \A k \in K : back[k] = g[k]
  <2> DEFINE S == { k \in Nat : k \in K => back[k] = g[k] }
  <2>1. 0 \in S
    BY <1>4, <1>5
  <2>2. ASSUME NEW k \in Nat, k \in S PROVE k + 1 \in S
    <3>1. SUFFICES ASSUME k + 1 \in K PROVE back[k + 1] = g[k + 1]
      OBVIOUS
    <3>2. k \in K /\ (k + 1) - 1 = k /\ k + 1 # 0
      BY <1>2, <3>1
    <3>3. back[k] = g[k]
      BY <2>2, <3>2
    <3> HIDE DEF back, g, K
    <3>4. back[k + 1] = IF back[k] = NULL THEN NULL ELSE l_prev[back[k]]
      BY <1>5, <3>1, <3>2
    <3>5. g[k + 1] = IF g[k] = NULL THEN NULL ELSE l_prev[g[k]]
      BY <1>4, <3>1, <3>2
    <3> QED BY <3>3, <3>4, <3>5
  <2> HIDE DEF S
  <2>3. Nat \subseteq S
    BY <2>1, <2>2, SetInduction
  <2>4. ASSUME NEW k \in K PROVE back[k] = g[k]
    <3>1. k \in Nat
      BY <1>2
    <3>2. k \in S
      BY <2>3, <3>1
    <3> QED BY <2>4, <3>1, <3>2 DEF S
  <2> QED BY SMTT(20), <2>4
<1>7. FromTail = { back[k] : k \in DOMAIN back } \ {NULL} /\ DOMAIN back = K
  <2>1. DOMAIN back = K
    <3> HIDE DEF back
    <3> QED BY <1>5
  <2> QED BY <2>1 DEF FromTail
<1>8. ASSUME NEW s PROVE s \in FromTail <=> s \in On(l)
  <2>1. s \in FromTail <=> s # NULL /\ \E k \in K : g[k] = s
    <3> HIDE DEF back, g, K
    <3> QED BY <1>6, <1>7
  <2>2. ASSUME s # NULL, NEW k \in K, g[k] = s PROVE s \in On(l)
    <3>1. k < n /\ n - k \in 1 .. n /\ s = l[n - k]
      BY <1>1, <1>2, <2>2
    <3> QED BY <1>1, <3>1
  <2>3. ASSUME NEW j \in 1 .. n, s = l[j] PROVE s # NULL /\ \E k \in K : g[k] = s
    <3>1. n - j \in K /\ n - j < n /\ n - (n - j) = j
      BY <1>1, <1>2, <1>3
    <3>2. g[n - j] = l[j]
      BY <3>1
    <3> QED BY <1>1, <2>3, <3>1, <3>2
  <2> QED BY <1>1, <2>1, <2>2, <2>3
<1> QED BY <1>8

(* FromHead meets every entry of a list whose first entry is r_map.        *)
LEMMA WalkedAhead ==
  ASSUME NEW l, Doubly(l, l_prev, l_next, r_debug_tail), l_next \in Links,
         Len(l) # 0, r_map = l[1]
  PROVE  FromHead = On(l)
<1> DEFINE N == Cardinality(DOMAIN l_next)
           K == 0 .. N
           n == Len(l)
           g == [k \in K |-> IF k < n THEN l[k + 1] ELSE NULL]
           IsWalk(f) ==
             f = [k \in K |-> IF k = 0 THEN r_map
                              ELSE LET s == f[k - 1] IN IF s = NULL THEN NULL ELSE l_next[s]]
           ahead == CHOOSE f : IsWalk(f)
<1>1. /\ n \in Nat /\ \A k \in 1 .. n : l[k] \in Slots /\ l[k] # NULL
      /\ On(l) = { l[k] : k \in 1 .. n }
  BY DoublyFields
<1>2. N = SO_MAX + 1 /\ N \in Nat /\ IsFiniteSet(Slots)
  <2>1. SO_MAX \in Nat /\ (SO_MAX - 0) + 1 = SO_MAX + 1 /\ 0 <= SO_MAX
    BY LinkerAssumption
  <2>2. IsFiniteSet(Slots) /\ Cardinality(Slots) = SO_MAX + 1
    BY <2>1, FS_Interval DEF Slots
  <2>3. DOMAIN l_next = Slots
    BY DEF Links
  <2> QED BY <2>1, <2>2, <2>3
<1>3. n <= N
  <2>1. Cardinality(On(l)) = n
    BY <1>1, OnceCardinality DEF Doubly
  <2>2. On(l) \subseteq Slots /\ DOMAIN l_next = Slots
    BY <1>1 DEF Links
  <2> QED BY <1>2, <2>1, <2>2, FS_Subset
<1>4. IsWalk(g)
  <2>1. ASSUME NEW k \in K
        PROVE  g[k] = IF k = 0 THEN r_map
                      ELSE IF g[k - 1] = NULL THEN NULL ELSE l_next[g[k - 1]]
    <3>1. CASE k = 0
      <4>1. 0 \in K /\ 0 < n /\ 0 + 1 = 1
        BY <1>1, <1>2
      <4>2. g[0] = l[1]
        BY <4>1
      <4> HIDE DEF g
      <4> QED BY <3>1, <4>2
    <3>2. CASE k # 0 /\ k < n
      <4>1. k - 1 \in K /\ k - 1 < n /\ (k - 1) + 1 = k /\ k \in 1 .. n /\ k # n
        BY <1>1, <1>2, <3>2
      <4>2. g[k - 1] = l[k] /\ g[k] = l[k + 1]
        BY SMTT(20), <3>2, <4>1
      <4>3. l_next[l[k]] = l[k + 1] /\ l[k] # NULL
        BY <1>1, <4>1 DEF Doubly
      <4> HIDE DEF g
      <4> QED BY <3>2, <4>2, <4>3
    <3>3. CASE k # 0 /\ k = n
      <4>1. k - 1 \in K /\ k - 1 < n /\ (k - 1) + 1 = n /\ n \in 1 .. n /\ ~(k < n)
        BY <1>1, <1>2, <3>3
      <4>2. g[k - 1] = l[n] /\ g[k] = NULL
        BY <4>1
      <4>3. l_next[l[n]] = NULL /\ l[n] # NULL
        BY <1>1, <4>1 DEF Doubly
      <4> HIDE DEF g
      <4> QED BY <3>3, <4>2, <4>3
    <3>4. CASE k > n
      <4>1. k - 1 \in K /\ ~(k - 1 < n) /\ ~(k < n) /\ k # 0
        BY <1>1, <1>2, <3>4
      <4>2. g[k - 1] = NULL /\ g[k] = NULL
        BY <4>1
      <4> HIDE DEF g
      <4> QED BY <4>1, <4>2
    <3> QED BY <1>1, <1>2, <3>1, <3>2, <3>3, <3>4
  <2>2. g = [k \in K |-> g[k]]
    OBVIOUS
  <2> HIDE DEF g, K
  <2> QED BY <2>1, <2>2
<1>5. IsWalk(ahead)
  <2> HIDE DEF IsWalk, g
  <2> QED BY <1>4
<1>6. \A k \in K : ahead[k] = g[k]
  <2> DEFINE S == { k \in Nat : k \in K => ahead[k] = g[k] }
  <2>1. 0 \in S
    <3>1. 0 \in K
      BY <1>2
    <3> HIDE DEF ahead, g, K
    <3>2. ahead[0] = r_map /\ g[0] = r_map
      BY <1>4, <1>5, <3>1
    <3> QED BY <3>2
  <2>2. ASSUME NEW k \in Nat, k \in S PROVE k + 1 \in S
    <3>1. SUFFICES ASSUME k + 1 \in K PROVE ahead[k + 1] = g[k + 1]
      OBVIOUS
    <3>2. k \in K /\ (k + 1) - 1 = k /\ k + 1 # 0
      BY <1>2, <3>1
    <3>3. ahead[k] = g[k]
      BY <2>2, <3>2
    <3> HIDE DEF ahead, g, K
    <3>4. ahead[k + 1] = IF ahead[k] = NULL THEN NULL ELSE l_next[ahead[k]]
      BY <1>5, <3>1, <3>2
    <3>5. g[k + 1] = IF g[k] = NULL THEN NULL ELSE l_next[g[k]]
      BY <1>4, <3>1, <3>2
    <3> QED BY <3>3, <3>4, <3>5
  <2> HIDE DEF S
  <2>3. Nat \subseteq S
    BY <2>1, <2>2, SetInduction
  <2>4. ASSUME NEW k \in K PROVE ahead[k] = g[k]
    <3>1. k \in Nat
      BY <1>2
    <3>2. k \in S
      BY <2>3, <3>1
    <3> QED BY <2>4, <3>1, <3>2 DEF S
  <2> QED BY SMTT(20), <2>4
<1>7. FromHead = { ahead[k] : k \in DOMAIN ahead } \ {NULL} /\ DOMAIN ahead = K
  <2>1. DOMAIN ahead = K
    <3> HIDE DEF ahead
    <3> QED BY <1>5
  <2> QED BY <2>1 DEF FromHead
<1>8. ASSUME NEW s PROVE s \in FromHead <=> s \in On(l)
  <2>1. s \in FromHead <=> s # NULL /\ \E k \in K : g[k] = s
    <3> HIDE DEF ahead, g, K
    <3> QED BY <1>6, <1>7
  <2>2. ASSUME s # NULL, NEW k \in K, g[k] = s PROVE s \in On(l)
    <3>1. k < n /\ k + 1 \in 1 .. n /\ s = l[k + 1]
      BY <1>1, <1>2, <2>2
    <3> QED BY <1>1, <3>1
  <2>3. ASSUME NEW j \in 1 .. n, s = l[j] PROVE s # NULL /\ \E k \in K : g[k] = s
    <3>1. j - 1 \in K /\ j - 1 < n /\ (j - 1) + 1 = j
      BY <1>1, <1>2, <1>3
    <3>2. g[j - 1] = l[j]
      BY <3>1
    <3> QED BY <1>1, <2>3, <3>1, <3>2
  <2> QED BY <1>1, <2>1, <2>2, <2>3
<1> QED BY <1>8

(* insert_soinfo_into_debug_map appends an entry that is not there.        *)
LEMMA LinkInserted ==
  ASSUME NEW l, Doubly(l, l_prev, l_next, r_debug_tail), l_prev \in Links, l_next \in Links,
         NEW a \in Slots, a \notin On(l), InsertLinkMap(a)
  PROVE  /\ \E r \in Seq(Slots) :
              Doubly(r, l_prev', l_next', r_debug_tail') /\ On(r) = On(l) \cup {a}
         /\ l_prev' \in Links /\ l_next' \in Links
         /\ \A s \in Slots : s \notin On(l) /\ s # a =>
              l_prev'[s] = l_prev[s] /\ l_next'[s] = l_next[s]
<1>1. PICK n \in Nat : n = Len(l)
  BY DoublyFields
<1>2. /\ \A k \in 1 .. n : l[k] \in Slots /\ l[k] # NULL /\ l[k] # a
      /\ On(l) = { l[k] : k \in 1 .. n } /\ l \in Seq(Slots)
      /\ r_debug_tail \in On(l) \cup {NULL}
  <2>1. /\ \A k \in 1 .. Len(l) : l[k] \in Slots /\ l[k] # NULL
        /\ On(l) = { l[k] : k \in 1 .. Len(l) }
        /\ r_debug_tail \in On(l) \cup {NULL}
    BY DoublyFields
  <2>2. \A k \in 1 .. Len(l) : l[k] # a
    BY <2>1
  <2>3. l \in Seq(Slots)
    BY DEF Doubly
  <2> QED BY <1>1, <2>1, <2>2, <2>3
<1>3. PICK r : r = Append(l, a)
  OBVIOUS
<1>4. /\ r \in Seq(Slots) /\ Len(r) = n + 1 /\ r[n + 1] = a
      /\ \A k \in 1 .. n : r[k] = l[k]
  BY <1>1, <1>2, <1>3
<1>5. /\ \A s \in Slots : l_next'[s] = IF s = a THEN NULL
                                       ELSE IF s = r_debug_tail THEN a ELSE l_next[s]
      /\ \A s \in Slots : l_prev'[s] = IF s = a THEN r_debug_tail ELSE l_prev[s]
      /\ l_prev' \in Links /\ l_next' \in Links /\ r_debug_tail' = a
  <2>1. r_debug_tail \in Slots \cup {NULL}
    BY <1>2
  <2> QED BY <2>1 DEF InsertLinkMap, Links
<1>6. \A k \in 1 .. n + 1 : k = n + 1 \/ k \in 1 .. n
  OBVIOUS
<1>7. On(r) = On(l) \cup {a}
  <2>1. On(r) = { r[k] : k \in 1 .. n + 1 }
    BY <1>4 DEF On
  <2>2. n + 1 \in 1 .. n + 1 /\ \A k \in 1 .. n : k \in 1 .. n + 1
    OBVIOUS
  <2> QED BY <1>2, <1>4, <1>6, <2>1, <2>2
<1>8. Once(r)
  <2>1. \A i, j \in 1 .. n : l[i] = l[j] => i = j
    BY <1>1 DEF Doubly, Once
  <2> QED BY <1>2, <1>4, <1>6, <2>1 DEF Once
<1>9. r_debug_tail = IF n = 0 THEN NULL ELSE l[n]
  BY <1>1 DEF Doubly
<1>10. \A k \in 1 .. n : /\ l_prev[l[k]] = IF k = 1 THEN NULL ELSE l[k - 1]
                         /\ l_next[l[k]] = IF k = n THEN NULL ELSE l[k + 1]
  BY <1>1 DEF Doubly
<1>11. ASSUME NEW k \in 1 .. n + 1
       PROVE  l_prev'[r[k]] = IF k = 1 THEN NULL ELSE r[k - 1]
  <2>1. CASE k = n + 1
    <3>1. l_prev'[r[k]] = r_debug_tail
      BY <1>4, <1>5, <2>1
    <3>2. k = 1 <=> n = 0
      BY <2>1
    <3>3. n # 0 => n \in 1 .. n /\ k - 1 = n
      BY <2>1
    <3> QED BY <1>4, <1>9, <3>1, <3>2, <3>3
  <2>2. CASE k \in 1 .. n
    <3>1. l_prev'[r[k]] = l_prev[l[k]] /\ r[k] = l[k]
      BY <1>2, <1>4, <1>5, <2>2
    <3>2. k # 1 => k - 1 \in 1 .. n
      BY <2>2
    <3> QED BY <1>4, <1>10, <2>2, <3>1, <3>2
  <2> QED BY <1>6, <2>1, <2>2
<1>12. ASSUME NEW k \in 1 .. n + 1
       PROVE  l_next'[r[k]] = IF k = n + 1 THEN NULL ELSE r[k + 1]
  <2>1. CASE k = n + 1
    BY <1>4, <1>5, <2>1
  <2>2. CASE k \in 1 .. n /\ k = n
    <3>1. r[k] = r_debug_tail /\ r[k] # a /\ r[k] \in Slots /\ k # n + 1 /\ r[k + 1] = a
      BY <1>2, <1>4, <1>9, <2>2
    <3> QED BY <1>5, <3>1
  <2>3. CASE k \in 1 .. n /\ k # n
    <3>1. n \in 1 .. n /\ k + 1 \in 1 .. n /\ k # n + 1 /\ n # 0
      BY <2>3
    <3>2. r[k] = l[k] /\ r[k + 1] = l[k + 1] /\ l[k] # a /\ l[k] \in Slots
      BY <1>2, <1>4, <2>3, <3>1
    <3>3. l[k] # l[n] /\ r_debug_tail = l[n]
      BY <1>1, <1>9, <2>3, <3>1 DEF Doubly, Once
    <3> QED BY <1>5, <1>10, <2>3, <3>1, <3>2, <3>3
  <2> QED BY <1>6, <2>1, <2>2, <2>3
<1>13. Doubly(r, l_prev', l_next', r_debug_tail')
  <2>1. Len(r) # 0 /\ r_debug_tail' = r[Len(r)]
    BY <1>4, <1>5
  <2> QED BY <1>4, <1>8, <1>11, <1>12, <2>1 DEF Doubly
<1>14. \A s \in Slots : s \notin On(l) /\ s # a => s # r_debug_tail
  BY <1>2, PoolEntries
<1> QED BY <1>4, <1>5, <1>7, <1>13, <1>14

(* remove_soinfo_from_debug_map takes out an entry that is there,          *)
LEMMA LinkRemoved ==
  ASSUME NEW l, Doubly(l, l_prev, l_next, r_debug_tail), l_prev \in Links, l_next \in Links,
         NEW a \in On(l), RemoveLinkMap(a)
  PROVE  /\ \E r \in Seq(Slots) :
              Doubly(r, l_prev', l_next', r_debug_tail') /\ On(r) = On(l) \ {a}
         /\ l_prev' \in Links /\ l_next' \in Links
         /\ \A s \in Slots : s \notin On(l) => l_prev'[s] = l_prev[s] /\ l_next'[s] = l_next[s]
<1>1. PICK n \in Nat : n = Len(l)
  BY DoublyFields
<1>2. /\ \A k \in 1 .. n : l[k] \in Slots /\ l[k] # NULL
      /\ On(l) = { l[k] : k \in 1 .. n } /\ l \in Seq(Slots)
      /\ \A k \in 1 .. n : l_prev[l[k]] \in On(l) \cup {NULL} /\ l_next[l[k]] \in On(l) \cup {NULL}
  <2>1. /\ \A k \in 1 .. Len(l) : l[k] \in Slots /\ l[k] # NULL
        /\ On(l) = { l[k] : k \in 1 .. Len(l) }
        /\ \A k \in 1 .. Len(l) :
             l_prev[l[k]] \in On(l) \cup {NULL} /\ l_next[l[k]] \in On(l) \cup {NULL}
    BY DoublyFields
  <2>2. l \in Seq(Slots)
    BY DEF Doubly
  <2> QED BY <1>1, <2>1, <2>2
<1>3. PICK m \in 1 .. n : a = l[m]
  BY <1>2
<1>4. PICK r : r = Unlinked(l, m)
  OBVIOUS
<1>5. /\ r \in Seq(Slots) /\ Len(r) = n - 1
      /\ \A i \in 1 .. n - 1 : r[i] = IF i < m THEN l[i] ELSE l[i + 1]
  BY <1>1, <1>2, <1>4, UnlinkedList
<1>6. \A i, j \in 1 .. n : l[i] = l[j] => i = j
  BY <1>1 DEF Doubly, Once
<1>7. \A k \in 1 .. n : /\ l_prev[l[k]] = IF k = 1 THEN NULL ELSE l[k - 1]
                        /\ l_next[l[k]] = IF k = n THEN NULL ELSE l[k + 1]
  BY <1>1 DEF Doubly
<1>8. /\ r_debug_tail = l[n] /\ n \in 1 .. n
  BY <1>1, <1>3 DEF Doubly
<1>9. PICK p, q : p = l_prev[a] /\ q = l_next[a]
  OBVIOUS
<1>10. /\ p = IF m = 1 THEN NULL ELSE l[m - 1]
       /\ q = IF m = n THEN NULL ELSE l[m + 1]
       /\ p \in On(l) \cup {NULL} /\ q \in On(l) \cup {NULL}
  BY <1>2, <1>3, <1>7, <1>9
<1>11. /\ \A s \in Slots : l_next'[s] = IF s = p THEN q ELSE l_next[s]
       /\ \A s \in Slots : l_prev'[s] = IF s = q THEN p ELSE l_prev[s]
       /\ l_prev' \in Links /\ l_next' \in Links
       /\ r_debug_tail' = IF r_debug_tail = a THEN p ELSE r_debug_tail
  <2>1. p \in Slots \cup {NULL} /\ q \in Slots \cup {NULL}
    BY <1>2, <1>10
  <2> QED BY <1>9, <2>1 DEF RemoveLinkMap, Links
<1>12. /\ \A i \in 1 .. n : l[i] = p <=> (m # 1 /\ i = m - 1)
       /\ \A i \in 1 .. n : l[i] = q <=> (m # n /\ i = m + 1)
  <2>1. m # 1 => m - 1 \in 1 .. n
    BY <1>3
  <2>2. m # n => m + 1 \in 1 .. n
    BY <1>3
  <2> QED BY <1>2, <1>6, <1>10, <2>1, <2>2
<1>13. ASSUME NEW i \in 1 .. n - 1
       PROVE  /\ l_prev'[r[i]] = IF i = 1 THEN NULL ELSE r[i - 1]
              /\ l_next'[r[i]] = IF i = n - 1 THEN NULL ELSE r[i + 1]
  <2>1. i \in Nat /\ i \in 1 .. n /\ i + 1 \in 1 .. n /\ m \in Nat
    OBVIOUS
  <2>2. CASE i < m
    <3>1. r[i] = l[i] /\ l[i] \in Slots
      BY <1>2, <1>5, <2>1, <2>2
    <3>2. l[i] # q
      BY <1>12, <2>1, <2>2
    <3>3. l_prev'[r[i]] = IF i = 1 THEN NULL ELSE l[i - 1]
      BY <1>7, <1>11, <2>1, <3>1, <3>2
    <3>4. i # 1 => i - 1 \in 1 .. n - 1 /\ i - 1 < m
      BY <2>1, <2>2
    <3>5. l_prev'[r[i]] = IF i = 1 THEN NULL ELSE r[i - 1]
      BY <1>5, <3>3, <3>4
    <3>6. CASE i = m - 1
      <4>1. l_next'[r[i]] = q
        BY <1>11, <1>12, <2>1, <2>2, <3>1, <3>6
      <4>2. i = n - 1 <=> m = n
        BY <2>1, <3>6
      <4>3. i # n - 1 => i + 1 \in 1 .. n - 1 /\ ~(i + 1 < m) /\ (i + 1) + 1 = m + 1
        BY <2>1, <3>6
      <4> QED BY <1>5, <1>10, <3>5, <4>1, <4>2, <4>3
    <3>7. CASE i # m - 1
      <4>1. l_next'[r[i]] = l_next[l[i]]
        BY <1>11, <1>12, <2>1, <3>1, <3>7
      <4>2. i # n /\ i # n - 1 /\ i + 1 \in 1 .. n - 1 /\ i + 1 < m
        BY <2>1, <2>2, <3>7
      <4> QED BY <1>5, <1>7, <2>1, <3>5, <4>1, <4>2
    <3> QED BY <3>6, <3>7
  <2>3. CASE ~(i < m)
    <3>1. r[i] = l[i + 1] /\ l[i + 1] \in Slots
      BY <1>2, <1>5, <2>1, <2>3
    <3>2. l[i + 1] # p
      BY <1>12, <2>1, <2>3
    <3>3. l_next'[r[i]] = IF i + 1 = n THEN NULL ELSE l[(i + 1) + 1]
      BY <1>7, <1>11, <2>1, <3>1, <3>2
    <3>4. i # n - 1 => i + 1 \in 1 .. n - 1 /\ ~(i + 1 < m)
      BY <2>1, <2>3
    <3>5. i + 1 = n <=> i = n - 1
      BY <2>1
    <3>6. l_next'[r[i]] = IF i = n - 1 THEN NULL ELSE r[i + 1]
      BY <1>5, <3>3, <3>4, <3>5
    <3>7. CASE i = m
      <4>1. m # n
        BY <2>1, <3>7
      <4>2. l_prev'[r[i]] = p
        BY <1>11, <1>12, <2>1, <3>1, <3>7, <4>1
      <4>3. i # 1 => i - 1 \in 1 .. n - 1 /\ i - 1 < m
        BY <2>1, <3>7
      <4> QED BY <1>5, <1>10, <3>6, <3>7, <4>2, <4>3
    <3>8. CASE i # m
      <4>1. i + 1 # m + 1 /\ i + 1 # 1 /\ (i + 1) - 1 = i
        BY <2>1, <3>8
      <4>2. l_prev'[r[i]] = l[i]
        BY <1>7, <1>11, <1>12, <2>1, <3>1, <4>1
      <4>3. i # 1 /\ i - 1 \in 1 .. n - 1 /\ ~(i - 1 < m) /\ (i - 1) + 1 = i
        BY <2>1, <2>3, <3>8
      <4> QED BY <1>5, <3>6, <4>2, <4>3
    <3> QED BY <3>7, <3>8
  <2> QED BY <2>2, <2>3
<1>14. r_debug_tail' = IF n - 1 = 0 THEN NULL ELSE r[n - 1]
  <2>1. CASE m = n
    <3>1. r_debug_tail' = p
      BY <1>3, <1>8, <1>11, <2>1
    <3>2. m = 1 <=> n - 1 = 0
      BY <2>1
    <3>3. m # 1 => n - 1 \in 1 .. n - 1 /\ n - 1 < m
      BY <2>1
    <3> QED BY <1>5, <1>10, <2>1, <3>1, <3>2, <3>3
  <2>2. CASE m # n
    <3>1. r_debug_tail' = l[n]
      BY <1>3, <1>6, <1>8, <1>11, <2>2
    <3>2. n - 1 # 0 /\ n - 1 \in 1 .. n - 1 /\ ~(n - 1 < m) /\ (n - 1) + 1 = n
      BY <2>2
    <3> QED BY <1>5, <3>1, <3>2
  <2> QED BY <2>1, <2>2
<1>15. /\ \A i \in 1 .. Len(r) : Past(i, m) \in 1 .. n /\ Past(i, m) # m /\ r[i] = l[Past(i, m)]
       /\ \A i, j \in 1 .. Len(r) : Past(i, m) = Past(j, m) => i = j
       /\ \A j \in 1 .. n : j # m => \E i \in 1 .. Len(r) : r[i] = l[j]
  <2>1. m \in 1 .. Len(l) /\ l \in Seq(Slots)
    BY <1>1, <1>2
  <2>2. LeftOf(r, l, m)
    BY <1>4, <2>1, UnlinkedLeft
  <2> QED BY <1>1, <2>2 DEF LeftOf
<1>16. Once(r)
  <2>1. ASSUME NEW i \in 1 .. Len(r), NEW j \in 1 .. Len(r), r[i] = r[j] PROVE i = j
    <3>1. PICK x, y : x = Past(i, m) /\ y = Past(j, m)
      OBVIOUS
    <3>2. x \in 1 .. n /\ r[i] = l[x]
      BY <1>15, <3>1
    <3>3. y \in 1 .. n /\ r[j] = l[y]
      BY <1>15, <3>1
    <3>4. x = y
      BY <1>6, <2>1, <3>2, <3>3
    <3> QED BY <1>15, <3>1, <3>4
  <2> QED BY <2>1 DEF Once
<1>17. On(r) = On(l) \ {a}
  <2>1. On(r) = { r[k] : k \in 1 .. Len(r) }
    BY SMTT(20), <1>5 DEF On
  <2>2. ASSUME NEW i \in 1 .. Len(r) PROVE r[i] \in On(l) /\ r[i] # a
    <3>1. PICK j \in 1 .. n : j = Past(i, m) /\ j # m /\ r[i] = l[j]
      BY <1>15
    <3> QED BY <1>2, <1>3, <1>6, <3>1
  <2>3. ASSUME NEW j \in 1 .. n, l[j] # a PROVE l[j] \in On(r)
    BY <1>3, <1>15, <2>1, <2>3
  <2> QED BY SMTT(20), <1>2, <2>1, <2>2, <2>3
<1>18. Doubly(r, l_prev', l_next', r_debug_tail')
  BY <1>5, <1>13, <1>14, <1>16 DEF Doubly
<1>19. \A s \in Slots : s \notin On(l) => s # p /\ s # q
  BY <1>10, PoolEntries
<1> QED BY <1>5, <1>11, <1>17, <1>18, <1>19

(* and does nothing for one that is not linked to anything;                *)
LEMMA LinkAbsent ==
  ASSUME NEW l, Doubly(l, l_prev, l_next, r_debug_tail), l_prev \in Links, l_next \in Links,
         NEW a \in Slots, a \notin On(l), l_prev[a] = NULL, l_next[a] = NULL, RemoveLinkMap(a)
  PROVE  l_prev' = l_prev /\ l_next' = l_next /\ r_debug_tail' = r_debug_tail
<1>1. r_debug_tail # a
  BY DoublyFields, PoolEntries
<1>2. \A s \in Slots : s # NULL
  BY PoolEntries
<1> QED BY <1>1, <1>2 DEF RemoveLinkMap, Links

(* clearing one that is not on the list does not touch the list.           *)
LEMMA LinkCleared ==
  ASSUME NEW l, Doubly(l, l_prev, l_next, r_debug_tail), l_prev \in Links, l_next \in Links,
         NEW a \in Slots, a \notin On(l), ClearLinkMap(a)
  PROVE  /\ Doubly(l, l_prev', l_next', r_debug_tail')
         /\ l_prev' \in Links /\ l_next' \in Links
         /\ l_prev'[a] = NULL /\ l_next'[a] = NULL
         /\ \A s \in Slots : s # a => l_prev'[s] = l_prev[s] /\ l_next'[s] = l_next[s]
<1>1. /\ l_prev' \in Links /\ l_next' \in Links
      /\ l_prev'[a] = NULL /\ l_next'[a] = NULL /\ r_debug_tail' = r_debug_tail
      /\ \A s \in Slots : s # a => l_prev'[s] = l_prev[s] /\ l_next'[s] = l_next[s]
  BY DEF ClearLinkMap, Links
<1>2. \A k \in 1 .. Len(l) : l[k] \in Slots /\ l[k] # a
  BY DoublyFields
<1> QED BY <1>1, <1>2 DEF Doubly

(* What the debugger is told of: the libraries linked from a file and not  *)
(* yet unmapped.                                                           *)
TrackedIn(x) == x.linked /\ ~x.error /\ x.image = "mapped"
Tracked(x, on) == { s \in on : TrackedIn(x[s]) }
OnDebug(x, on) ==
  /\ \E l \in Seq(Slots) : Doubly(l, l_prev, l_next, r_debug_tail) /\ On(l) = Tracked(x, on)
  /\ \A s \in on : ~TrackedIn(x[s]) => l_prev[s] = NULL /\ l_next[s] = NULL
DebugInv == l_prev \in Links /\ l_next \in Links /\ OnDebug(info, On(Solist))

(* What is on solist are slots.                                            *)
LEMMA SolistSlots ==
  ASSUME TypeInv
  PROVE  On(Solist) \subseteq Slots
BY ListsRight DEF TypeInv, On

(* A step that does not touch the debugger's list, nor what it lists.      *)
LEMMA DebugQuiet ==
  ASSUME TypeInv, TypeInv', DebugInv, UNCHANGED debugMap,
         On(Solist)' \subseteq On(Solist),
         \A s \in Slots : s \in On(Solist) =>
           /\ s \in On(Solist)' => (TrackedIn(info'[s]) <=> TrackedIn(info[s]))
           /\ s \notin On(Solist)' => ~TrackedIn(info[s])
  PROVE  DebugInv'
<1>1. l_prev' = l_prev /\ l_next' = l_next /\ r_debug_tail' = r_debug_tail
  BY DEF debugMap
<1>2. PICK on, was : on = On(Solist)' /\ was = On(Solist) /\ on \subseteq was /\ was \subseteq Slots
  BY SolistSlots
<1>3. PICK y : y = info'
  OBVIOUS
<1>4. Tracked(y, on) = Tracked(info, was)
  BY <1>2, <1>3 DEF Tracked
<1>5. OnDebug(info, was)
  BY <1>2 DEF DebugInv
<1>6. OnDebug(y, on)
  BY <1>2, <1>3, <1>4, <1>5 DEF OnDebug
<1> QED BY <1>1, <1>2, <1>3, <1>6 DEF DebugInv, OnDebug

(* A new entry of solist.                                                  *)
LEMMA DebugNew ==
  ASSUME TypeInv, TypeInv', DebugInv, NEW a \in Slots, a \notin On(Solist),
         On(Solist)' = On(Solist) \cup {a}, Only(a), ~TrackedIn(info'[a]), ClearLinkMap(a)
  PROVE  DebugInv'
<1>1. PICK on, was : on = On(Solist)' /\ was = On(Solist) /\ on = was \cup {a} /\ a \notin was
                     /\ was \subseteq Slots
  BY SolistSlots
<1>2. PICK y : y = info' /\ ~TrackedIn(y[a]) /\ \A s \in was : y[s] = info[s]
  BY <1>1 DEF Only
<1>3. Tracked(y, on) = Tracked(info, was)
  BY <1>1, <1>2 DEF Tracked
<1>4. PICK l \in Seq(Slots) : Doubly(l, l_prev, l_next, r_debug_tail) /\ On(l) = Tracked(info, was)
  BY <1>1 DEF DebugInv, OnDebug
<1>5. a \notin On(l)
  BY <1>1, <1>4 DEF Tracked
<1>6. l_prev \in Links /\ l_next \in Links
  BY DEF DebugInv
<1>7. /\ Doubly(l, l_prev', l_next', r_debug_tail')
      /\ l_prev' \in Links /\ l_next' \in Links
      /\ l_prev'[a] = NULL /\ l_next'[a] = NULL
      /\ \A s \in Slots : s # a => l_prev'[s] = l_prev[s] /\ l_next'[s] = l_next[s]
  BY <1>4, <1>5, <1>6, LinkCleared
<1>8. ASSUME NEW s \in on, ~TrackedIn(y[s]) PROVE l_prev'[s] = NULL /\ l_next'[s] = NULL
  <2>1. CASE s = a
    BY <1>7, <2>1
  <2>2. CASE s # a
    BY <1>1, <1>2, <1>7, <1>8, <2>2 DEF DebugInv, OnDebug
  <2> QED BY <2>1, <2>2
<1> QED BY <1>1, <1>2, <1>3, <1>4, <1>7, <1>8 DEF DebugInv, OnDebug

(* link_image has linked a library.                                        *)
LEMMA DebugLinked ==
  ASSUME TypeInv, TypeInv', WorkInv, DebugInv, LinkFinish, ~LinkFail(TRUE)
  PROVE  DebugInv'
<1>1. /\ InsertLinkMap(Top.si) /\ UNCHANGED lists /\ stack # << >>
      /\ Top.fn = "link_image" /\ Top.si \in PoolEntry
      /\ SameError /\ SameImage /\ info'[Top.si].linked
      /\ \A s \in Slots : s # Top.si => info'[s].linked = info[s].linked
  BY LinkedStep, LinkedFields
<1>2. PICK a \in Slots : a = Top.si
  BY <1>1, PoolEntries
<1>3. /\ a \in On(Solist)
      /\ info[a].image = "mapped" /\ ~info[a].linked /\ ~info[a].error
  <2>1. Top = stack[Len(stack)] /\ Len(stack) \in 1 .. Len(stack) /\ a # NULL
    BY <1>1, <1>2, StackLength, PoolEntries DEF Top
  <2> QED BY <1>1, <1>2, <2>1 DEF WorkInv, Placed, PlacedAt, Linking, LinkingOf
<1>4. PICK on : on = On(Solist)' /\ on = On(Solist) /\ on \subseteq Slots
  BY <1>1, ListsSame, SolistSlots
<1>5. PICK y : y = info' /\ TrackedIn(y[a])
               /\ \A s \in on : s # a => (TrackedIn(y[s]) <=> TrackedIn(info[s]))
  BY <1>1, <1>2, <1>3, <1>4 DEF TrackedIn, SameError, SameImage
<1>6. ~TrackedIn(info[a])
  BY <1>3 DEF TrackedIn
<1>7. Tracked(y, on) = Tracked(info, on) \cup {a}
  BY <1>3, <1>4, <1>5, <1>6 DEF Tracked
<1>8. PICK l \in Seq(Slots) : Doubly(l, l_prev, l_next, r_debug_tail) /\ On(l) = Tracked(info, on)
  BY <1>4 DEF DebugInv, OnDebug
<1>9. a \notin On(l) /\ l_prev \in Links /\ l_next \in Links
  BY <1>6, <1>8 DEF Tracked, DebugInv
<1>10. /\ \E r \in Seq(Slots) :
            Doubly(r, l_prev', l_next', r_debug_tail') /\ On(r) = On(l) \cup {a}
       /\ l_prev' \in Links /\ l_next' \in Links
       /\ \A s \in Slots : s \notin On(l) /\ s # a =>
            l_prev'[s] = l_prev[s] /\ l_next'[s] = l_next[s]
  BY <1>1, <1>2, <1>8, <1>9, LinkInserted
<1>11. ASSUME NEW s \in on, ~TrackedIn(y[s]) PROVE l_prev'[s] = NULL /\ l_next'[s] = NULL
  <2>1. s # a /\ ~TrackedIn(info[s]) /\ s \in Slots
    BY <1>4, <1>5, <1>11
  <2>2. s \notin On(l)
    BY <1>8, <2>1 DEF Tracked
  <2> QED BY <1>4, <1>10, <2>1, <2>2 DEF DebugInv, OnDebug
<1> QED BY <1>4, <1>5, <1>7, <1>8, <1>10, <1>11 DEF DebugInv, OnDebug

(* unload_library frees one, whether the debugger knows it or not.         *)
LEMMA DebugFreed ==
  ASSUME TypeInv, TypeInv', UseInv, DebugInv, UnloadFree
  PROVE  DebugInv'
<1>1. /\ RemoveLinkMap(Top.si) /\ stack # << >> /\ Top.fn = "unload" /\ Top.si \in PoolEntry
      /\ Top.i > 0 /\ On(Solist)' = On(Solist) \ {Top.si}
      /\ SameLinked /\ SameError
      /\ \A s \in Slots : s # Top.si => info'[s].image = info[s].image
  BY UnloadFreeStep, UnloadFreeFields
<1>2. PICK a \in Slots : a = Top.si
  BY <1>1, PoolEntries
<1>3. info[Top.si].refcount = 1
  BY <1>1, UnloadTop DEF Alone
<1>4. a \in On(Solist)
  BY <1>1, <1>2, <1>3, LastUser
<1>5. PICK on, was : on = On(Solist)' /\ was = On(Solist) /\ on = was \ {a} /\ was \subseteq Slots
                     /\ a \in was
  BY <1>1, <1>2, <1>4, SolistSlots
<1>6. PICK y : y = info' /\ \A s \in on : TrackedIn(y[s]) <=> TrackedIn(info[s])
  BY <1>1, <1>2, <1>5 DEF TrackedIn, SameLinked, SameError
<1>7. PICK l \in Seq(Slots) : Doubly(l, l_prev, l_next, r_debug_tail) /\ On(l) = Tracked(info, was)
  BY <1>5 DEF DebugInv, OnDebug
<1>8. l_prev \in Links /\ l_next \in Links
  BY DEF DebugInv
<1>9. Tracked(y, on) = Tracked(info, was) \ {a}
  BY <1>5, <1>6 DEF Tracked
<1>10. \A s \in on : ~TrackedIn(y[s]) =>
         s \notin On(l) /\ s \in Slots /\ l_prev[s] = NULL /\ l_next[s] = NULL
  BY <1>5, <1>6, <1>7 DEF Tracked, DebugInv, OnDebug
<1>11. CASE a \in On(l)
  <2>1. /\ \E r \in Seq(Slots) :
             Doubly(r, l_prev', l_next', r_debug_tail') /\ On(r) = On(l) \ {a}
        /\ l_prev' \in Links /\ l_next' \in Links
        /\ \A s \in Slots : s \notin On(l) => l_prev'[s] = l_prev[s] /\ l_next'[s] = l_next[s]
    BY <1>1, <1>2, <1>7, <1>8, <1>11, LinkRemoved
  <2>2. \A s \in on : ~TrackedIn(y[s]) => l_prev'[s] = NULL /\ l_next'[s] = NULL
    BY <1>10, <2>1
  <2> QED BY <1>5, <1>6, <1>7, <1>9, <2>1, <2>2 DEF DebugInv, OnDebug
<1>12. CASE a \notin On(l)
  <2>1. l_prev[a] = NULL /\ l_next[a] = NULL
    BY <1>5, <1>7, <1>12 DEF Tracked, DebugInv, OnDebug
  <2>2. l_prev' = l_prev /\ l_next' = l_next /\ r_debug_tail' = r_debug_tail
    BY <1>1, <1>2, <1>7, <1>8, <1>12, <2>1, LinkAbsent
  <2>3. On(l) = Tracked(y, on)
    BY <1>7, <1>9, <1>12
  <2> QED BY <1>5, <1>6, <1>7, <1>8, <1>10, <2>2, <2>3 DEF DebugInv, OnDebug
<1> QED BY <1>11, <1>12

(* At first the debugger's list is empty.                                  *)
LEMMA DebugInitially ==
  ASSUME Init
  PROVE  DebugInv
<1>1. l_prev \in Links /\ l_next \in Links /\ r_debug_tail = NULL
      /\ \A s \in Slots : l_prev[s] = NULL /\ l_next[s] = NULL
  BY DEF Init, DebugMapInit, Links
<1>2. ASSUME NEW s \in Slots PROVE ~TrackedIn(info[s])
  <2>1. PICK m \in Libraries : info[s] = Stub(m) \/ info[s] = Soinfo(m)
    BY InfoInitially
  <2> QED BY <2>1, SoinfoMade DEF TrackedIn
<1>3. On(Solist) \subseteq Slots
  BY CountsInitially, SolistSlots DEF CountInv
<1>4. Tracked(info, On(Solist)) = {}
  BY <1>2, <1>3 DEF Tracked
<1>5. PICK l \in Seq(Slots) : l = << >> /\ Len(l) = 0 /\ On(l) = {}
  <2>1. << >> \in Seq(Slots) /\ Len(<< >>) = 0 /\ DOMAIN << >> = {}
    OBVIOUS
  <2>2. On(<< >>) = {}
    BY <2>1 DEF On
  <2> QED BY <2>1, <2>2
<1>6. Doubly(l, l_prev, l_next, r_debug_tail)
  BY <1>1, <1>5 DEF Doubly, Once
<1> QED BY <1>1, <1>3, <1>4, <1>5, <1>6 DEF DebugInv, OnDebug

(* Every step keeps the debugger's list exact.                             *)
LEMMA DebugStep ==
  ASSUME LibDLUnnamed, CountInv, TypeInv', DebugInv, [Next]_vars
  PROVE  DebugInv'
<1> USE DEF CountInv
<1>1. ASSUME UNCHANGED << lists, debugMap >>,
             \A s \in Slots : TrackedIn(info'[s]) <=> TrackedIn(info[s])
      PROVE  DebugInv'
  BY <1>1, DebugQuiet, ListsSame
<1>2. SameLinked /\ SameError /\ SameImage =>
        \A s \in Slots : TrackedIn(info'[s]) <=> TrackedIn(info[s])
  BY DEF SameLinked, SameError, SameImage, TrackedIn
<1>3. info' = info => \A s \in Slots : TrackedIn(info'[s]) <=> TrackedIn(info[s])
  OBVIOUS
<1>4. CASE UNCHANGED vars
  BY <1>1, <1>3, <1>4 DEF vars, pool
<1>5. ASSUME NEW n \in Opened, Dlopen(n) PROVE DebugInv'
  BY <1>1, <1>3, <1>5, DlopenStep
<1>6. ASSUME NEW s \in Slots, Dlclose(s) PROVE DebugInv'
  BY <1>1, <1>3, <1>6, DlcloseStep
<1>7. ASSUME NEW s \in Slots, LibraryDestroy(s) PROVE DebugInv'
  <2>1. /\ info' = info /\ UNCHANGED debugMap /\ info[s].image = "none"
        /\ On(Solist)' = On(Solist) \ {s}
    BY <1>7, LibraryDestroyStep
  <2>2. ~TrackedIn(info[s])
    BY <2>1 DEF TrackedIn
  <2> QED BY <2>1, <2>2, DebugQuiet
<1>8. ASSUME NEW n \in Stubs, LibraryCreate(n) PROVE DebugInv'
  <2>1. n \in Libraries
    BY <1>8, LibraryCreateStep
  <2>2. PICK a \in PoolEntry :
          /\ a \notin On(Solist) /\ On(Solist)' = On(Solist) \cup {a}
          /\ Only(a) /\ info'[a] = Stub(n) /\ ClearLinkMap(a)
    BY <1>8, LibraryCreateStep
  <2>3. ~TrackedIn(info'[a]) /\ a \in Slots
    BY <2>1, <2>2, SoinfoMade, PoolEntries DEF TrackedIn
  <2> QED BY <2>2, <2>3, DebugNew
<1>9. CASE FindLibrary
  BY <1>1, <1>3, <1>9, FindLibraryStep
<1>10. CASE LoadRefused
  BY <1>1, <1>3, <1>10, LoadRefusedStep
<1>11. CASE LoadAlloc
  <2>1. CASE UNCHANGED << lists, info, debugMap >>
    BY <1>1, <1>3, <2>1
  <2>2. CASE ~UNCHANGED << lists, info, debugMap >>
    <3>1. PICK a \in PoolEntry :
            /\ a \notin On(Solist) /\ On(Solist)' = On(Solist) \cup {a}
            /\ Only(a) /\ info'[a] = Soinfo(Top.name) /\ Top.name \in Libraries
            /\ ClearLinkMap(a)
      BY <1>11, <2>2, LoadAllocStep
    <3>2. ~TrackedIn(info'[a]) /\ a \in Slots
      BY <3>1, SoinfoMade, PoolEntries DEF TrackedIn
    <3> QED BY <3>1, <3>2, DebugNew
  <2> QED BY <2>1, <2>2
<1>12. ASSUME stack # << >>, Top.fn = "load_library", Top.si # NULL
       PROVE  Top.si \in Slots /\ ~info[Top.si].linked
  <2>1. Top \in Frames
    BY <1>12, StackLength DEF Top
  <2>2. Top.si \in Slots /\ Top.name \in Libraries
    BY <1>12, <2>1, FrameFields, PoolEntries
  <2> QED BY <1>12, <2>2, SoinfoMade DEF WorkInv, Loading, InFn
<1>13. ASSUME stack # << >>, Top.fn = "link_image" PROVE Top.si \in Slots /\ ~info[Top.si].linked
  <2>1. Top \in Frames /\ Top = stack[Len(stack)] /\ Len(stack) \in 1 .. Len(stack)
    BY <1>13, StackLength DEF Top
  <2>2. "link_image" \in Holding
    BY DEF Holding
  <2> QED BY <1>13, <2>1, <2>2, FrameFields, PoolEntries DEF WorkInv, Linking, LinkingOf
<1>14. CASE LoadSegments
  <2>1. /\ stack # << >> /\ Top.fn = "load_library" /\ Top.si # NULL
        /\ UNCHANGED << lists, debugMap >> /\ SameLinked /\ SameError
        /\ \A s \in Slots : s # Top.si => info'[s].image = info[s].image
    BY <1>14, LoadSegmentsStep, LoadSegmentsFields, PoolEntries
  <2>2. \A s \in Slots : TrackedIn(info'[s]) <=> TrackedIn(info[s])
    BY <1>12, <2>1 DEF TrackedIn, SameLinked, SameError
  <2> QED BY <1>1, <2>1, <2>2
<1>15. CASE LoadFails
  <2>1. /\ stack # << >> /\ Top.fn = "load_library" /\ Top.si # NULL
        /\ UNCHANGED debugMap /\ info' = info
        /\ On(Solist)' = On(Solist) \ {Top.si}
    BY <1>15, LoadFailsStep, PoolEntries
  <2>2. ~TrackedIn(info[Top.si])
    BY <1>12, <2>1 DEF TrackedIn
  <2> QED BY <2>1, <2>2, DebugQuiet
<1>16. CASE LinkFails
  <2>1. /\ stack # << >> /\ Top.fn = "link_image" /\ UNCHANGED << lists, debugMap >>
        /\ info'[Top.si].error
        /\ \A s \in Slots : s # Top.si => /\ info'[s].image = info[s].image
                                          /\ info'[s].linked = info[s].linked
                                          /\ info'[s].error = info[s].error
    BY <1>16, LinkFailStep, LinkFailFields
  <2>2. \A s \in Slots : TrackedIn(info'[s]) <=> TrackedIn(info[s])
    BY <1>13, <2>1 DEF TrackedIn
  <2> QED BY <1>1, <2>1, <2>2
<1>17. CASE LinkFind
  BY <1>1, <1>3, <1>17, LinkFindStep
<1>18. CASE LinkNeeded /\ ret # NULL
  BY <1>1, <1>2, <1>18, LinkNeededStep, LinkNeededFields
<1>19. CASE LinkFinish /\ ~LinkFail(TRUE)
  BY <1>19, DebugLinked
<1>20. CASE DlopenFound
  BY <1>1, <1>3, <1>20, DlopenFoundStep
<1>21. CASE DlopenReturn
  BY <1>1, <1>2, <1>21, DlopenReturnStep, DlopenReturnFields
<1>22. CASE CtorEnter
  BY <1>1, <1>2, <1>22, CtorEnterStep, CtorEnterFields
<1>23. CASE CtorNeeded
  BY <1>1, <1>3, <1>23, CtorNeededStep
<1>24. CASE CtorInit
  BY <1>1, <1>3, <1>24, CtorInitStep
<1>25. CASE InitReturns
  BY <1>1, <1>2, <1>25, InitReturnsStep, InitReturnsFields
<1>26. CASE UnloadEnter
  BY <1>1, <1>2, <1>3, <1>26, UnloadEnterStep, UnloadEnterFields
<1>27. CASE FiniReturns
  BY <1>1, <1>2, <1>27, FiniReturnsStep, FiniReturnsFields
<1>28. CASE UnloadNeeded
  BY <1>1, <1>2, <1>28, UnloadNeededStep, UnloadNeededFields
<1>29. CASE UnloadFree
  BY <1>29, DebugFreed
<1>30. CASE Inside
  BY <1>9, <1>10, <1>11, <1>14, <1>15, <1>16, <1>17, <1>18, <1>19, <1>20, <1>21,
     <1>22, <1>23, <1>24, <1>25, <1>26, <1>27, <1>28, <1>29, <1>30, InsideCases
<1> QED BY <1>4, <1>5, <1>6, <1>7, <1>8, <1>30 DEF Next

(* The list of the debugger, walked back from its tail, or forward from    *)
(* r_map while r_map is its first entry, has exactly the libraries that    *)
(* were linked from a file and are still mapped.                           *)
THEOREM DebugListAlwaysExact ==
  ASSUME LibDLUnnamed
  PROVE  Spec => []DebugListExact
<1> DEFINE I == CountInv /\ DebugInv
<1>1. Init => I
  BY CountsInitially, DebugInitially
<1>2. I /\ [Next]_vars => I'
  BY CountsStep, DebugStep DEF CountInv
<1>3. I => DebugListExact
  <2>1. SUFFICES ASSUME DebugInv PROVE DebugListExact
    OBVIOUS
  <2>2. PICK l \in Seq(Slots) :
          Doubly(l, l_prev, l_next, r_debug_tail) /\ On(l) = Tracked(info, On(Solist))
    BY <2>1 DEF DebugInv, OnDebug
  <2>3. FromTail = Tracked(info, On(Solist))
    BY <2>1, <2>2, WalkedBack DEF DebugInv
  <2>4. ASSUME r_map \in On(l), l_prev[r_map] = NULL PROVE FromHead = On(l)
    <3>1. /\ Len(l) \in Nat /\ \A k \in 1 .. Len(l) : l[k] # NULL
          /\ On(l) = { l[k] : k \in 1 .. Len(l) }
          /\ \A k \in 1 .. Len(l) : k # 1 => k - 1 \in 1 .. Len(l)
      BY <2>2, DoublyFields
    <3>2. PICK k \in 1 .. Len(l) : r_map = l[k]
      BY <2>4, <3>1
    <3>3. k # 1 => l_prev[l[k]] = l[k - 1] /\ l[k - 1] # NULL
      BY <2>2, <3>1, <3>2 DEF Doubly
    <3>4. k = 1
      BY <2>4, <3>2, <3>3
    <3>5. Len(l) # 0
      BY <3>1, <3>2
    <3> QED BY <2>1, <2>2, <3>2, <3>4, <3>5, WalkedAhead DEF DebugInv
  <2> QED BY <2>2, <2>3, <2>4 DEF DebugListExact, Tracked, TrackedIn
<1> HIDE DEF I
<1> QED BY <1>1, <1>2, <1>3, PTL DEF Spec

-----------------------------------------------------------------------------
(* Nothing needs itself, directly or through others: link_image records a  *)
(* library only when it is linked, and whoever records it is not linked    *)
(* yet.  So there are ranks that descend from a library to what it needs,  *)
(* and along the constructors in progress.                                 *)
RankedDeps(rank, x) ==
  \A s \in Slots : \A i \in 1 .. Len(x[s].deps) :
    x[s].deps[i] # NULL => rank[x[s].deps[i]] < rank[s]
RankedFrames(rank, t) ==
  \A j, k \in 1 .. Len(t) :
    j < k /\ t[j].fn = "constructors" /\ t[k].fn \in {"constructors", "init"}
      => rank[t[k].si] < rank[t[j].si]
Acyclic == \E rank \in [Slots -> Nat] : RankedDeps(rank, info) /\ RankedFrames(rank, stack)

(* Without a constructor in progress any ranks will do.                    *)
LEMMA NoCtorRanked ==
  ASSUME NEW t, NoCtor(t) \/ Len(t) = 0, NEW rank
  PROVE  RankedFrames(rank, t)
BY DEF NoCtor, RankedFrames

(* Ranks descend along the stack after a return.                           *)
LEMMA RankedPops ==
  ASSUME TypeInv, NEW rank, RankedFrames(rank, stack), Pops(stack, stack')
  PROVE  RankedFrames(rank, stack')
<1>1. PICK n \in Nat : n = Len(stack)
  BY StackLength
<1>2. Len(stack') = n - 1 /\ \A k \in 1 .. n - 1 : stack'[k] = stack[k] /\ k \in 1 .. n
  BY <1>1 DEF Pops
<1> QED BY <1>1, <1>2 DEF RankedFrames

(* They do after a constructor moves on, and after it calls that of a      *)
(* library of a lower rank.                                                *)
LEMMA RankedCtor ==
  ASSUME TypeInv, stack # << >>, Top.fn = "constructors",
         NEW rank \in [Slots -> Nat], RankedFrames(rank, stack)
  PROVE  /\ \A fn, i, m : Moving(fn, Top.si, i, m) => RankedFrames(rank, stack')
         /\ \A i, s, m :
              Calling(Top.si, i, "constructors", s, m) /\ s \in Slots /\ rank[s] < rank[Top.si]
                => RankedFrames(rank, stack')
<1>1. PICK n \in Nat \ {0} : n = Len(stack)
  BY StackLength
<1>2. /\ Top = stack[n] /\ n \in 1 .. n /\ \A k \in 1 .. n - 1 : k \in 1 .. n /\ k < n
      /\ \A k \in 1 .. n : k = n \/ k \in 1 .. n - 1
      /\ \A k \in 1 .. n + 1 : k = n + 1 \/ k \in 1 .. n
  BY <1>1 DEF Top
<1>3. \A k \in 1 .. n : stack[k].si \in Slots \cup {NULL}
  BY <1>1, StackLength, FrameFields, PoolEntries
<1>4. Top.si \in Slots
  <2>1. Top \in Frames /\ "constructors" \in Holding
    BY <1>1, <1>2, StackLength DEF Holding
  <2> QED BY <2>1, FrameFields, PoolEntries
<1>5. \A k \in 1 .. n : stack[k].fn = "constructors" => stack[k].si \in Slots
  <2>1. \A k \in 1 .. n : stack[k] \in Frames
    BY <1>1, StackLength
  <2>2. "constructors" \in Holding
    BY DEF Holding
  <2> QED BY <2>1, <2>2, FrameFields, PoolEntries
<1>6. \A k \in 1 .. n - 1 : stack[k].fn = "constructors" => rank[Top.si] < rank[stack[k].si]
  BY <1>1, <1>2 DEF RankedFrames
<1>7. ASSUME NEW fn, NEW i, NEW m, Moving(fn, Top.si, i, m) PROVE RankedFrames(rank, stack')
  <2>1. PICK f \in Frames : Sets(stack, stack', f) /\ Is(f, fn, Top.si, i, m)
    BY <1>7 DEF Moving
  <2>2. /\ Len(stack') = n /\ stack'[n] = f /\ f.si = Top.si
        /\ \A k \in 1 .. n - 1 : stack'[k] = stack[k]
    BY <1>1, <2>1 DEF Sets, Is
  <2>3. \A k \in 1 .. n : stack'[k].si = stack[k].si
    BY <1>2, <2>2
  <2>4. \A j \in 1 .. n, k \in 1 .. n : j < k => j \in 1 .. n - 1
    OBVIOUS
  <2>5. ASSUME NEW j \in 1 .. n, NEW k \in 1 .. n, j < k, stack'[j].fn = "constructors",
               stack'[k].fn \in {"constructors", "init"}
        PROVE  rank[stack'[k].si] < rank[stack'[j].si]
    <3>1. j \in 1 .. n - 1 /\ stack[j].fn = "constructors"
      BY <2>2, <2>4, <2>5
    <3>2. CASE k = n
      BY <1>2, <1>6, <2>3, <2>5, <3>1, <3>2
    <3>3. CASE k \in 1 .. n - 1
      BY <1>1, <2>2, <2>3, <2>5, <3>1, <3>3 DEF RankedFrames
    <3> QED BY <1>2, <3>2, <3>3
  <2> QED BY <2>2, <2>5 DEF RankedFrames
<1>8. ASSUME NEW i, NEW s, NEW m, Calling(Top.si, i, "constructors", s, m), s \in Slots,
             rank[s] < rank[Top.si]
      PROVE  RankedFrames(rank, stack')
  <2>1. PICK f \in Frames, g \in Frames :
          /\ Calls(stack, stack', f, g) /\ Is(f, Top.fn, Top.si, i, Top.name)
          /\ Is(g, "constructors", s, 0, m)
    BY <1>8 DEF Calling
  <2>2. /\ Len(stack') = n + 1 /\ stack'[n] = f /\ stack'[n + 1] = g
        /\ f.si = Top.si /\ f.fn = Top.fn /\ g.si = s
        /\ \A k \in 1 .. n - 1 : stack'[k] = stack[k]
    BY <1>1, <2>1 DEF Calls, Is
  <2>3. \A k \in 1 .. n : stack'[k].si = stack[k].si /\ stack'[k].fn = stack[k].fn
    BY <1>2, <2>2
  <2>4. \A j \in 1 .. n + 1, k \in 1 .. n + 1 : j < k => j \in 1 .. n
    OBVIOUS
  <2>5. ASSUME NEW j \in 1 .. n + 1, NEW k \in 1 .. n + 1, j < k,
               stack'[j].fn = "constructors", stack'[k].fn \in {"constructors", "init"}
        PROVE  rank[stack'[k].si] < rank[stack'[j].si]
    <3>1. j \in 1 .. n /\ stack[j].fn = "constructors" /\ stack[j].si \in Slots
      BY <1>5, <2>3, <2>4, <2>5
    <3>2. CASE k = n + 1
      <4>1. rank[Top.si] <= rank[stack[j].si]
        BY <1>2, <1>4, <1>6, <3>1
      <4>2. rank[s] \in Nat /\ rank[Top.si] \in Nat /\ rank[stack[j].si] \in Nat
        BY <1>4, <1>8, <3>1
      <4> QED BY SMTT(20), <1>8, <2>2, <2>3, <3>1, <3>2, <4>1, <4>2
    <3>3. CASE k \in 1 .. n
      BY <1>1, <2>3, <2>5, <3>1, <3>3 DEF RankedFrames
    <3> QED BY <1>2, <3>2, <3>3
  <2> QED BY <2>2, <2>5 DEF RankedFrames
<1> QED BY <1>7, <1>8

(* Nothing is recorded of a library that is not linked.                    *)
LEMMA NotRecorded ==
  ASSUME TypeInv, UseInv, NeededPresent, NEW a \in Slots, a \notin On(Solist) \/ ~info[a].linked
  PROVE  \A s \in Slots : \A i \in 1 .. Len(info[s].deps) : info[s].deps[i] # a
<1>1. SUFFICES ASSUME NEW s \in Slots, NEW i \in 1 .. Len(info[s].deps), info[s].deps[i] = a
               PROVE  FALSE
  OBVIOUS
<1>2. a # NULL
  BY PoolEntries
<1>3. s \in On(Solist)
  BY <1>1, <1>2 DEF UseInv, OffList, Nothing
<1>4. Present(info, On(Solist))
  BY PresentIs
<1>5. UsableIn(info[a], a, On(Solist))
  BY <1>1, <1>2, <1>3, <1>4 DEF Present
<1> QED BY <1>5 DEF UsableIn

(* Fewer records need no new ranks.                                        *)
LEMMA AcyclicShrunk ==
  ASSUME NEW rank \in [Slots -> Nat], RankedDeps(rank, info), RankedFrames(rank, stack'),
         \A s \in Slots : \A i \in 1 .. Len(info'[s].deps) :
           info'[s].deps[i] # NULL =>
             i \in 1 .. Len(info[s].deps) /\ info'[s].deps[i] = info[s].deps[i]
  PROVE  Acyclic'
<1>1. PICK y : y = info'
  OBVIOUS
<1>2. RankedDeps(rank, y)
  BY SMTT(20), <1>1 DEF RankedDeps
<1> QED BY <1>1, <1>2 DEF Acyclic

(* A rank raised by another stays above what was below it.                 *)
LEMMA RankAdds == \A x, y, z \in Nat : x < y => x < y + z + 1
OBVIOUS

(* link_image records a library: the one being linked goes above it.       *)
LEMMA AcyclicRecorded ==
  ASSUME TypeInv, TypeInv', ShapeInv, WorkInv, UseInv, PresentInv, Acyclic,
         LinkNeeded, ret # NULL
  PROVE  Acyclic'
<1>1. /\ stack # << >> /\ Top.fn = "link_image" /\ Top.si \in PoolEntry /\ ret \in PoolEntry
      /\ Moving("link_image", Top.si, Top.i + 1, Top.name)
      /\ info'[Top.si].deps = Append(info[Top.si].deps, ret)
      /\ \A s \in Slots : s # Top.si => info'[s].deps = info[s].deps
  BY LinkNeededStep, LinkNeededFields
<1>2. PICK a \in Slots, d \in Slots : a = Top.si /\ d = ret /\ d # NULL
  BY SMTT(20), <1>1, PoolEntries
<1>3. ~info[a].linked
  <2>1. Top = stack[Len(stack)] /\ Len(stack) \in 1 .. Len(stack)
    BY <1>1, StackLength DEF Top
  <2> QED BY SMTT(20), <1>1, <1>2, <2>1 DEF WorkInv, Linking, LinkingOf
<1>4. a # d
  <2>1. UsableIn(info[d], d, On(Solist))
    BY <1>1, <1>2, PoolEntries DEF PresentInv, AskedInv, AskedRet
  <2> QED BY <1>3, <2>1 DEF UsableIn
<1>5. \A s \in Slots : \A i \in 1 .. Len(info[s].deps) : info[s].deps[i] # a
  BY <1>3, NotRecorded DEF PresentInv
<1>6. PICK rank \in [Slots -> Nat] : RankedDeps(rank, info)
  BY DEF Acyclic
<1>7. PICK new \in [Slots -> Nat] :
        /\ new[a] = rank[a] + rank[d] + 1
        /\ \A s \in Slots : s # a => new[s] = rank[s]
  <2>1. rank[a] + rank[d] + 1 \in Nat
    OBVIOUS
  <2>2. [rank EXCEPT ![a] = rank[a] + rank[d] + 1] \in [Slots -> Nat]
    BY <2>1
  <2> QED BY <2>2
<1>8. PICK n \in Nat : n = Len(info[a].deps)
  BY DepsFields DEF TypeInv
<1>9. PICK y : y = info'
  OBVIOUS
<1>10. /\ Len(y[a].deps) = n + 1 /\ y[a].deps[n + 1] = d
       /\ \A i \in 1 .. n : y[a].deps[i] = info[a].deps[i]
  <2>1. info[a].deps \in Seq(PoolEntry \cup {NULL}) /\ d \in PoolEntry
    BY <1>1, <1>2, InfoFields DEF TypeInv
  <2>2. PICK q \in Seq(PoolEntry \cup {NULL}) : q = info[a].deps /\ Len(q) = n
    BY <1>8, <2>1
  <2>3. /\ Len(Append(q, d)) = n + 1 /\ Append(q, d)[n + 1] = d
        /\ \A i \in 1 .. n : Append(q, d)[i] = q[i]
    <3>1. d \in PoolEntry \cup {NULL}
      BY <2>1
    <3>2. PICK T : T = PoolEntry \cup {NULL}
      OBVIOUS
    <3>3. q \in Seq(T) /\ d \in T
      BY <2>2, <3>1, <3>2
    <3> QED BY <2>2, <3>3, AppendProperties
  <2>4. y[a].deps = Append(q, d)
    BY <1>1, <1>2, <1>9, <2>2
  <2> QED BY <2>2, <2>3, <2>4
<1>11. \A s \in Slots : \A i \in 1 .. Len(info[s].deps) :
         info[s].deps[i] # NULL => info[s].deps[i] \in Slots
  BY DepsFields, PoolEntries DEF TypeInv
<1>12. ASSUME NEW s \in Slots, NEW i \in 1 .. Len(y[s].deps), y[s].deps[i] # NULL
       PROVE  new[y[s].deps[i]] < new[s]
  <2>1. CASE s # a
    <3>1. y[s].deps = info[s].deps
      BY <1>1, <1>2, <1>9, <2>1
    <3>2. PICK e \in Slots : e = info[s].deps[i] /\ e # a /\ rank[e] < rank[s]
      BY SMTT(20), <1>5, <1>6, <1>11, <1>12, <3>1 DEF RankedDeps
    <3> QED BY <1>7, <2>1, <3>1, <3>2
  <2>2. CASE s = a /\ i = n + 1
    <3>1. rank[d] < rank[a] + rank[d] + 1
      OBVIOUS
    <3> QED BY <1>4, <1>7, <1>10, <2>2, <3>1
  <2>3. CASE s = a /\ i \in 1 .. n
    <3>1. PICK e \in Slots : e = info[a].deps[i] /\ e # a /\ rank[e] < rank[a]
      BY SMTT(20), <1>5, <1>6, <1>8, <1>10, <1>11, <1>12, <2>3 DEF RankedDeps
    <3>2. rank[e] < rank[a] + rank[d] + 1
      <4>1. rank[e] \in Nat /\ rank[a] \in Nat /\ rank[d] \in Nat
        OBVIOUS
      <4> QED BY <3>1, <4>1, RankAdds
    <3> QED BY <1>7, <1>10, <2>3, <3>1, <3>2
  <2> QED BY <1>10, <1>12, <2>1, <2>2, <2>3
<1>13. RankedFrames(new, stack')
  <2>1. NoCtor(stack')
    BY <1>1, CtorQuiet
  <2> QED BY <2>1, NoCtorRanked
<1>14. RankedDeps(new, y)
  BY <1>12 DEF RankedDeps
<1> QED BY <1>9, <1>13, <1>14 DEF Acyclic

(* Every step of a call keeps Acyclic.                                     *)
LEMMA AcyclicInside ==
  ASSUME LibDLUnnamed, TypeInv, TypeInv', ShapeInv, WorkInv, UseInv, PresentInv, Acyclic, Inside
  PROVE  Acyclic'
<1>1. PICK rank \in [Slots -> Nat] : RankedDeps(rank, info) /\ RankedFrames(rank, stack)
  BY DEF Acyclic
<1>2. ASSUME SameDeps, RankedFrames(rank, stack') PROVE Acyclic'
  <2>1. \A s \in Slots : info'[s].deps = info[s].deps
    BY <1>2 DEF SameDeps
  <2>2. \A s \in Slots : \A i \in 1 .. Len(info'[s].deps) :
          i \in 1 .. Len(info[s].deps) /\ info'[s].deps[i] = info[s].deps[i]
    BY <2>1
  <2> QED BY <1>1, <1>2, <2>2, AcyclicShrunk
<1>3. info' = info => SameDeps
  BY DEF SameDeps
<1>4. NoCtor(stack') \/ Len(stack') = 0 => RankedFrames(rank, stack')
  BY NoCtorRanked
<1>5. ASSUME stack # << >>, Top.fn \in Finding \cup {"link_image", "unload", "fini"}
      PROVE  /\ Pops(stack, stack') => RankedFrames(rank, stack')
             /\ \A fn, si, i, m :
                  Moving(fn, si, i, m) /\ fn \notin {"constructors", "init", "dlopen"}
                    => RankedFrames(rank, stack')
             /\ \A si, i, fn, s, m :
                  Calling(si, i, fn, s, m) /\ fn \notin {"constructors", "init", "dlopen"}
                    => RankedFrames(rank, stack')
  BY <1>4, <1>5, CtorQuiet
<1>6. "find_library" \in Finding /\ "load_library" \in Finding
  BY DEF Finding
<1>7. CASE FindLibrary
  BY <1>2, <1>3, <1>5, <1>6, <1>7, FindLibraryStep
<1>8. CASE LoadRefused
  BY <1>2, <1>3, <1>5, <1>6, <1>8, LoadRefusedStep
<1>9. CASE LoadAlloc
  <2>1. stack # << >> /\ Top.fn = "load_library"
    BY <1>9, LoadAllocStep
  <2>2. CASE Pops(stack, stack') /\ info' = info
    BY <1>2, <1>3, <1>5, <1>6, <2>1, <2>2
  <2>3. CASE ~(Pops(stack, stack') /\ info' = info)
    <3>1. PICK a \in PoolEntry :
            /\ Only(a) /\ info'[a] = Soinfo(Top.name) /\ Top.name \in Libraries
            /\ Moving("load_library", a, Top.i, Top.name)
      BY <1>9, <2>3, LoadAllocStep
    <3>2. info'[a].deps = << >>
      BY <3>1, SoinfoMade
    <3>3. \A s \in Slots : \A i \in 1 .. Len(info'[s].deps) :
            i \in 1 .. Len(info[s].deps) /\ info'[s].deps[i] = info[s].deps[i]
      BY <3>1, <3>2 DEF Only
    <3>4. RankedFrames(rank, stack')
      BY <1>5, <1>6, <2>1, <3>1
    <3> QED BY <1>1, <3>3, <3>4, AcyclicShrunk
  <2> QED BY <2>2, <2>3
<1>10. CASE LoadSegments
  BY <1>2, <1>5, <1>6, <1>10, LoadSegmentsStep, LoadSegmentsFields
<1>11. CASE LoadFails
  BY SMTT(20), <1>2, <1>3, <1>5, <1>6, <1>11, LoadFailsStep
<1>12. CASE LinkFails
  BY <1>2, <1>5, <1>12, LinkFailStep, LinkFailFields
<1>13. CASE LinkFind
  BY <1>2, <1>3, <1>5, <1>13, LinkFindStep
<1>14. CASE LinkNeeded /\ ret # NULL
  BY <1>14, AcyclicRecorded
<1>15. CASE LinkFinish /\ ~LinkFail(TRUE)
  BY <1>2, <1>5, <1>15, LinkedStep, LinkedFields
<1>16. ASSUME stack # << >>, Top.fn = "dlopen" PROVE Len(stack) = 1
  <2>1. Len(stack) \in Nat \ {0} /\ Top = stack[Len(stack)] /\ Shape(stack)
    BY <1>16, StackLength DEF Top, ShapeInv
  <2> QED BY <1>16, <2>1, ShapeTop
<1>17. ASSUME stack # << >>, Top.fn = "dlopen", Pops(stack, stack')
       PROVE  RankedFrames(rank, stack')
  <2>1. Len(stack') = 0
    BY <1>16, <1>17 DEF Pops
  <2> QED BY <1>4, <2>1
<1>18. CASE DlopenFound
  <2>1. /\ stack # << >> /\ Top.fn = "dlopen" /\ info' = info
        /\ Pops(stack, stack') \/ Calling(ret, Top.i, "constructors", ret, Top.name)
    BY <1>18, DlopenFoundStep
  <2>2. CASE Calling(ret, Top.i, "constructors", ret, Top.name)
    <3>1. PICK f \in Frames, g \in Frames :
            Calls(stack, stack', f, g) /\ Is(f, Top.fn, ret, Top.i, Top.name)
      BY <2>2 DEF Calling
    <3>2. Len(stack') = 2 /\ stack'[1].fn = "dlopen"
      <4>1. Len(stack) = 1
        BY <1>16, <2>1
      <4>2. Len(stack') = 1 + 1 /\ stack'[1] = f
        BY <3>1, <4>1 DEF Calls
      <4> QED BY <2>1, <3>1, <4>2 DEF Is
    <3>3. \A j, k \in 1 .. 2 : j < k => j = 1
      OBVIOUS
    <3> QED BY <1>2, <1>3, <2>1, <3>2, <3>3 DEF RankedFrames
  <2> QED BY <1>2, <1>3, <1>17, <2>1, <2>2
<1>19. CASE DlopenReturn
  BY <1>2, <1>17, <1>19, DlopenReturnStep, DlopenReturnFields
<1>20. CASE CtorEnter
  <2>1. /\ stack # << >> /\ Top.fn = "constructors" /\ SameDeps
        /\ Pops(stack, stack') \/ Moving("constructors", Top.si, 1, Top.name)
    BY <1>20, CtorEnterStep, CtorEnterFields
  <2> QED BY <1>1, <1>2, <2>1, RankedPops, RankedCtor
<1>21. CASE CtorNeeded
  <2>1. PICK a \in Slots : a = Top.si
    BY <1>21, CtorNeededStep, PoolEntries
  <2>2. /\ stack # << >> /\ Top.fn = "constructors" /\ info' = info
        /\ Top.i \in 1 .. Len(info[a].deps)
        /\ \/ /\ info[a].deps[Top.i] \in PoolEntry
              /\ Calling(Top.si, Top.i + 1, "constructors", info[a].deps[Top.i], Top.name)
           \/ Moving("constructors", Top.si, Top.i + 1, Top.name)
    BY <1>21, <2>1, CtorNeededStep
  <2>3. CASE Moving("constructors", Top.si, Top.i + 1, Top.name)
    BY <1>1, <1>2, <1>3, <2>2, <2>3, RankedCtor
  <2>4. CASE /\ info[a].deps[Top.i] \in PoolEntry
             /\ Calling(Top.si, Top.i + 1, "constructors", info[a].deps[Top.i], Top.name)
    <3>1. PICK d \in Slots : d = info[a].deps[Top.i] /\ d # NULL
      BY <2>4, PoolEntries
    <3>2. rank[d] < rank[Top.si]
      BY <1>1, <2>1, <2>2, <3>1 DEF RankedDeps
    <3>3. RankedFrames(rank, stack')
      BY <1>1, <2>2, <2>4, <3>1, <3>2, RankedCtor
    <3> QED BY <1>2, <1>3, <2>2, <3>3
  <2> QED BY <2>2, <2>3, <2>4
<1>22. CASE CtorInit
  BY <1>1, <1>2, <1>3, <1>22, CtorInitStep, RankedCtor
<1>23. CASE InitReturns
  BY <1>1, <1>2, <1>23, InitReturnsStep, InitReturnsFields, RankedPops
<1>24. CASE UnloadEnter
  BY <1>2, <1>3, <1>5, <1>24, UnloadEnterStep, UnloadEnterFields
<1>25. CASE FiniReturns
  BY <1>2, <1>5, <1>25, FiniReturnsStep, FiniReturnsFields
<1>26. CASE UnloadNeeded
  <2>1. PICK a \in Slots : a = Top.si
    BY <1>26, UnloadNeededStep, PoolEntries
  <2>2. /\ stack # << >> /\ Top.fn = "unload" /\ Top.i \in 1 .. Len(info[a].deps)
        /\ \/ \E s : Calling(Top.si, Top.i + 1, "unload", s, Top.name)
           \/ Moving("unload", Top.si, Top.i + 1, Top.name)
    BY <1>26, <2>1, UnloadNeededStep
  <2>3. /\ info'[a].deps = [info[a].deps EXCEPT ![Top.i] = NULL]
        /\ \A s \in Slots : s # a => info'[s].deps = info[s].deps
    BY <1>26, <2>1, UnloadNeededFields
  <2>4. info[a].deps \in Seq(PoolEntry \cup {NULL})
    BY InfoFields DEF TypeInv
  <2>5. /\ Len(info'[a].deps) = Len(info[a].deps)
        /\ \A i \in 1 .. Len(info[a].deps) :
             info'[a].deps[i] = IF i = Top.i THEN NULL ELSE info[a].deps[i]
    BY <2>2, <2>3, <2>4
  <2>6. \A s \in Slots : \A i \in 1 .. Len(info'[s].deps) :
          info'[s].deps[i] # NULL =>
            i \in 1 .. Len(info[s].deps) /\ info'[s].deps[i] = info[s].deps[i]
    BY <2>3, <2>5
  <2>7. RankedFrames(rank, stack')
    BY <1>5, <2>2
  <2> QED BY <1>1, <2>6, <2>7, AcyclicShrunk
<1>27. CASE UnloadFree
  BY <1>2, <1>5, <1>27, UnloadFreeStep, UnloadFreeFields
<1> QED BY <1>7, <1>8, <1>9, <1>10, <1>11, <1>12, <1>13, <1>14, <1>15, <1>18, <1>19, <1>20,
           <1>21, <1>22, <1>23, <1>24, <1>25, <1>26, <1>27, InsideCases

(* At first nothing is recorded.                                           *)
LEMMA AcyclicInitially ==
  ASSUME Init
  PROVE  Acyclic
<1>1. stack = << >>
  BY DEF Init
<1>5. \A s \in Slots : info[s].deps = << >>
  BY InfoInitially, SoinfoMade
<1>2. PICK rank \in [Slots -> Nat] : rank = [s \in Slots |-> 0]
  OBVIOUS
<1>3. RankedDeps(rank, info)
  BY <1>5 DEF RankedDeps
<1>4. RankedFrames(rank, stack)
  BY <1>1 DEF RankedFrames
<1> QED BY <1>3, <1>4 DEF Acyclic

(* Every step keeps Acyclic.                                               *)
LEMMA AcyclicStep ==
  ASSUME LibDLUnnamed, TypeInv, TypeInv', ShapeInv, WorkInv, UseInv, PresentInv, Acyclic,
         [Next]_vars
  PROVE  Acyclic'
<1>1. PICK rank \in [Slots -> Nat] : RankedDeps(rank, info) /\ RankedFrames(rank, stack)
  BY DEF Acyclic
<1>2. ASSUME info' = info, NoCtor(stack') \/ Len(stack') = 0 PROVE Acyclic'
  <2>1. RankedFrames(rank, stack')
    BY <1>2, NoCtorRanked
  <2> QED BY <1>1, <1>2, <2>1 DEF Acyclic
<1>3. CASE UNCHANGED vars
  BY <1>1, <1>3 DEF Acyclic, vars, pool
<1>4. ASSUME NEW n \in Opened, Dlopen(n) PROVE Acyclic'
  <2>1. /\ Len(stack') = 2 /\ info' = info
        /\ Is(stack'[1], "dlopen", NULL, 0, n) /\ Is(stack'[2], "find_library", NULL, 0, n)
    BY <1>4, DlopenStep
  <2>2. \A k \in 1 .. 2 : k = 1 \/ k = 2
    OBVIOUS
  <2>3. NoCtor(stack')
    BY <2>1, <2>2 DEF NoCtor, Is
  <2> QED BY <1>2, <2>1, <2>3
<1>5. ASSUME NEW s \in Slots, Dlclose(s) PROVE Acyclic'
  <2>1. Len(stack') = 1 /\ info' = info /\ Is(stack'[1], "unload", s, 0, info[s].name)
    BY <1>5, DlcloseStep
  <2>2. \A k \in 1 .. 1 : k = 1
    OBVIOUS
  <2>3. NoCtor(stack')
    BY <2>1, <2>2 DEF NoCtor, Is
  <2> QED BY <1>2, <2>1, <2>3
<1>6. ASSUME NEW s \in Slots, LibraryDestroy(s) PROVE Acyclic'
  BY <1>2, <1>6, LibraryDestroyStep
<1>7. ASSUME NEW n \in Stubs, LibraryCreate(n) PROVE Acyclic'
  <2>1. stack' = stack /\ n \in Libraries
    BY <1>7, LibraryCreateStep
  <2>2. PICK a \in PoolEntry : Only(a) /\ info'[a] = Stub(n)
    BY <1>7, LibraryCreateStep
  <2>3. info'[a].deps = << >>
    BY <2>1, <2>2, SoinfoMade
  <2>4. \A s \in Slots : \A i \in 1 .. Len(info'[s].deps) :
          i \in 1 .. Len(info[s].deps) /\ info'[s].deps[i] = info[s].deps[i]
    BY <2>2, <2>3 DEF Only
  <2> QED BY <1>1, <2>1, <2>4, AcyclicShrunk
<1>8. CASE Inside
  BY <1>8, AcyclicInside
<1> QED BY <1>3, <1>4, <1>5, <1>6, <1>7, <1>8 DEF Next

-----------------------------------------------------------------------------
(* Constructors in order.  When a library's own have run, those of all it  *)
(* records have; while they run, those of the records passed so far have,  *)
(* and the call beneath waits for the record before its position.          *)
NeededStarted(x, s, m) ==
  \A j \in 1 .. Len(x[s].deps) :
    j < m /\ x[s].deps[j] # NULL => x[x[s].deps[j]].inits = 1
AllStarted(x, s) ==
  \A j \in 1 .. Len(x[s].deps) : x[s].deps[j] # NULL => x[x[s].deps[j]].inits = 1
InitAt(f, x) == f.fn = "init" => AllStarted(x, f.si)
CtorTop(f, x) == f.fn = "constructors" => NeededStarted(x, f.si, f.i)
CtorBeneath(f, g, x) ==
  f.fn = "constructors" => /\ f.i - 1 \in 1 .. Len(x[f.si].deps)
                           /\ g.si = x[f.si].deps[f.i - 1]
                           /\ NeededStarted(x, f.si, f.i - 1)
CtorOrder(t, x) ==
  /\ \A k \in 1 .. Len(t) : InitAt(t[k], x)
  /\ \A k \in 1 .. Len(t) - 1 : CtorBeneath(t[k], t[k + 1], x)
  /\ Len(t) >= 1 => CtorTop(t[Len(t)], x)
Ready(x) == \A s \in Slots : x[s].inits = 1 => AllStarted(x, s)
StoppedFrames(t, x) == \A k \in 1 .. Len(t) : t[k].fn = "unload" => x[t[k].si].inits = 1
InOrder == Ready(info) /\ CtorOrder(stack, info) /\ StoppedFrames(stack, info)

(* Without a constructor in progress there is no order to keep.            *)
LEMMA CtorOrderNone ==
  ASSUME NEW t, Len(t) \in Nat, NoCtor(t) \/ Len(t) = 0, NEW x
  PROVE  CtorOrder(t, x)
<1>1. /\ \A k \in 1 .. Len(t) - 1 : k \in 1 .. Len(t)
      /\ Len(t) >= 1 => Len(t) \in 1 .. Len(t)
  OBVIOUS
<1>2. \A k \in 1 .. Len(t) : t[k].fn \notin {"constructors", "init"}
  BY DEF NoCtor
<1> QED BY <1>1, <1>2 DEF CtorOrder, InitAt, CtorBeneath, CtorTop

(* What is needed stays started when records are only cleared.             *)
LEMMA ReadyKept ==
  ASSUME TypeInv, Ready(info), SameInits,
         \A s \in Slots : \A i \in 1 .. Len(info'[s].deps) :
           info'[s].deps[i] # NULL =>
             i \in 1 .. Len(info[s].deps) /\ info'[s].deps[i] = info[s].deps[i]
  PROVE  Ready(info')
<1>1. SUFFICES ASSUME NEW s \in Slots, info'[s].inits = 1,
                      NEW j \in 1 .. Len(info'[s].deps), info'[s].deps[j] # NULL
               PROVE  info'[info'[s].deps[j]].inits = 1
  BY DEF Ready, AllStarted
<1>2. info[s].inits = 1 /\ j \in 1 .. Len(info[s].deps) /\ info'[s].deps[j] = info[s].deps[j]
  BY <1>1 DEF SameInits
<1>3. info[s].deps[j] \in Slots
  BY <1>1, <1>2, DepsFields, PoolEntries DEF TypeInv
<1>4. info[info[s].deps[j]].inits = 1
  BY <1>1, <1>2 DEF Ready, AllStarted
<1> QED BY <1>2, <1>3, <1>4 DEF SameInits

Grown == SameDeps /\ \A s \in Slots : info[s].inits = 1 => info'[s].inits = 1

(* What was started stays started when more constructors have run.         *)
LEMMA StartedGrown ==
  ASSUME TypeInv, Grown, NEW s \in Slots
  PROVE  /\ AllStarted(info, s) => AllStarted(info', s)
         /\ \A m : NeededStarted(info, s, m) => NeededStarted(info', s, m)
<1>1. PICK d : d = info[s].deps /\ d = info'[s].deps
  BY DEF Grown, SameDeps
<1>2. \A j \in 1 .. Len(d) : d[j] # NULL => d[j] \in Slots
  <2>1. \A j \in 1 .. Len(info[s].deps) : info[s].deps[j] \in PoolEntry \cup {NULL}
    BY DepsFields DEF TypeInv
  <2> QED BY <1>1, <2>1, PoolEntries
<1>3. \A j \in 1 .. Len(d) : d[j] # NULL /\ info[d[j]].inits = 1 => info'[d[j]].inits = 1
  BY <1>2 DEF Grown
<1> QED BY <1>1, <1>3 DEF AllStarted, NeededStarted

(* So does what each call in progress relies on.                           *)
LEMMA CtorGrown ==
  ASSUME TypeInv, Grown, NEW f \in Frames
  PROVE  /\ InitAt(f, info) => InitAt(f, info')
         /\ CtorTop(f, info) => CtorTop(f, info')
         /\ \A g : CtorBeneath(f, g, info) => CtorBeneath(f, g, info')
<1>1. CASE f.fn \notin {"constructors", "init"}
  BY <1>1 DEF InitAt, CtorTop, CtorBeneath
<1>2. CASE f.fn \in {"constructors", "init"}
  <2>1. f.si \in Slots
    BY <1>2, FrameFields, PoolEntries DEF Holding
  <2>2. info'[f.si].deps = info[f.si].deps
    BY <2>1 DEF Grown, SameDeps
  <2> QED BY <2>1, <2>2, StartedGrown DEF InitAt, CtorTop, CtorBeneath
<1> QED BY <1>1, <1>2

(* The order after a return, a move and a call.                            *)
LEMMA CtorNext ==
  ASSUME TypeInv, stack # << >>, Top.fn \in {"constructors", "init"},
         CtorOrder(stack, info), Grown
  PROVE  /\ Pops(stack, stack') /\ info'[Top.si].inits = 1 => CtorOrder(stack', info')
         /\ \A f \in Frames :
              Sets(stack, stack', f) /\ f.si = Top.si /\ InitAt(f, info') /\ CtorTop(f, info')
                => CtorOrder(stack', info')
         /\ \A f, g \in Frames :
              Calls(stack, stack', f, g) /\ f.si = Top.si /\ CtorBeneath(f, g, info')
              /\ InitAt(f, info') /\ InitAt(g, info') /\ CtorTop(g, info')
                => CtorOrder(stack', info')
<1>1. PICK n \in Nat \ {0} : n = Len(stack)
  BY StackLength
<1>2. /\ Top = stack[n] /\ n \in 1 .. n /\ \A k \in 1 .. n - 1 : k \in 1 .. n /\ k # n
      /\ \A k \in 1 .. n : k = n \/ k \in 1 .. n - 1
      /\ \A k \in 1 .. n + 1 : k = n + 1 \/ k \in 1 .. n
  BY <1>1 DEF Top
<1>3. \A k \in 1 .. n : stack[k] \in Frames
  BY <1>1, StackLength
<1>4. /\ \A k \in 1 .. n : InitAt(stack[k], info')
      /\ \A k \in 1 .. n - 1 : CtorBeneath(stack[k], stack[k + 1], info')
  BY <1>1, <1>2, <1>3, CtorGrown DEF CtorOrder
<1>5. ASSUME Pops(stack, stack'), info'[Top.si].inits = 1 PROVE CtorOrder(stack', info')
  <2>1. Len(stack') = n - 1 /\ \A k \in 1 .. n - 1 : stack'[k] = stack[k]
    BY <1>1, <1>5 DEF Pops
  <2>2. \A k \in 1 .. Len(stack') : InitAt(stack'[k], info')
    BY <1>2, <1>4, <2>1
  <2>3. \A k \in 1 .. Len(stack') - 1 : CtorBeneath(stack'[k], stack'[k + 1], info')
    <3>1. \A k \in 1 .. n - 1 - 1 : k \in 1 .. n - 1 /\ k + 1 \in 1 .. n - 1
      OBVIOUS
    <3> QED BY <1>4, <2>1, <3>1
  <2>4. ASSUME Len(stack') >= 1 PROVE CtorTop(stack'[Len(stack')], info')
    <3>1. PICK k \in 1 .. n - 1 : k = n - 1 /\ k + 1 = n /\ Len(stack') = k
      BY <2>1, <2>4
    <3>2. PICK f \in Frames : f = stack[k] /\ stack'[Len(stack')] = f
      BY <1>2, <1>3, <2>1, <3>1
    <3>3. CtorBeneath(f, Top, info')
      BY <1>2, <1>4, <3>1, <3>2
    <3>4. f.i \in Nat
      BY <3>2, FrameFields
    <3>5. SUFFICES ASSUME f.fn = "constructors" PROVE NeededStarted(info', f.si, f.i)
      BY <3>2 DEF CtorTop
    <3>6. /\ Top.si = info'[f.si].deps[f.i - 1] /\ NeededStarted(info', f.si, f.i - 1)
      BY <3>3, <3>5 DEF CtorBeneath
    <3>7. \A j \in Nat : j < f.i => j < f.i - 1 \/ j = f.i - 1
      BY <3>4
    <3>8. \A j \in 1 .. Len(info'[f.si].deps) : j \in Nat
      OBVIOUS
    <3> QED BY <1>5, <3>6, <3>7, <3>8 DEF NeededStarted
  <2> QED BY <2>2, <2>3, <2>4 DEF CtorOrder
<1>6. ASSUME NEW f \in Frames, Sets(stack, stack', f), f.si = Top.si, InitAt(f, info'),
             CtorTop(f, info')
      PROVE  CtorOrder(stack', info')
  <2>1. Len(stack') = n /\ stack'[n] = f /\ \A k \in 1 .. n - 1 : stack'[k] = stack[k]
    BY <1>1, <1>6 DEF Sets
  <2>2. \A k \in 1 .. n : InitAt(stack'[k], info')
    BY <1>2, <1>4, <1>6, <2>1
  <2>3. \A k \in 1 .. n : stack'[k].si = stack[k].si
    BY <1>2, <1>6, <2>1
  <2>4. \A k \in 1 .. n - 1 : k + 1 \in 1 .. n
    OBVIOUS
  <2>5. \A k \in 1 .. n - 1 : CtorBeneath(stack'[k], stack'[k + 1], info')
    BY <1>4, <2>1, <2>3, <2>4 DEF CtorBeneath
  <2> QED BY <1>6, <2>1, <2>2, <2>5 DEF CtorOrder
<1>7. ASSUME NEW f \in Frames, NEW g \in Frames, Calls(stack, stack', f, g), f.si = Top.si,
             CtorBeneath(f, g, info'), InitAt(f, info'), InitAt(g, info'), CtorTop(g, info')
      PROVE  CtorOrder(stack', info')
  <2>1. /\ Len(stack') = n + 1 /\ stack'[n] = f /\ stack'[n + 1] = g
        /\ \A k \in 1 .. n - 1 : stack'[k] = stack[k]
    BY <1>1, <1>7 DEF Calls
  <2>2. \A k \in 1 .. n + 1 : InitAt(stack'[k], info')
    BY <1>2, <1>4, <1>7, <2>1
  <2>3. \A k \in 1 .. n : stack'[k].si = stack[k].si
    BY <1>2, <1>7, <2>1
  <2>4. \A k \in 1 .. n - 1 : k + 1 \in 1 .. n
    OBVIOUS
  <2>5. \A k \in 1 .. n - 1 : CtorBeneath(stack'[k], stack'[k + 1], info')
    BY <1>4, <2>1, <2>3, <2>4 DEF CtorBeneath
  <2>6. \A k \in 1 .. n : CtorBeneath(stack'[k], stack'[k + 1], info')
    BY <1>2, <1>7, <2>1, <2>5
  <2>7. n + 1 - 1 = n
    OBVIOUS
  <2> QED BY <1>7, <2>1, <2>2, <2>6, <2>7 DEF CtorOrder
<1> QED BY <1>5, <1>6, <1>7

(* An unload is of a library whose constructors ran.                       *)
LEMMA StoppedNext ==
  ASSUME TypeInv, stack # << >>, Top.fn \in {"unload", "fini"}, StoppedFrames(stack, info),
         SameInits
  PROVE  /\ Pops(stack, stack') => StoppedFrames(stack', info')
         /\ \A i, m : Top.fn = "unload" /\ Moving("unload", Top.si, i, m)
                        => StoppedFrames(stack', info')
         /\ \A i, fn, s, m :
              Calling(Top.si, i, fn, s, m)
              /\ (fn = "unload" => s \in Slots /\ info[s].inits = 1)
                => StoppedFrames(stack', info')
<1>1. PICK n \in Nat \ {0} : n = Len(stack)
  BY StackLength
<1>2. /\ Top = stack[n] /\ n \in 1 .. n /\ \A k \in 1 .. n - 1 : k \in 1 .. n
      /\ \A k \in 1 .. n : k = n \/ k \in 1 .. n - 1
      /\ \A k \in 1 .. n + 1 : k = n + 1 \/ k \in 1 .. n
  BY <1>1 DEF Top
<1>3. \A k \in 1 .. n : stack[k].fn = "unload" => info'[stack[k].si].inits = 1
  <2>1. ASSUME NEW k \in 1 .. n, stack[k].fn = "unload" PROVE info'[stack[k].si].inits = 1
    <3>1. stack[k] \in Frames /\ "unload" \in Holding
      BY <1>1, StackLength DEF Holding
    <3>2. stack[k].si \in Slots
      BY <2>1, <3>1, FrameFields, PoolEntries
    <3> QED BY <1>1, <2>1, <3>2 DEF StoppedFrames, SameInits
  <2> QED BY <2>1
<1>4. ASSUME Pops(stack, stack') PROVE StoppedFrames(stack', info')
  <2>1. Len(stack') = n - 1 /\ \A k \in 1 .. n - 1 : stack'[k] = stack[k]
    BY <1>1, <1>4 DEF Pops
  <2> QED BY <1>2, <1>3, <2>1 DEF StoppedFrames
<1>5. ASSUME NEW i, NEW m, Top.fn = "unload", Moving("unload", Top.si, i, m)
      PROVE  StoppedFrames(stack', info')
  <2>1. PICK f \in Frames : Sets(stack, stack', f) /\ Is(f, "unload", Top.si, i, m)
    BY <1>5 DEF Moving
  <2>2. /\ Len(stack') = n /\ stack'[n] = f /\ f.si = Top.si
        /\ \A k \in 1 .. n - 1 : stack'[k] = stack[k]
    BY <1>1, <2>1 DEF Sets, Is
  <2> QED BY <1>2, <1>3, <1>5, <2>2 DEF StoppedFrames
<1>6. ASSUME NEW i, NEW fn, NEW s, NEW m, Calling(Top.si, i, fn, s, m),
             fn = "unload" => s \in Slots /\ info[s].inits = 1
      PROVE  StoppedFrames(stack', info')
  <2>1. PICK f \in Frames, g \in Frames :
          /\ Calls(stack, stack', f, g) /\ Is(f, Top.fn, Top.si, i, Top.name)
          /\ Is(g, fn, s, 0, m)
    BY <1>6 DEF Calling
  <2>2. /\ Len(stack') = n + 1 /\ stack'[n] = f /\ stack'[n + 1] = g
        /\ f.fn = Top.fn /\ f.si = Top.si /\ g.fn = fn /\ g.si = s
        /\ \A k \in 1 .. n - 1 : stack'[k] = stack[k]
    BY <1>1, <2>1 DEF Calls, Is
  <2>3. fn = "unload" => info'[s].inits = 1
    BY <1>6 DEF SameInits
  <2>4. \A k \in 1 .. n : stack'[k].fn = "unload" => info'[stack'[k].si].inits = 1
    BY <1>2, <1>3, <2>2
  <2> QED BY <1>2, <2>2, <2>3, <2>4 DEF StoppedFrames
<1> QED BY <1>4, <1>5, <1>6

(* What finding, loading and linking leave.                                *)
LEMMA LinkingReady ==
  ASSUME TypeInv, ShapeInv, WorkInv, UseInv, NeededPresent, Started, Ready(info),
         LinkNeeded, ret # NULL
  PROVE  Ready(info')
<1>1. /\ stack # << >> /\ Top.fn = "link_image" /\ SameInits
      /\ \A s \in Slots : s # Top.si => info'[s].deps = info[s].deps
  BY LinkNeededStep, LinkNeededFields
<1>2. info[Top.si].inits = 0
  <2>1. Top = stack[Len(stack)] /\ Len(stack) \in 1 .. Len(stack)
    BY <1>1, StackLength DEF Top
  <2>2. ~info[Top.si].constructors_called
    BY <1>1, <2>1 DEF WorkInv, Linking, LinkingOf
  <2>3. Top.si \in Slots
    BY LinkNeededStep, PoolEntries
  <2> QED BY <2>2, <2>3 DEF Started, StartedAt
<1>3. ASSUME NEW s \in Slots, info'[s].inits = 1, NEW j \in 1 .. Len(info'[s].deps),
             info'[s].deps[j] # NULL
      PROVE  info'[info'[s].deps[j]].inits = 1
  <2>1. s # Top.si /\ info[s].inits = 1
    BY <1>1, <1>2, <1>3 DEF SameInits
  <2>2. info'[s].deps = info[s].deps
    BY <1>1, <2>1
  <2>3. info[s].deps[j] \in PoolEntry \cup {NULL}
    BY <2>2, DepsFields DEF TypeInv
  <2>4. info[s].deps[j] \in Slots
    BY <1>3, <2>2, <2>3, PoolEntries
  <2>5. info[info[s].deps[j]].inits = 1
    BY <1>3, <2>1, <2>2 DEF Ready, AllStarted
  <2> QED BY <1>1, <2>2, <2>4, <2>5 DEF SameInits
<1> QED BY <1>3 DEF Ready, AllStarted

(* A new soinfo, which nothing records yet.                                *)
LEMMA AllocReady ==
  ASSUME TypeInv, UseInv, NeededPresent, Ready(info), NEW a \in Slots, a \notin On(Solist),
         Only(a), info'[a].inits = 0
  PROVE  Ready(info')
<1>1. ASSUME NEW s \in Slots, info'[s].inits = 1, NEW j \in 1 .. Len(info'[s].deps),
             info'[s].deps[j] # NULL
      PROVE  info'[info'[s].deps[j]].inits = 1
  <2>1. s # a /\ info'[s] = info[s]
    BY <1>1 DEF Only
  <2>2. info[s].deps[j] \in PoolEntry \cup {NULL}
    BY <1>1, <2>1, DepsFields DEF TypeInv
  <2>3. info[s].deps[j] \in Slots /\ info[s].deps[j] # a
    BY <1>1, <2>1, <2>2, PoolEntries, NotRecorded
  <2>4. info[info[s].deps[j]].inits = 1
    BY <1>1, <2>1 DEF Ready, AllStarted
  <2> QED BY <2>1, <2>3, <2>4 DEF Only
<1> QED BY <1>1 DEF Ready, AllStarted

(* call_constructors_recursive keeps the order: what is already called is  *)
(* not being run by a call beneath, which would need itself.               *)
LEMMA CalledStarted ==
  ASSUME TypeInv, ShapeInv, WorkInv, Started, Acyclic, stack # << >>,
         Top.fn = "constructors", Top.i = 0, info[Top.si].constructors_called
  PROVE  info[Top.si].inits = 1
<1>1. PICK n \in Nat \ {0} : n = Len(stack)
  BY StackLength
<1>2. /\ Top = stack[n] /\ n \in 1 .. n /\ \A k \in 1 .. n : k = n \/ (k \in 1 .. n - 1 /\ k < n)
  BY <1>1 DEF Top
<1>3. PICK a \in Slots : a = Top.si
  <2>1. Top \in Frames /\ Top.fn \in Holding
    BY <1>1, <1>2, StackLength DEF Holding
  <2> QED BY <2>1, FrameFields, PoolEntries
<1>4. PICK rank \in [Slots -> Nat] : RankedFrames(rank, stack)
  BY DEF Acyclic
<1>5. ~InCtor(stack, a)
  <2>1. SUFFICES ASSUME NEW k \in 1 .. n, Starts(stack[k]), stack[k].si = a PROVE FALSE
    BY <1>1 DEF InCtor
  <2>2. k # n
    BY <1>2, <2>1 DEF Starts
  <2>3. k \in 1 .. n - 1 /\ k < n
    BY <1>2, <2>2
  <2>4. stack[k].fn = "constructors"
    BY <1>1, <2>1, <2>3, WorkBeneath DEF Starts
  <2>5. rank[a] < rank[a]
    BY <1>1, <1>2, <1>3, <1>4, <2>1, <2>3, <2>4 DEF RankedFrames
  <2>6. rank[a] \in Nat
    OBVIOUS
  <2> QED BY <2>5, <2>6
<1> QED BY <1>3, <1>5 DEF Started, StartedAt

(* Every step of call_constructors_recursive keeps the order.              *)
LEMMA CtorsInOrder ==
  ASSUME TypeInv, ShapeInv, WorkInv, Started, Acyclic, Ready(info), CtorOrder(stack, info), Ctors
  PROVE  Ready(info') /\ CtorOrder(stack', info')
<1>1. ASSUME SameDeps, SameInits
      PROVE  Ready(info') /\ Grown
  <2>1. \A s \in Slots : info'[s].deps = info[s].deps
    BY <1>1 DEF SameDeps
  <2>2. \A s \in Slots : \A i \in 1 .. Len(info'[s].deps) :
          i \in 1 .. Len(info[s].deps) /\ info'[s].deps[i] = info[s].deps[i]
    BY <2>1
  <2>3. Ready(info')
    BY <1>1, <2>2, ReadyKept
  <2> QED BY <1>1, <2>3 DEF Grown, SameInits
<1>2. info' = info => SameDeps /\ SameInits
  BY DEF SameDeps, SameInits
<1>3. stack # << >> => /\ Top \in Frames /\ InitAt(Top, info) /\ CtorTop(Top, info)
                       /\ Top.i \in Nat
  <2>1. ASSUME stack # << >> PROVE Len(stack) >= 1 /\ Top = stack[Len(stack)]
                                   /\ Len(stack) \in 1 .. Len(stack)
    BY <2>1, StackLength DEF Top
  <2> QED BY <2>1, StackLength, FrameFields DEF CtorOrder
<1>4. CASE CtorEnter
  <2>1. /\ stack # << >> /\ Top.fn = "constructors" /\ Top.i = 0
        /\ SameDeps /\ SameInits /\ Grown /\ Ready(info') /\ Top.si \in Slots
    BY <1>1, <1>4, CtorEnterStep, CtorEnterFields, PoolEntries
  <2>2. CASE info[Top.si].constructors_called /\ Pops(stack, stack') /\ info' = info
    BY <2>1, <2>2, CalledStarted, CtorNext
  <2>3. CASE Moving("constructors", Top.si, 1, Top.name)
    <3>1. PICK f \in Frames : Sets(stack, stack', f) /\ Is(f, "constructors", Top.si, 1, Top.name)
      BY <2>3 DEF Moving
    <3>2. InitAt(f, info') /\ CtorTop(f, info')
      BY <3>1 DEF Is, InitAt, CtorTop, NeededStarted
    <3> QED BY <2>1, <3>1, <3>2, CtorNext DEF Is
  <2> QED BY <1>4, <2>2, <2>3, CtorEnterStep
<1>5. CASE CtorNeeded
  <2>1. /\ stack # << >> /\ Top.fn = "constructors" /\ info' = info /\ Grown /\ Ready(info')
        /\ Top.i \in 1 .. Len(info[Top.si].deps)
    BY <1>1, <1>2, <1>5, CtorNeededStep
  <2>2. NeededStarted(info, Top.si, Top.i)
    BY <1>3, <2>1 DEF CtorTop
  <2>3. ASSUME info[Top.si].deps[Top.i] = NULL, Moving("constructors", Top.si, Top.i + 1, Top.name)
        PROVE  CtorOrder(stack', info')
    <3>1. PICK f \in Frames :
            Sets(stack, stack', f) /\ Is(f, "constructors", Top.si, Top.i + 1, Top.name)
      BY <2>3 DEF Moving
    <3>2. NeededStarted(info, Top.si, Top.i + 1)
      <4>1. PICK i \in Nat : i = Top.i
        BY <1>3, <2>1
      <4>2. \A j \in Nat : j < i + 1 => j < i \/ j = i
        OBVIOUS
      <4>3. \A j \in 1 .. Len(info[Top.si].deps) : j \in Nat
        OBVIOUS
      <4> QED BY <2>2, <2>3, <4>1, <4>2, <4>3 DEF NeededStarted
    <3>3. InitAt(f, info') /\ CtorTop(f, info')
      BY <2>1, <3>1, <3>2 DEF Is, InitAt, CtorTop
    <3> QED BY <2>1, <3>1, <3>3, CtorNext DEF Is
  <2>4. ASSUME Calling(Top.si, Top.i + 1, "constructors", info[Top.si].deps[Top.i], Top.name)
        PROVE  CtorOrder(stack', info')
    <3>1. PICK f \in Frames, g \in Frames :
            /\ Calls(stack, stack', f, g) /\ Is(f, Top.fn, Top.si, Top.i + 1, Top.name)
            /\ Is(g, "constructors", info[Top.si].deps[Top.i], 0, Top.name)
      BY <2>4 DEF Calling
    <3>2. Top.i + 1 - 1 = Top.i
      BY <1>3, <2>1
    <3>3. CtorBeneath(f, g, info')
      BY <2>1, <2>2, <3>1, <3>2 DEF CtorBeneath, Is
    <3>4. InitAt(f, info') /\ InitAt(g, info')
      BY <2>1, <3>1 DEF Is, InitAt
    <3>5. CtorTop(g, info')
      <4>1. g.i = 0
        BY <3>1 DEF Is
      <4>2. \A j \in 1 .. Len(info'[g.si].deps) : ~(j < 0)
        OBVIOUS
      <4> QED BY <4>1, <4>2 DEF CtorTop, NeededStarted
    <3> QED BY <2>1, <3>1, <3>3, <3>4, <3>5, CtorNext DEF Is
  <2> QED BY <1>5, <2>1, <2>3, <2>4, CtorNeededStep
<1>6. CASE CtorInit
  <2>1. /\ stack # << >> /\ Top.fn = "constructors" /\ info' = info /\ Grown /\ Ready(info')
        /\ Top.i > Len(info[Top.si].deps) /\ Moving("init", Top.si, 0, Top.name)
        /\ Top.si \in Slots
    BY <1>1, <1>2, <1>6, CtorInitStep, PoolEntries
  <2>2. PICK f \in Frames : Sets(stack, stack', f) /\ Is(f, "init", Top.si, 0, Top.name)
    BY <2>1 DEF Moving
  <2>3. NeededStarted(info, Top.si, Top.i)
    BY <1>3, <2>1 DEF CtorTop
  <2>4. AllStarted(info, Top.si)
    <3>1. PICK n \in Nat, i \in Nat : n = Len(info[Top.si].deps) /\ i = Top.i /\ i > n
      BY <1>3, <2>1, DepsFields DEF TypeInv
    <3>2. \A j \in 1 .. n : j < i
      BY <3>1
    <3> QED BY <2>3, <3>1, <3>2 DEF NeededStarted, AllStarted
  <2>5. InitAt(f, info') /\ CtorTop(f, info')
    BY <2>1, <2>2, <2>4 DEF Is, InitAt, CtorTop
  <2> QED BY <2>1, <2>2, <2>5, CtorNext DEF Is
<1>7. CASE InitReturns
  <2>1. /\ stack # << >> /\ Top.fn = "init" /\ Pops(stack, stack') /\ SameDeps
        /\ info'[Top.si].inits = info[Top.si].inits + 1
        /\ \A s \in Slots : s # Top.si => info'[s].inits = info[s].inits
    BY <1>7, InitReturnsStep, InitReturnsFields
  <2>2. PICK a \in Slots : a = Top.si
    BY <1>7, InitReturnsStep, PoolEntries
  <2>3. info[a].inits = 0
    <3>1. Top = stack[Len(stack)] /\ Len(stack) \in 1 .. Len(stack)
      BY <2>1, StackLength DEF Top
    <3>2. InCtor(stack, a)
      BY <2>1, <2>2, <3>1 DEF InCtor, Starts
    <3> QED BY <3>2 DEF Started, StartedAt
  <2>4. Grown /\ info'[a].inits = 1
    BY <2>1, <2>2, <2>3 DEF Grown
  <2>5. AllStarted(info, a)
    BY <1>3, <2>1, <2>2 DEF InitAt
  <2>6. ASSUME NEW s \in Slots, info'[s].inits = 1 PROVE AllStarted(info', s)
    <3>1. AllStarted(info, s)
      BY <2>1, <2>2, <2>5, <2>6 DEF Ready
    <3> QED BY <2>4, <3>1, StartedGrown
  <2> QED BY <2>1, <2>2, <2>4, <2>6, CtorNext DEF Ready
<1> QED BY <1>4, <1>5, <1>6, <1>7 DEF Ctors

(* So does every step of a call.                                           *)
LEMMA InOrderInside ==
  ASSUME LibDLUnnamed, TypeInv, TypeInv', ShapeInv, WorkInv, UseInv, PresentInv, Started,
         Acyclic, InOrder, Inside
  PROVE  InOrder'
<1>1. SUFFICES Ready(info') /\ CtorOrder(stack', info') /\ StoppedFrames(stack', info')
  BY DEF InOrder
<1>2. Len(stack') \in Nat /\ Ready(info) /\ CtorOrder(stack, info) /\ StoppedFrames(stack, info)
  BY DEF TypeInv, LinkerTypes, InOrder
<1>3. ASSUME SameInits, SameDeps PROVE Ready(info')
  <2>1. \A s \in Slots : info'[s].deps = info[s].deps
    BY <1>3 DEF SameDeps
  <2>2. \A s \in Slots : \A i \in 1 .. Len(info'[s].deps) :
          i \in 1 .. Len(info[s].deps) /\ info'[s].deps[i] = info[s].deps[i]
    BY <2>1
  <2> QED BY <1>2, <1>3, <2>2, ReadyKept
<1>4. info' = info => SameInits /\ SameDeps
  BY DEF SameInits, SameDeps
<1>5. NoUnload(stack') => StoppedFrames(stack', info')
  BY DEF NoUnload, StoppedFrames
<1>6. NoCtor(stack') \/ Len(stack') = 0 => CtorOrder(stack', info')
  BY <1>2, CtorOrderNone
<1>7. ASSUME stack # << >>, Top.fn \in Finding \cup {"link_image"}
      PROVE  /\ Pops(stack, stack') =>
                  CtorOrder(stack', info') /\ StoppedFrames(stack', info')
             /\ \A fn, si, i, m :
                  Moving(fn, si, i, m) /\ fn \in Finding \cup {"link_image"} =>
                    CtorOrder(stack', info') /\ StoppedFrames(stack', info')
             /\ \A fn, si, i, s, m :
                  Calling(si, i, fn, s, m) /\ fn \in Finding \cup {"link_image"} =>
                    CtorOrder(stack', info') /\ StoppedFrames(stack', info')
  <2>1. Top.fn \notin {"unload", "fini"} /\ Top.fn \in Finding \cup {"link_image", "unload", "fini"}
    BY <1>7 DEF Finding
  <2>2. \A fn \in Finding \cup {"link_image"} :
          fn \notin {"constructors", "init", "dlopen"} /\ fn # "unload"
    BY DEF Finding
  <2> QED BY <1>5, <1>6, <1>7, <2>1, <2>2, CtorQuiet, OpeningQuiet
<1>8. "find_library" \in Finding /\ "load_library" \in Finding
  BY DEF Finding
<1>9. CASE FindLibrary
  BY <1>1, <1>3, <1>4, <1>7, <1>8, <1>9, FindLibraryStep
<1>10. CASE LoadRefused
  BY <1>1, <1>3, <1>4, <1>7, <1>8, <1>10, LoadRefusedStep
<1>11. CASE LoadAlloc
  <2>1. stack # << >> /\ Top.fn = "load_library"
    BY <1>11, LoadAllocStep
  <2>2. CASE Pops(stack, stack') /\ info' = info
    BY <1>1, <1>3, <1>4, <1>7, <1>8, <2>1, <2>2
  <2>3. CASE ~(Pops(stack, stack') /\ info' = info)
    <3>1. PICK a \in PoolEntry :
            /\ a \notin On(Solist) /\ Only(a) /\ info'[a] = Soinfo(Top.name)
            /\ Top.name \in Libraries /\ Moving("load_library", a, Top.i, Top.name)
      BY <1>11, <2>3, LoadAllocStep
    <3>2. a \in Slots /\ info'[a].inits = 0
      BY <3>1, SoinfoMade, PoolEntries
    <3>3. Ready(info')
      BY <1>2, <3>1, <3>2, AllocReady DEF PresentInv
    <3> QED BY <1>1, <1>7, <1>8, <2>1, <3>1, <3>3
  <2> QED BY <2>2, <2>3
<1>12. CASE LoadSegments
  BY <1>1, <1>3, <1>7, <1>8, <1>12, LoadSegmentsStep, LoadSegmentsFields
<1>13. CASE LoadFails
  BY SMTT(20), <1>1, <1>3, <1>4, <1>7, <1>8, <1>13, LoadFailsStep
<1>14. CASE LinkFails
  BY <1>1, <1>3, <1>7, <1>14, LinkFailStep, LinkFailFields
<1>15. CASE LinkFind
  BY <1>1, <1>3, <1>4, <1>7, <1>8, <1>15, LinkFindStep
<1>16. CASE LinkNeeded /\ ret # NULL
  <2>1. Ready(info')
    BY <1>2, <1>16, LinkingReady DEF PresentInv
  <2> QED BY <1>1, <1>7, <1>16, <2>1, LinkNeededStep
<1>17. CASE LinkFinish /\ ~LinkFail(TRUE)
  BY <1>1, <1>3, <1>7, <1>17, LinkedStep, LinkedFields
<1>18. ASSUME stack # << >>, Top.fn = "dlopen" PROVE Len(stack) = 1
  <2>1. Len(stack) \in Nat \ {0} /\ Top = stack[Len(stack)] /\ Shape(stack)
    BY <1>18, StackLength DEF Top, ShapeInv
  <2> QED BY <1>18, <2>1, ShapeTop
<1>19. ASSUME stack # << >>, Top.fn = "dlopen", Pops(stack, stack')
       PROVE  CtorOrder(stack', info') /\ StoppedFrames(stack', info')
  <2>1. Len(stack') = 0
    BY <1>18, <1>19 DEF Pops
  <2>2. StoppedFrames(stack', info')
    BY <2>1 DEF StoppedFrames
  <2> QED BY <1>6, <2>1, <2>2
<1>20. CASE DlopenFound
  <2>1. /\ stack # << >> /\ Top.fn = "dlopen" /\ info' = info
        /\ Pops(stack, stack') \/ Calling(ret, Top.i, "constructors", ret, Top.name)
    BY <1>20, DlopenFoundStep
  <2>2. ASSUME Calling(ret, Top.i, "constructors", ret, Top.name)
        PROVE  CtorOrder(stack', info') /\ StoppedFrames(stack', info')
    <3>1. PICK f \in Frames, g \in Frames :
            /\ Calls(stack, stack', f, g) /\ Is(f, Top.fn, ret, Top.i, Top.name)
            /\ Is(g, "constructors", ret, 0, Top.name)
      BY <2>2 DEF Calling
    <3>2. f.fn = "dlopen" /\ g.fn = "constructors" /\ g.i = 0
      BY <2>1, <3>1 DEF Is
    <3>3. Len(stack') = 2 /\ stack'[1] = f /\ stack'[2] = g
      <4>1. Len(stack) = 1
        BY <1>18, <2>1
      <4>2. Len(stack') = 1 + 1 /\ stack'[1] = f /\ stack'[1 + 1] = g
        BY <3>1, <4>1 DEF Calls
      <4> QED BY <4>2
    <3>4. \A k \in 1 .. 2 : k = 1 \/ k = 2
      OBVIOUS
    <3>5. \A k \in 1 .. 2 - 1 : k = 1
      OBVIOUS
    <3>6. CtorTop(g, info')
      <4>1. \A j \in 1 .. Len(info'[g.si].deps) : ~(j < 0)
        OBVIOUS
      <4> QED BY <3>2, <4>1 DEF CtorTop, NeededStarted
    <3>7. CtorOrder(stack', info')
      BY <3>2, <3>3, <3>4, <3>5, <3>6 DEF CtorOrder, InitAt, CtorBeneath
    <3>8. StoppedFrames(stack', info')
      BY <3>2, <3>3, <3>4 DEF StoppedFrames
    <3> QED BY <3>7, <3>8
  <2> QED BY <1>1, <1>3, <1>4, <1>19, <2>1, <2>2
<1>21. CASE DlopenReturn
  BY <1>1, <1>3, <1>19, <1>21, DlopenReturnStep, DlopenReturnFields
<1>22. CASE Ctors
  <2>1. Ready(info') /\ CtorOrder(stack', info')
    BY <1>2, <1>22, CtorsInOrder
  <2>2. stack # << >> /\ Top.fn \in {"constructors", "init"}
    BY <1>22, CtorEnterStep, CtorNeededStep, CtorInitStep, InitReturnsStep DEF Ctors
  <2>3. \/ Pops(stack, stack')
        \/ \E fn, si, i, m : Moving(fn, si, i, m) /\ fn # "unload"
        \/ \E fn, si, i, s, m : Calling(si, i, fn, s, m) /\ fn # "unload"
    <3>1. CASE CtorEnter
      BY <3>1, CtorEnterStep
    <3>2. CASE CtorNeeded
      BY <3>2, CtorNeededStep
    <3>3. CASE CtorInit
      BY <3>3, CtorInitStep
    <3>4. CASE InitReturns
      BY <3>4, InitReturnsStep
    <3> QED BY <1>22, <3>1, <3>2, <3>3, <3>4 DEF Ctors
  <2> QED BY <1>1, <1>5, <2>1, <2>2, <2>3, OpeningQuiet
<1>23. ASSUME stack # << >>, Top.fn \in {"unload", "fini"}
       PROVE  /\ Pops(stack, stack') => CtorOrder(stack', info')
              /\ \A fn, si, i, m :
                   Moving(fn, si, i, m) /\ fn \in {"unload", "fini"} => CtorOrder(stack', info')
              /\ \A fn, si, i, s, m :
                   Calling(si, i, fn, s, m) /\ fn \in {"unload", "fini"}
                     => CtorOrder(stack', info')
  BY <1>6, <1>23, CtorQuiet
<1>24. CASE UnloadEnter
  <2>1. CASE info[Top.si].refcount = 1
    <3>1. /\ stack # << >> /\ Top.fn = "unload" /\ info' = info
          /\ Calling(Top.si, 1, "fini", Top.si, Top.name)
      BY <1>24, <2>1, UnloadEnterStep
    <3>2. CtorOrder(stack', info')
      BY <1>23, <3>1
    <3>3. StoppedFrames(stack', info')
      BY <1>2, <1>4, <3>1, StoppedNext
    <3> QED BY <1>1, <1>3, <1>4, <3>1, <3>2, <3>3
  <2>2. CASE info[Top.si].refcount # 1
    BY <1>1, <1>2, <1>3, <1>23, <1>24, <2>2, UnloadEnterStep, UnloadEnterFields, StoppedNext
  <2> QED BY <2>1, <2>2
<1>25. CASE FiniReturns
  BY <1>1, <1>2, <1>3, <1>23, <1>25, FiniReturnsStep, FiniReturnsFields, StoppedNext
<1>26. CASE UnloadNeeded
  <2>1. PICK a \in Slots : a = Top.si
    BY <1>26, UnloadNeededStep, PoolEntries
  <2>2. /\ stack # << >> /\ Top.fn = "unload" /\ Top.i \in 1 .. Len(info[a].deps) /\ SameInits
        /\ \/ /\ info[a].deps[Top.i] \in PoolEntry
              /\ Calling(Top.si, Top.i + 1, "unload", info[a].deps[Top.i], Top.name)
           \/ Moving("unload", Top.si, Top.i + 1, Top.name)
    BY <1>26, <2>1, UnloadNeededStep, UnloadNeededFields
  <2>3. /\ info'[a].deps = [info[a].deps EXCEPT ![Top.i] = NULL]
        /\ \A s \in Slots : s # a => info'[s].deps = info[s].deps
    BY <1>26, <2>1, UnloadNeededFields
  <2>4. info[a].deps \in Seq(PoolEntry \cup {NULL})
    BY InfoFields DEF TypeInv
  <2>5. /\ Len(info'[a].deps) = Len(info[a].deps)
        /\ \A i \in 1 .. Len(info[a].deps) :
             info'[a].deps[i] = IF i = Top.i THEN NULL ELSE info[a].deps[i]
    BY <2>2, <2>3, <2>4
  <2>6. \A s \in Slots : \A i \in 1 .. Len(info'[s].deps) :
          info'[s].deps[i] # NULL =>
            i \in 1 .. Len(info[s].deps) /\ info'[s].deps[i] = info[s].deps[i]
    BY <2>3, <2>5
  <2>7. Ready(info')
    BY <1>2, <2>2, <2>6, ReadyKept
  <2>8. CtorOrder(stack', info')
    BY <1>23, <2>2
  <2>9. info[a].inits = 1
    <3>1. Top = stack[Len(stack)] /\ Len(stack) \in 1 .. Len(stack)
      BY <2>2, StackLength DEF Top
    <3> QED BY <1>2, <2>1, <2>2, <3>1 DEF StoppedFrames
  <2>10. ASSUME info[a].deps[Top.i] \in PoolEntry
         PROVE  info[a].deps[Top.i] \in Slots /\ info[info[a].deps[Top.i]].inits = 1
    <3>1. info[a].deps[Top.i] \in Slots /\ info[a].deps[Top.i] # NULL
      BY <2>10, PoolEntries
    <3>2. AllStarted(info, a)
      BY <1>2, <2>9 DEF Ready
    <3> QED BY <2>2, <3>1, <3>2 DEF AllStarted
  <2>11. StoppedFrames(stack', info')
    BY <1>2, <2>2, <2>10, StoppedNext
  <2> QED BY <1>1, <2>7, <2>8, <2>11
<1>27. CASE UnloadFree
  BY <1>1, <1>2, <1>3, <1>23, <1>27, UnloadFreeStep, UnloadFreeFields, StoppedNext
<1> QED BY <1>9, <1>10, <1>11, <1>12, <1>13, <1>14, <1>15, <1>16, <1>17, <1>20, <1>21, <1>22,
           <1>24, <1>25, <1>26, <1>27, InsideCases DEF Ctors

(* At first no constructor is in progress.                                 *)
LEMMA InOrderInitially ==
  ASSUME Init
  PROVE  InOrder
<1>1. stack = << >>
  BY DEF Init
<1>2. \A s \in Slots : info[s].inits = 0 /\ info[s].deps = << >>
  BY InfoInitially, SoinfoMade
<1>3. CtorOrder(stack, info)
  <2>1. Len(stack) = 0
    BY <1>1
  <2> QED BY <2>1, CtorOrderNone
<1>4. Ready(info)
  BY <1>2 DEF Ready
<1>5. StoppedFrames(stack, info)
  BY <1>1 DEF StoppedFrames
<1> QED BY <1>3, <1>4, <1>5 DEF InOrder

(* Every step keeps the order.                                             *)
LEMMA InOrderStep ==
  ASSUME LibDLUnnamed, HandleInv, TypeInv', Acyclic, InOrder, [Next]_vars
  PROVE  InOrder'
<1> USE DEF HandleInv, CountInv
<1>1. Ready(info) /\ CtorOrder(stack, info) /\ StoppedFrames(stack, info)
  BY DEF InOrder
<1>2. CASE UNCHANGED vars
  <2>1. stack' = stack /\ info' = info
    BY <1>2 DEF vars, pool
  <2> QED BY <1>1, <2>1 DEF InOrder
<1>3. ASSUME info' = info, NoCtor(stack') \/ Len(stack') = 0,
             \A k \in 1 .. Len(stack') : stack'[k].fn = "unload" => info[stack'[k].si].inits = 1
      PROVE  InOrder'
  <2>1. CtorOrder(stack', info')
    <3>1. Len(stack') \in Nat
      BY LenProperties DEF TypeInv, LinkerTypes
    <3> HIDE DEF HandleInv, CountInv
    <3> QED BY <1>3, <3>1, CtorOrderNone
  <2> QED BY <1>1, <1>3, <2>1 DEF InOrder, StoppedFrames
<1>4. ASSUME NEW n \in Opened, Dlopen(n) PROVE InOrder'
  <2>1. /\ Len(stack') = 2 /\ info' = info
        /\ Is(stack'[1], "dlopen", NULL, 0, n) /\ Is(stack'[2], "find_library", NULL, 0, n)
    BY <1>4, DlopenStep
  <2>2. \A k \in 1 .. 2 : k = 1 \/ k = 2
    OBVIOUS
  <2>3. NoCtor(stack')
    BY <2>1, <2>2 DEF NoCtor, Is
  <2>4. \A k \in 1 .. Len(stack') : stack'[k].fn # "unload"
    BY <2>1, <2>2 DEF Is
  <2> QED BY <1>3, <2>1, <2>3, <2>4
<1>5. ASSUME NEW s \in Slots, Dlclose(s) PROVE InOrder'
  <2>1. /\ Len(stack') = 1 /\ info' = info /\ Is(stack'[1], "unload", s, 0, info[s].name)
        /\ handles[s] > 0
    BY <1>5, DlcloseStep
  <2>2. \A k \in 1 .. 1 : k = 1
    OBVIOUS
  <2>3. NoCtor(stack')
    BY <2>1, <2>2 DEF NoCtor, Is
  <2>4. info[s].inits = 1
    BY <2>1 DEF HandlesUsable
  <2>5. \A k \in 1 .. Len(stack') : info[stack'[k].si].inits = 1
    BY <2>1, <2>2, <2>4 DEF Is
  <2> QED BY <1>3, <2>1, <2>3, <2>5
<1>6. ASSUME NEW s \in Slots, LibraryDestroy(s) PROVE InOrder'
  BY <1>1, <1>6, LibraryDestroyStep DEF InOrder
<1>7. ASSUME NEW n \in Stubs, LibraryCreate(n) PROVE InOrder'
  <2>1. stack' = << >> /\ stack = << >> /\ n \in Libraries
    BY <1>7, LibraryCreateStep
  <2>2. PICK a \in PoolEntry : a \notin On(Solist) /\ Only(a) /\ info'[a] = Stub(n)
    BY <1>7, LibraryCreateStep
  <2>3. a \in Slots /\ info'[a].inits = 0
    BY <2>1, <2>2, SoinfoMade, PoolEntries
  <2>4. Ready(info')
    BY <1>1, <2>2, <2>3, AllocReady DEF PresentInv
  <2>5. Len(stack') = 0
    BY <2>1
  <2>6. CtorOrder(stack', info') /\ StoppedFrames(stack', info')
    BY <2>5, CtorOrderNone DEF StoppedFrames
  <2> QED BY <2>4, <2>6 DEF InOrder
<1>8. CASE Inside
  BY <1>8, InOrderInside
<1> QED BY <1>2, <1>4, <1>5, <1>6, <1>7, <1>8 DEF Next

(* Destructors run once, after the constructors.                           *)
LEMMA FiniStep ==
  ASSUME LibDLUnnamed, HandleInv, TypeInv', InOrder, FiniAfterInit, [Next]_vars
  PROVE  FiniAfterInit'
<1> USE DEF HandleInv, CountInv
<1>1. ASSUME SameInits, SameFinis PROVE FiniAfterInit'
  BY <1>1 DEF FiniAfterInit, SameInits, SameFinis
<1>2. info' = info => SameInits /\ SameFinis
  BY DEF SameInits, SameFinis
<1>3. ASSUME NEW a, Only(a), a \in Slots => info'[a].inits = 0 /\ info'[a].finis = 0
      PROVE  FiniAfterInit'
  BY <1>3 DEF FiniAfterInit, Only
<1>4. CASE UNCHANGED vars
  BY <1>1, <1>2, <1>4 DEF vars, pool
<1>5. ASSUME NEW n \in Opened, Dlopen(n) PROVE FiniAfterInit'
  BY <1>1, <1>2, <1>5, DlopenStep
<1>6. ASSUME NEW s \in Slots, Dlclose(s) PROVE FiniAfterInit'
  BY <1>1, <1>2, <1>6, DlcloseStep
<1>7. ASSUME NEW s \in Slots, LibraryDestroy(s) PROVE FiniAfterInit'
  BY <1>1, <1>2, <1>7, LibraryDestroyStep
<1>8. ASSUME NEW n \in Stubs, LibraryCreate(n) PROVE FiniAfterInit'
  <2>1. n \in Libraries
    BY <1>8, LibraryCreateStep
  <2> QED BY <1>3, <1>8, <2>1, LibraryCreateStep, SoinfoMade
<1>9. CASE Inside
  <2>1. CASE FindLibrary
    BY <1>1, <1>2, <2>1, FindLibraryStep
  <2>2. CASE LoadRefused
    BY <1>1, <1>2, <2>2, LoadRefusedStep
  <2>3. CASE LoadAlloc
    BY <1>1, <1>2, <1>3, <2>3, LoadAllocStep, SoinfoMade
  <2>4. CASE LoadSegments
    BY <1>1, <2>4, LoadSegmentsFields
  <2>5. CASE LoadFails
    BY <1>1, <1>2, <2>5, LoadFailsStep
  <2>6. CASE LinkFails
    BY <1>1, <2>6, LinkFailFields
  <2>7. CASE LinkFind
    BY <1>1, <1>2, <2>7, LinkFindStep
  <2>8. CASE LinkNeeded /\ ret # NULL
    BY <1>1, <2>8, LinkNeededFields
  <2>9. CASE LinkFinish /\ ~LinkFail(TRUE)
    BY <1>1, <2>9, LinkedFields
  <2>10. CASE DlopenFound
    BY <1>1, <1>2, <2>10, DlopenFoundStep
  <2>11. CASE DlopenReturn
    BY <1>1, <2>11, DlopenReturnFields
  <2>12. CASE CtorEnter
    BY <1>1, <2>12, CtorEnterFields
  <2>13. CASE CtorNeeded
    BY <1>1, <1>2, <2>13, CtorNeededStep
  <2>14. CASE CtorInit
    BY <1>1, <1>2, <2>14, CtorInitStep
  <2>15. CASE InitReturns
    <3>1. /\ SameFinis /\ info'[Top.si].inits = info[Top.si].inits + 1
          /\ \A s \in Slots : s # Top.si => info'[s].inits = info[s].inits
      BY <2>15, InitReturnsFields
    <3>2. \A s \in Slots : info[s].inits \in Nat /\ info[s].finis \in Nat
      BY InfoFields DEF TypeInv
    <3> QED BY <3>1, <3>2 DEF FiniAfterInit, SameFinis
  <2>16. CASE UnloadEnter
    BY <1>1, <1>2, <2>16, UnloadEnterStep, UnloadEnterFields
  <2>17. CASE FiniReturns
    <3>1. /\ stack # << >> /\ Top.fn = "fini" /\ Pops(stack, stack') /\ SameInits
          /\ info'[Top.si].finis = info[Top.si].finis + 1
          /\ \A s \in Slots : s # Top.si => info'[s].finis = info[s].finis
      BY <2>17, FiniReturnsStep, FiniReturnsFields
    <3>2. PICK a \in Slots : a = Top.si
      BY <2>17, FiniReturnsStep, PoolEntries
    <3>3. info[a].finis = 0
      BY <3>1, <3>2 DEF Stopping, InFn
    <3>4. info[a].inits = 1
      <4>1. PICK k \in 1 .. Len(stack') : stack'[k].fn = "unload" /\ stack'[k].si = a
        BY <3>1, <3>2, ClosingTop
      <4>2. stack'[k] = stack[k] /\ k \in 1 .. Len(stack)
        BY <3>1, StackLength DEF Pops
      <4> QED BY <4>1, <4>2 DEF InOrder, StoppedFrames
    <3>5. ASSUME NEW s \in Slots PROVE info'[s].finis <= info'[s].inits
      <4>1. info'[s].inits = info[s].inits
        BY <3>1 DEF SameInits
      <4>2. CASE s = a
        <5>1. info'[s].finis = 1
          BY <3>1, <3>2, <3>3, <4>2
        <5> QED BY <3>4, <4>1, <4>2, <5>1
      <4>3. CASE s # a
        BY <3>1, <3>2, <4>1, <4>3 DEF FiniAfterInit
      <4> QED BY <4>2, <4>3
    <3> QED BY <3>5 DEF FiniAfterInit
  <2>18. CASE UnloadNeeded
    BY <1>1, <2>18, UnloadNeededFields
  <2>19. CASE UnloadFree
    BY <1>1, <2>19, UnloadFreeFields
  <2> QED BY <1>9, <2>1, <2>2, <2>3, <2>4, <2>5, <2>6, <2>7, <2>8, <2>9, <2>10, <2>11, <2>12,
             <2>13, <2>14, <2>15, <2>16, <2>17, <2>18, <2>19, InsideCases
<1> QED BY <1>4, <1>5, <1>6, <1>7, <1>8, <1>9 DEF Next

(* FiniAfterInit: destructors run only for a library whose constructors    *)
(* ran, in every state of the linker.                                      *)
THEOREM FiniAlwaysAfterInit ==
  ASSUME LibDLUnnamed
  PROVE  Spec => []FiniAfterInit
<1> DEFINE Inv == HandleInv /\ Acyclic /\ InOrder /\ FiniAfterInit
<1>1. Init => Inv
  <2>1. SUFFICES ASSUME Init PROVE Inv
    OBVIOUS
  <2>2. \A s \in Slots : info[s].inits = 0 /\ info[s].finis = 0
    BY <2>1, InfoInitially, SoinfoMade
  <2>3. FiniAfterInit
    BY <2>2 DEF FiniAfterInit
  <2> QED BY SMTT(20), <2>1, <2>3, HandleInvInitially, AcyclicInitially, InOrderInitially
<1>2. Inv /\ [Next]_vars => Inv'
  <2>1. SUFFICES ASSUME Inv, [Next]_vars PROVE Inv'
    OBVIOUS
  <2>2. HandleInv' /\ TypeInv'
    BY <2>1, HandleInvStep DEF HandleInv, CountInv
  <2>3. Acyclic'
    BY <2>1, <2>2, AcyclicStep DEF HandleInv, CountInv
  <2>4. InOrder'
    BY <2>1, <2>2, InOrderStep
  <2>5. FiniAfterInit'
    BY <2>1, <2>2, FiniStep
  <2> QED BY <2>2, <2>3, <2>4, <2>5
<1>3. Inv => FiniAfterInit
  OBVIOUS
<1> QED BY <1>1, <1>2, <1>3, PTL DEF Spec

-----------------------------------------------------------------------------
(* What the program sees of a library.  Each name stands on solist at most *)
(* once, so its entry is what its status is read from.                     *)
NamesOnce ==
  \A s, t \in Slots :
    s \in On(Solist) /\ t \in On(Solist) /\ info[s].name = info[t].name => s = t

StatusOf(x) ==
  IF x.error THEN "failed"
  ELSE IF ~x.linked THEN "absent"
  ELSE IF x.finis > 0 THEN "stopped"
  ELSE IF x.image = "none" THEN "stub"
  ELSE IF x.inits > 0 THEN "started" ELSE "linked"

(* The status and the handles of every name, from the entries of a list.   *)
Shows(st, op, on, x, h) ==
  \A n \in Libraries :
    /\ \A s \in on : x[s].name = n => st[n] = StatusOf(x[s]) /\ op[n] = h[s]
    /\ (\A s \in on : x[s].name # n) => st[n] = "absent" /\ op[n] = 0

(* find_library, of any list: the first entry with the name, if any.       *)
FirstOf(l, x, n) ==
  LET named == { k \in DOMAIN l : x[l[k]].name = n }
  IN  IF named = {} THEN NULL
      ELSE l[CHOOSE k \in named : \A j \in named : k <= j]

(* It has the name; there is none when no entry of the list has it.        *)
LEMMA FirstNamed ==
  ASSUME NEW l \in Seq(Slots), NEW x, NEW n
  PROVE  /\ FirstOf(l, x, n) # NULL => FirstOf(l, x, n) \in On(l) /\ x[FirstOf(l, x, n)].name = n
         /\ FirstOf(l, x, n) = NULL => \A s \in On(l) : x[s].name # n
<1> DEFINE named == { k \in DOMAIN l : x[l[k]].name = n }
<1>1. /\ DOMAIN l = 1 .. Len(l) /\ Len(l) \in Nat /\ NULL \notin Slots
      /\ \A k \in 1 .. Len(l) : l[k] \in Slots
  BY ElementOfSeq, LenProperties, PoolEntries
<1>2. FirstOf(l, x, n) = IF named = {} THEN NULL
                         ELSE l[CHOOSE k \in named : \A j \in named : k <= j]
  BY DEF FirstOf
<1>3. CASE named = {}
  BY <1>2, <1>3 DEF On
<1>4. CASE named # {}
  <2>1. named \in SUBSET Nat
    BY <1>1
  <2>2. \E k \in named : \A j \in named : k <= j
    <3> HIDE DEF named
    <3> QED BY <1>4, <2>1, LeastNumber
  <2>3. PICK m \in named : FirstOf(l, x, n) = l[m]
    <3> HIDE DEF named
    <3> QED BY <1>2, <1>4, <2>2
  <2>4. FirstOf(l, x, n) \in On(l) /\ x[FirstOf(l, x, n)].name = n
    BY <2>3 DEF On
  <2>5. m \in 1 .. Len(l)
    BY <1>1
  <2>6. FirstOf(l, x, n) # NULL
    BY <1>1, <2>3, <2>5
  <2> QED BY <2>4, <2>6
<1> QED BY <1>3, <1>4

(* With each name once, what is read through find_library shows the list.  *)
LEMMA ShowsFirst ==
  ASSUME NEW l \in Seq(Slots), NEW x, NEW h, NEW st, NEW op,
         \A s, t \in Slots : s \in On(l) /\ t \in On(l) /\ x[s].name = x[t].name => s = t,
         \A n \in Libraries : FirstOf(l, x, n) = NULL => st[n] = "absent" /\ op[n] = 0,
         \A n \in Libraries : FirstOf(l, x, n) \in Slots =>
           /\ st[n] = StatusOf(x[FirstOf(l, x, n)])
           /\ op[n] = h[FirstOf(l, x, n)]
  PROVE  Shows(st, op, On(l), x, h)
<1>1. \A s \in On(l) : s \in Slots
  BY ElementOfSeq, LenProperties DEF On
<1>2. SUFFICES ASSUME NEW n \in Libraries
      PROVE  /\ \A s \in On(l) : x[s].name = n => st[n] = StatusOf(x[s]) /\ op[n] = h[s]
             /\ (\A s \in On(l) : x[s].name # n) => st[n] = "absent" /\ op[n] = 0
  BY DEF Shows
<1>3. PICK f : f = FirstOf(l, x, n)
  OBVIOUS
<1>4. /\ f # NULL => f \in On(l) /\ x[f].name = n
      /\ f = NULL => \A s \in On(l) : x[s].name # n
  BY <1>3, FirstNamed
<1>5. ASSUME NEW s \in On(l), x[s].name = n PROVE st[n] = StatusOf(x[s]) /\ op[n] = h[s]
  <2>1. f = s /\ f \in Slots
    BY <1>1, <1>4, <1>5
  <2> QED BY <1>3, <2>1
<1>6. ASSUME \A s \in On(l) : x[s].name # n PROVE st[n] = "absent" /\ op[n] = 0
  BY <1>3, <1>4, <1>6
<1> QED BY <1>5, <1>6

(* The status of an entry, and of none.                                    *)
LEMMA EntryStatus ==
  /\ \A s \in Slots : Status[s] = StatusOf(info[s]) /\ Opens[s] = handles[s]
  /\ Status[NULL] = "absent" /\ Opens[NULL] = 0
  /\ \A s \in Slots : Status'[s] = StatusOf(info'[s]) /\ Opens'[s] = handles'[s]
  /\ Status'[NULL] = "absent" /\ Opens'[NULL] = 0
<1>1. NULL \notin Slots /\ NULL \in Entries /\ \A s \in Slots : s \in Entries /\ s # NULL
  BY PoolEntries DEF Entries
<1>2. \A s \in Slots : Status[s] = StatusOf(info[s]) /\ Opens[s] = handles[s]
  BY <1>1 DEF Status, StatusOf, Opens
<1>3. Status[NULL] = "absent" /\ Opens[NULL] = 0
  BY <1>1 DEF Status, Opens
<1>4. \A s \in Slots : Status'[s] = StatusOf(info'[s]) /\ Opens'[s] = handles'[s]
  BY <1>1 DEF Status, StatusOf, Opens, Entries
<1>5. Status'[NULL] = "absent" /\ Opens'[NULL] = 0
  BY <1>1 DEF Status, Opens, Entries
<1> QED BY <1>2, <1>3, <1>4, <1>5

Show     == Shows(LibraryStatus, LibraryOpens, On(Solist), info, handles)
ShowNext == Shows(LibraryStatus', LibraryOpens', On(Solist)', info', handles')

(* What the program sees is what solist shows, in every state ...          *)
LEMMA ShowsNow ==
  ASSUME TypeInv, NamesOnce
  PROVE  Show
<1>1. Solist \in Seq(Slots)
  BY DEF TypeInv, ListInv, Chains, IsChain
<1>2. \A n : Lookup(n) = FirstOf(Solist, info, n)
  BY DEF Lookup, FirstOf
<1>3. \A n \in Libraries : LibraryStatus[n] = Status[Lookup(n)] /\ LibraryOpens[n] = Opens[Lookup(n)]
  BY DEF LibraryStatus, LibraryOpens
<1>4. \A n \in Libraries : FirstOf(Solist, info, n) = NULL =>
        LibraryStatus[n] = "absent" /\ LibraryOpens[n] = 0
  BY <1>2, <1>3, EntryStatus
<1>5. \A n \in Libraries : FirstOf(Solist, info, n) \in Slots =>
        /\ LibraryStatus[n] = StatusOf(info[FirstOf(Solist, info, n)])
        /\ LibraryOpens[n] = handles[FirstOf(Solist, info, n)]
  BY <1>2, <1>3, EntryStatus
<1> QED BY <1>1, <1>4, <1>5, ShowsFirst DEF NamesOnce, Show

(* ... and in the next one.                                                *)
LEMMA ShowsThen ==
  ASSUME TypeInv', NamesOnce'
  PROVE  ShowNext
<1>1. Solist' \in Seq(Slots)
  BY DEF TypeInv, ListInv, Chains, IsChain
<1>2. \A n : Lookup(n)' = FirstOf(Solist', info', n)
  BY DEF Lookup, FirstOf
<1>3. \A n \in Libraries :
        LibraryStatus'[n] = Status'[Lookup(n)'] /\ LibraryOpens'[n] = Opens'[Lookup(n)']
  BY DEF LibraryStatus, LibraryOpens
<1>4. \A n \in Libraries : FirstOf(Solist', info', n) = NULL =>
        LibraryStatus'[n] = "absent" /\ LibraryOpens'[n] = 0
  BY <1>2, <1>3, EntryStatus
<1>5. \A n \in Libraries : FirstOf(Solist', info', n) \in Slots =>
        /\ LibraryStatus'[n] = StatusOf(info'[FirstOf(Solist', info', n)])
        /\ LibraryOpens'[n] = handles'[FirstOf(Solist', info', n)]
  BY <1>2, <1>3, EntryStatus
<1>6. On(Solist)' = On(Solist')
  BY DEF On
<1>7. \A s, t \in Slots :
        s \in On(Solist') /\ t \in On(Solist') /\ info'[s].name = info'[t].name => s = t
  BY <1>6 DEF NamesOnce
<1> QED BY <1>1, <1>4, <1>5, <1>6, <1>7, ShowsFirst DEF ShowNext

-----------------------------------------------------------------------------
(* Steps that the program cannot see: the fields its promise depends on    *)
(* stay as they are, and so does solist.                                   *)
Unseen ==
  /\ SameName /\ SameLinked /\ SameError /\ SameImage /\ SameInits /\ SameFinis
  /\ On(Solist)' = On(Solist)
Seen ==
  \/ LoadAlloc \/ LoadSegments \/ LoadFails \/ LinkFails \/ (LinkFinish /\ ~LinkFail(TRUE))
  \/ InitReturns \/ FiniReturns \/ UnloadFree
  \/ (\E n \in Stubs : LibraryCreate(n)) \/ (\E s \in Slots : LibraryDestroy(s))

(* Every other step is one of those.                                       *)
LEMMA SeenCases ==
  ASSUME LibDLUnnamed, TypeInv, [Next]_vars
  PROVE  \/ Seen
         \/ /\ Unseen
            /\ SameDeps \/ (LinkNeeded /\ ret # NULL) \/ UnloadNeeded
            /\ handles' = handles \/ DlopenReturn \/ \E s \in Slots : Dlclose(s)
<1>1. ASSUME info' = info, UNCHANGED lists PROVE Unseen /\ SameDeps
  BY <1>1, ListsSame, SameInfo DEF Unseen, AllSame
<1>2. CASE UNCHANGED vars
  BY <1>1, <1>2 DEF vars, pool
<1>3. ASSUME NEW n \in Opened, Dlopen(n) PROVE Unseen /\ SameDeps /\ handles' = handles
  BY <1>1, <1>3, DlopenStep
<1>4. ASSUME NEW s \in Slots, Dlclose(s) PROVE Unseen /\ SameDeps
  BY <1>1, <1>4, DlcloseStep
<1>5. CASE Inside
  <2>1. CASE FindLibrary
    BY <1>1, <2>1, FindLibraryStep
  <2>2. CASE LoadRefused
    BY <1>1, <2>2, LoadRefusedStep
  <2>3. CASE LinkFind
    BY SMTT(20), <1>1, <2>3, LinkFindStep
  <2>4. CASE LinkNeeded /\ ret # NULL
    BY <2>4, LinkNeededStep, LinkNeededFields, ListsSame DEF Unseen
  <2>5. CASE DlopenFound
    BY <1>1, <2>5, DlopenFoundStep
  <2>6. CASE DlopenReturn
    BY <2>6, DlopenReturnStep, DlopenReturnFields, ListsSame DEF Unseen
  <2>7. CASE CtorEnter
    BY <2>7, CtorEnterStep, CtorEnterFields, ListsSame DEF Unseen
  <2>8. CASE CtorNeeded
    BY <1>1, <2>8, CtorNeededStep
  <2>9. CASE CtorInit
    BY <1>1, <2>9, CtorInitStep
  <2>10. CASE UnloadEnter
    <3>1. CASE info[Top.si].refcount = 1
      BY <1>1, <2>10, <3>1, UnloadEnterStep
    <3>2. CASE info[Top.si].refcount # 1
      BY SMTT(20), <2>10, <3>2, UnloadEnterStep, UnloadEnterFields, ListsSame DEF Unseen
    <3> QED BY <3>1, <3>2
  <2>11. CASE UnloadNeeded
    BY <2>11, UnloadNeededStep, UnloadNeededFields, ListsSame DEF Unseen
  <2> QED BY <1>5, <2>1, <2>2, <2>3, <2>4, <2>5, <2>6, <2>7, <2>8, <2>9, <2>10, <2>11,
             InsideCases DEF Seen
<1> QED BY <1>2, <1>3, <1>4, <1>5 DEF Next, Seen

(* The innermost call after a step.                                        *)
LEMMA TopNext ==
  ASSUME TypeInv, TypeInv', stack # << >>
  PROVE  /\ ShapeInv /\ WorkInv /\ Pops(stack, stack') => ~InFn("load_library")'
         /\ \A fn, si, i, m : Moving(fn, si, i, m) => stack' # << >> /\ Is(Top', fn, si, i, m)
         /\ \A si, i, fn, s, m :
              Calling(si, i, fn, s, m) => stack' # << >> /\ Is(Top', fn, s, 0, m)
<1>1. Len(stack) \in Nat \ {0}
  BY StackLength
<1>2. Top' = stack'[Len(stack')]
  BY DEF Top
<1>3. ASSUME ShapeInv, WorkInv, Pops(stack, stack') PROVE ~InFn("load_library")'
  <2>1. SUFFICES ASSUME stack' # << >>, Top'.fn = "load_library" PROVE FALSE
    BY DEF InFn
  <2>2. Len(stack') = Len(stack) - 1
    BY <1>3 DEF Pops
  <2>3. CASE Len(stack) = 1
    <3>1. Len(stack') = 0
      BY <2>2, <2>3
    <3>2. stack' \in Seq(Frames)
      BY DEF TypeInv, LinkerTypes
    <3> QED BY <2>1, <3>1, <3>2, EmptySeq
  <2>4. CASE Len(stack) # 1
    <3>1. PICK k \in 1 .. Len(stack) - 1 : k = Len(stack')
      BY <1>1, <2>2, <2>4
    <3>2. stack'[k] = stack[k]
      BY <1>3, <3>1 DEF Pops
    <3>3. stack[k].fn \notin Finding
      BY <1>3, WorkBeneath
    <3> QED BY <1>2, <2>1, <3>1, <3>2, <3>3 DEF Finding
  <2> QED BY <2>3, <2>4
<1>4. ASSUME NEW fn, NEW si, NEW i, NEW m, Moving(fn, si, i, m)
      PROVE  stack' # << >> /\ Is(Top', fn, si, i, m)
  <2>1. PICK f \in Frames : Sets(stack, stack', f) /\ Is(f, fn, si, i, m)
    BY <1>4 DEF Moving
  <2>2. Len(stack') = Len(stack) /\ Top' = f
    BY <1>2, <2>1 DEF Sets
  <2> QED BY <1>1, <2>1, <2>2
<1>5. ASSUME NEW si, NEW i, NEW fn, NEW s, NEW m, Calling(si, i, fn, s, m)
      PROVE  stack' # << >> /\ Is(Top', fn, s, 0, m)
  <2>1. PICK g \in Frames : /\ Len(stack') = Len(stack) + 1 /\ stack'[Len(stack) + 1] = g
                            /\ Is(g, fn, s, 0, m)
    BY <1>5 DEF Calling, Calls
  <2>2. Top' = g /\ Len(stack') # 0
    BY <1>1, <1>2, <2>1
  <2> QED BY <2>1, <2>2
<1> QED BY <1>3, <1>4, <1>5

(* load_library is the innermost call only after find_library called it,   *)
(* and while it has its soinfo.                                            *)
LEMMA LoadsOnly ==
  ASSUME LibDLUnnamed, TypeInv, TypeInv', ShapeInv, WorkInv, Next, ~FindLibrary, ~LoadAlloc
  PROVE  ~InFn("load_library")'
<1>1. ASSUME stack # << >>, Pops(stack, stack') PROVE ~InFn("load_library")'
  BY <1>1, TopNext
<1>2. ASSUME stack # << >>, NEW fn, NEW si, NEW i, NEW m, Moving(fn, si, i, m),
             fn # "load_library"
      PROVE  ~InFn("load_library")'
  BY <1>2, TopNext DEF InFn, Is
<1>3. ASSUME stack # << >>, NEW si, NEW i, NEW fn, NEW s, NEW m, Calling(si, i, fn, s, m),
             fn # "load_library"
      PROVE  ~InFn("load_library")'
  BY <1>3, TopNext DEF InFn, Is
<1>4. ASSUME NEW n \in Opened, Dlopen(n) PROVE ~InFn("load_library")'
  <2>1. Len(stack') = 2 /\ stack'[2].fn = "find_library"
    BY <1>4, DlopenStep DEF Is
  <2> QED BY <2>1 DEF InFn, Top
<1>5. ASSUME NEW s \in Slots, Dlclose(s) PROVE ~InFn("load_library")'
  <2>1. Len(stack') = 1 /\ stack'[1].fn = "unload"
    BY <1>5, DlcloseStep DEF Is
  <2> QED BY <2>1 DEF InFn, Top
<1>6. ASSUME NEW s \in Slots, LibraryDestroy(s) PROVE ~InFn("load_library")'
  BY <1>6, LibraryDestroyStep DEF InFn
<1>7. ASSUME NEW n \in Stubs, LibraryCreate(n) PROVE ~InFn("load_library")'
  BY <1>7, LibraryCreateStep DEF InFn
<1>8. CASE Inside
  <2>1. CASE LoadRefused
    BY <1>1, <2>1, LoadRefusedStep
  <2>2. CASE LoadSegments
    BY <1>2, <2>2, LoadSegmentsStep
  <2>3. CASE LoadFails
    BY SMTT(20), <1>1, <2>3, LoadFailsStep
  <2>4. CASE LinkFails
    BY <1>1, <2>4, LinkFailStep
  <2>5. CASE LinkFind
    BY <1>3, <2>5, LinkFindStep
  <2>6. CASE LinkNeeded /\ ret # NULL
    BY <1>2, <2>6, LinkNeededStep
  <2>7. CASE LinkFinish /\ ~LinkFail(TRUE)
    BY <1>1, <2>7, LinkedStep
  <2>8. CASE DlopenFound
    BY <1>1, <1>3, <2>8, DlopenFoundStep
  <2>9. CASE DlopenReturn
    BY <1>1, <2>9, DlopenReturnStep
  <2>10. CASE CtorEnter
    BY <1>1, <1>2, <2>10, CtorEnterStep
  <2>11. CASE CtorNeeded
    BY <1>2, <1>3, <2>11, CtorNeededStep
  <2>12. CASE CtorInit
    BY <1>2, <2>12, CtorInitStep
  <2>13. CASE InitReturns
    BY <1>1, <2>13, InitReturnsStep
  <2>14. CASE UnloadEnter
    BY <1>1, <1>3, <2>14, UnloadEnterStep
  <2>15. CASE FiniReturns
    BY <1>1, <2>15, FiniReturnsStep
  <2>16. CASE UnloadNeeded
    BY <1>2, <1>3, <2>16, UnloadNeededStep
  <2>17. CASE UnloadFree
    BY <1>1, <2>17, UnloadFreeStep
  <2> QED BY <1>8, <2>1, <2>2, <2>3, <2>4, <2>5, <2>6, <2>7, <2>8, <2>9, <2>10, <2>11, <2>12,
             <2>13, <2>14, <2>15, <2>16, <2>17, InsideCases
<1> QED BY <1>4, <1>5, <1>6, <1>7, <1>8 DEF Next

(* And while it is, only its own steps are taken.                          *)
LEMMA LoadedNext ==
  ASSUME LibDLUnnamed, TypeInv, Next, InFn("load_library")
  PROVE  LoadRefused \/ LoadAlloc \/ LoadSegments \/ LoadFails
<1>1. stack # << >> /\ Top.fn = "load_library"
  BY DEF InFn
<1>2. CASE Inside
  <2>1. ~FindLibrary /\ ~LinkFind /\ ~LinkFails
    BY <1>1, FindLibraryStep, LinkFindStep, LinkFailStep
  <2>2. ~(LinkNeeded /\ ret # NULL) /\ ~(LinkFinish /\ ~LinkFail(TRUE))
    BY <1>1, LinkNeededStep, LinkedStep
  <2>3. ~DlopenFound /\ ~DlopenReturn
    BY <1>1, DlopenFoundStep, DlopenReturnStep
  <2>4. ~CtorEnter /\ ~CtorNeeded /\ ~CtorInit /\ ~InitReturns
    BY <1>1, CtorEnterStep, CtorNeededStep, CtorInitStep, InitReturnsStep
  <2>5. ~UnloadEnter /\ ~FiniReturns
    BY <1>1, UnloadEnterStep, FiniReturnsStep
  <2>6. ~UnloadNeeded /\ ~UnloadFree
    BY <1>1, UnloadNeededStep, UnloadFreeStep
  <2> QED BY <1>2, <2>1, <2>2, <2>3, <2>4, <2>5, <2>6, InsideCases
<1>3. \A n \in Opened : ~Dlopen(n)
  BY <1>1, DlopenStep
<1>4. \A s \in Slots : ~Dlclose(s) /\ ~LibraryDestroy(s)
  BY <1>1, DlcloseStep, LibraryDestroyStep
<1>5. \A n \in Stubs : ~LibraryCreate(n)
  BY <1>1, LibraryCreateStep
<1> QED BY <1>2, <1>3, <1>4, <1>5 DEF Next

-----------------------------------------------------------------------------
(* Names.  A library is loaded only when solist has none of that name.     *)
Sought ==
  InFn("load_library") /\ Top.si = NULL => \A s \in On(Solist) : info[s].name # Top.name
NamesInv == NamesOnce /\ Sought

(* At first solist holds libdl_info and the stubs, each with its own name. *)
LEMMA NamesInitially ==
  ASSUME Init
  PROVE  NamesInv
<1>1. Sought
  BY DEF Sought, Init, InFn
<1>2. NamesOnce
  <2>1. PICK order \in [1 .. StubCount -> Stubs] :
          /\ \A i, j \in 1 .. StubCount : order[i] = order[j] => i = j
          /\ info = [s \in Slots |-> IF s = libdl_info THEN Stub(LibDL)
                                     ELSE IF s <= StubCount THEN Stub(order[s])
                                     ELSE Soinfo(LibDL)]
    BY DEF Init
  <2>2. On(Solist) \subseteq 0 .. StubCount /\ StubCount \in Nat
    <3>1. TypeInv
      BY TypesInitially
    <3>2. On(Solist) \subseteq 0 .. socount
      BY <3>1, ListsRight DEF TypeInv, ListsWellFormed
    <3>3. StubCount \in Nat
      BY LinkerAssumption, FS_CardinalityType DEF StubCount
    <3> QED BY <3>2, <3>3 DEF Init
  <2>3. ASSUME NEW s \in Slots, s \in On(Solist)
        PROVE  \/ s = libdl_info /\ info[s].name = LibDL
               \/ s \in 1 .. StubCount /\ info[s].name = order[s] /\ order[s] \in Stubs
    <3>1. CASE s = libdl_info
      <4>1. info[s] = Stub(LibDL)
        BY <2>1, <3>1
      <4> QED BY <3>1, <4>1, LinkerAssumption, SoinfoMade
    <3>2. CASE s # libdl_info
      <4>1. s \in 1 .. StubCount
        BY <2>2, <2>3, <3>2 DEF libdl_info
      <4>2. info[s] = Stub(order[s]) /\ order[s] \in Stubs
        BY <2>1, <2>2, <3>2, <4>1
      <4> QED BY <4>1, <4>2, LinkerAssumption, SoinfoMade
    <3> QED BY <3>1, <3>2
  <2>4. LibDL \notin Stubs
    BY LinkerAssumption
  <2> QED BY <2>1, <2>3, <2>4 DEF NamesOnce
<1> QED BY <1>1, <1>2 DEF NamesInv

(* A name is added only when no entry has it.                              *)
LEMMA NamesStep ==
  ASSUME LibDLUnnamed, TypeInv, TypeInv', ShapeInv, WorkInv, NamesInv, [Next]_vars
  PROVE  NamesInv'
<1> USE DEF NamesInv
<1>1. ASSUME SameName, On(Solist)' \subseteq On(Solist) PROVE NamesOnce'
  BY <1>1 DEF NamesOnce, SameName
<1>2. ASSUME NEW a \in PoolEntry, On(Solist)' = On(Solist) \cup {a}, Only(a),
             \A s \in On(Solist) : s \in Slots /\ info[s].name # info'[a].name
      PROVE  NamesOnce'
  <2>1. \A s \in Slots : s # a => info'[s].name = info[s].name
    BY <1>2 DEF Only
  <2> QED BY <1>2, <2>1 DEF NamesOnce
<1>3. On(Solist) \subseteq Slots
  BY ListsRight DEF TypeInv
<1>4. NamesOnce'
  <2>1. CASE Unseen
    BY <1>1, <2>1 DEF Unseen
  <2>2. CASE LoadAlloc
    <3>1. CASE UNCHANGED << lists, info, debugMap >>
      BY <1>1, <3>1, ListsSame, SameInfo DEF AllSame
    <3>2. CASE ~UNCHANGED << lists, info, debugMap >>
      <4>1. PICK a \in PoolEntry :
              /\ On(Solist)' = On(Solist) \cup {a} /\ Only(a)
              /\ info'[a] = Soinfo(Top.name) /\ Top.name \in Libraries
        BY <2>2, <3>2, LoadAllocStep
      <4>2. info'[a].name = Top.name
        BY <4>1, SoinfoMade
      <4>3. \A s \in On(Solist) : info[s].name # Top.name
        BY <2>2, LoadAllocStep DEF Sought, InFn
      <4> QED BY <1>2, <1>3, <4>1, <4>2, <4>3
    <3> QED BY <3>1, <3>2
  <2>3. CASE LoadSegments
    BY <1>1, <2>3, LoadSegmentsStep, LoadSegmentsFields, ListsSame
  <2>4. CASE LoadFails
    BY SMTT(20), <1>1, <2>4, LoadFailsStep, SameInfo DEF AllSame
  <2>5. CASE LinkFails
    BY <1>1, <2>5, LinkFailStep, LinkFailFields, ListsSame
  <2>6. CASE LinkFinish /\ ~LinkFail(TRUE)
    BY <1>1, <2>6, LinkedStep, LinkedFields, ListsSame
  <2>7. CASE InitReturns
    BY <1>1, <2>7, InitReturnsStep, InitReturnsFields, ListsSame
  <2>8. CASE FiniReturns
    BY <1>1, <2>8, FiniReturnsStep, FiniReturnsFields, ListsSame
  <2>9. CASE UnloadFree
    BY <1>1, <2>9, UnloadFreeStep, UnloadFreeFields
  <2>10. ASSUME NEW n \in Stubs, LibraryCreate(n) PROVE NamesOnce'
    <3>1. PICK a \in PoolEntry :
            /\ On(Solist)' = On(Solist) \cup {a} /\ Only(a) /\ info'[a] = Stub(n)
            /\ n \in Libraries /\ \A s \in On(Solist) : info[s].name # n
      BY <2>10, LibraryCreateStep
    <3>2. info'[a].name = n
      BY <3>1, SoinfoMade
    <3> QED BY <1>2, <1>3, <3>1, <3>2
  <2>11. ASSUME NEW s \in Slots, LibraryDestroy(s) PROVE NamesOnce'
    BY <1>1, <2>11, LibraryDestroyStep, SameInfo DEF AllSame
  <2> QED BY <2>1, <2>2, <2>3, <2>4, <2>5, <2>6, <2>7, <2>8, <2>9, <2>10, <2>11,
             SeenCases DEF Seen
<1>5. Sought'
  <2>1. CASE UNCHANGED vars
    <3>1. stack' = stack /\ info' = info /\ On(Solist)' = On(Solist)
      BY <2>1, ListsSame DEF vars, pool
    <3> QED BY <3>1 DEF Sought, InFn, Top
  <2>2. CASE FindLibrary
    <3>1. /\ UNCHANGED << lists, info >> /\ stack # << >>
          /\ Pops(stack, stack') \/ Moving("load_library", NULL, 0, Top.name)
      BY <2>2, FindLibraryStep
    <3>2. CASE Pops(stack, stack')
      BY <3>1, <3>2, TopNext DEF Sought
    <3>3. CASE ~Pops(stack, stack')
      <4>1. Top'.name = Top.name
        BY <3>1, <3>3, TopNext DEF Is
      <4>2. stack' = Beneath => Pops(stack, stack')
        BY <3>1, StackSteps DEF TypeInv
      <4>3. Lookup(Top.name) = NULL
        BY <2>2, <3>3, <4>2 DEF FindLibrary, Return
      <4>4. \A s \in On(Solist) : info[s].name # Top.name
        BY <4>3, LookupRight DEF TypeInv
      <4>5. On(Solist)' = On(Solist) /\ info' = info
        BY <3>1, ListsSame
      <4> QED BY <4>1, <4>4, <4>5 DEF Sought
    <3> QED BY <3>2, <3>3
  <2>3. CASE LoadAlloc
    <3>1. stack # << >> /\ (Pops(stack, stack')
                            \/ \E a \in PoolEntry : Moving("load_library", a, Top.i, Top.name))
      BY <2>3, LoadAllocStep
    <3>2. CASE Pops(stack, stack')
      BY <3>1, <3>2, TopNext DEF Sought
    <3>3. CASE ~Pops(stack, stack')
      <4>1. PICK a \in PoolEntry : Top'.si = a
        BY <3>1, <3>3, TopNext DEF Is
      <4> QED BY <4>1, PoolEntries DEF Sought
    <3> QED BY <3>2, <3>3
  <2>4. CASE Next /\ ~FindLibrary /\ ~LoadAlloc
    BY <2>4, LoadsOnly DEF Sought
  <2> QED BY <2>1, <2>2, <2>3, <2>4
<1> QED BY <1>4, <1>5

(* The frames after a step: those beneath the innermost one stay.          *)
LEMMA FramesNext ==
  ASSUME TypeInv, stack # << >>
  PROVE  /\ \A k \in 1 .. Len(stack) - 1 : k \in 1 .. Len(stack)
         /\ Len(stack) \in 1 .. Len(stack) /\ Top = stack[Len(stack)] /\ Top \in Frames
         /\ Pops(stack, stack') =>
              \A k \in 1 .. Len(stack') : k \in 1 .. Len(stack) - 1 /\ stack'[k] = stack[k]
         /\ \A fn, si, i, m : Moving(fn, si, i, m) =>
              \A k \in 1 .. Len(stack') :
                \/ k \in 1 .. Len(stack) - 1 /\ stack'[k] = stack[k]
                \/ Is(stack'[k], fn, si, i, m)
         /\ \A si, i, fn, s, m : Calling(si, i, fn, s, m) =>
              \A k \in 1 .. Len(stack') :
                \/ k \in 1 .. Len(stack) - 1 /\ stack'[k] = stack[k]
                \/ Is(stack'[k], Top.fn, si, i, Top.name)
                \/ Is(stack'[k], fn, s, 0, m)
<1>1. PICK n \in Nat \ {0} : n = Len(stack)
  BY StackLength
<1>2. /\ \A k \in 1 .. n - 1 : k \in 1 .. n
      /\ n \in 1 .. n
  OBVIOUS
<1>3. Top = stack[n] /\ Top \in Frames
  BY <1>1, <1>2, StackLength DEF Top
<1>4. ASSUME Pops(stack, stack')
      PROVE  \A k \in 1 .. Len(stack') : k \in 1 .. n - 1 /\ stack'[k] = stack[k]
  BY <1>1, <1>4 DEF Pops
<1>5. ASSUME NEW fn, NEW si, NEW i, NEW m, Moving(fn, si, i, m)
      PROVE  \A k \in 1 .. Len(stack') :
               \/ k \in 1 .. n - 1 /\ stack'[k] = stack[k]
               \/ Is(stack'[k], fn, si, i, m)
  <2>1. PICK f \in Frames : Sets(stack, stack', f) /\ Is(f, fn, si, i, m)
    BY <1>5 DEF Moving
  <2>2. \A k \in 1 .. n : k \in 1 .. n - 1 \/ k = n
    OBVIOUS
  <2> QED BY <1>1, <2>1, <2>2 DEF Sets
<1>6. ASSUME NEW si, NEW i, NEW fn, NEW s, NEW m, Calling(si, i, fn, s, m)
      PROVE  \A k \in 1 .. Len(stack') :
               \/ k \in 1 .. n - 1 /\ stack'[k] = stack[k]
               \/ Is(stack'[k], Top.fn, si, i, Top.name)
               \/ Is(stack'[k], fn, s, 0, m)
  <2>1. PICK f \in Frames, g \in Frames :
          /\ Calls(stack, stack', f, g)
          /\ Is(f, Top.fn, si, i, Top.name) /\ Is(g, fn, s, 0, m)
    BY <1>6 DEF Calling
  <2>2. \A k \in 1 .. n + 1 : k \in 1 .. n - 1 \/ k = n \/ k = n + 1
    OBVIOUS
  <2> QED BY <1>1, <2>1, <2>2 DEF Calls
<1> QED BY <1>1, <1>2, <1>3, <1>4, <1>5, <1>6

-----------------------------------------------------------------------------
(* Destructors have run for every library that an unload is past, but for  *)
(* the one whose destructors are running.                                  *)
DoneAt(f, g, x) ==
  f.fn = "unload" /\ f.i > 0 => x.finis > 0 \/ (g.fn = "fini" /\ g.si = f.si)
FiniDone == \A k \in 1 .. Len(stack) : DoneAt(stack[k], Top, info[stack[k].si])

(* So it is after every step.                                              *)
LEMMA FiniDoneStep ==
  ASSUME LibDLUnnamed, TypeInv, TypeInv', ShapeInv, FiniDone, [Next]_vars
  PROVE  FiniDone'
<1>1. ASSUME NoUnload(stack') PROVE FiniDone'
  BY <1>1 DEF FiniDone, DoneAt, NoUnload
<1>2. CASE UNCHANGED vars
  BY <1>2 DEF FiniDone, Top, vars, pool
<1>3. ASSUME NEW n \in Opened, Dlopen(n) PROVE FiniDone'
  <2>1. Len(stack') = 2 /\ stack'[1].fn = "dlopen" /\ stack'[2].fn = "find_library"
    BY <1>3, DlopenStep DEF Is
  <2>2. \A k \in 1 .. 2 : k = 1 \/ k = 2
    OBVIOUS
  <2> QED BY <1>1, <2>1, <2>2 DEF NoUnload
<1>4. ASSUME NEW s \in Slots, Dlclose(s) PROVE FiniDone'
  <2>1. Len(stack') = 1 /\ stack'[1].i = 0
    BY <1>4, DlcloseStep DEF Is
  <2>2. \A k \in 1 .. 1 : k = 1
    OBVIOUS
  <2> QED BY <2>1, <2>2 DEF FiniDone, DoneAt
<1>5. ASSUME stack = << >>, stack' = stack PROVE FiniDone'
  <2>1. Len(stack') = 0
    BY <1>5, StackLength
  <2> QED BY <1>1, <2>1 DEF NoUnload
<1>6. CASE Inside
  <2>1. ASSUME stack # << >>, Top.fn \notin {"unload", "fini"},
               \/ Pops(stack, stack')
               \/ \E fn, si, i, m : Moving(fn, si, i, m) /\ fn # "unload"
               \/ \E si, i, fn, s, m : Calling(si, i, fn, s, m) /\ fn # "unload"
        PROVE  FiniDone'
    BY <1>1, <2>1, OpeningQuiet
  <2>2. CASE FindLibrary
    BY <2>1, <2>2, FindLibraryStep
  <2>3. CASE LoadRefused
    BY <2>1, <2>3, LoadRefusedStep
  <2>4. CASE LoadAlloc
    BY <2>1, <2>4, LoadAllocStep
  <2>5. CASE LoadSegments
    BY <2>1, <2>5, LoadSegmentsStep
  <2>6. CASE LoadFails
    BY SMTT(20), <2>1, <2>6, LoadFailsStep
  <2>7. CASE LinkFails
    BY <2>1, <2>7, LinkFailStep
  <2>8. CASE LinkFind
    BY <2>1, <2>8, LinkFindStep
  <2>9. CASE LinkNeeded /\ ret # NULL
    BY <2>1, <2>9, LinkNeededStep
  <2>10. CASE LinkFinish /\ ~LinkFail(TRUE)
    BY <2>1, <2>10, LinkedStep
  <2>11. CASE DlopenFound
    BY <2>1, <2>11, DlopenFoundStep
  <2>12. CASE DlopenReturn
    BY <2>1, <2>12, DlopenReturnStep
  <2>13. CASE CtorEnter
    BY <2>1, <2>13, CtorEnterStep
  <2>14. CASE CtorNeeded
    BY <2>1, <2>14, CtorNeededStep
  <2>15. CASE CtorInit
    BY <2>1, <2>15, CtorInitStep
  <2>16. CASE InitReturns
    BY <2>1, <2>16, InitReturnsStep
  <2>17. ASSUME stack # << >>, Top.fn # "fini"
         PROVE  \A k \in 1 .. Len(stack) :
                  stack[k].fn = "unload" /\ stack[k].i > 0 => info[stack[k].si].finis > 0
    BY <2>17 DEF FiniDone, DoneAt
  <2>18. ASSUME NEW k \in 1 .. Len(stack), stack[k].fn = "unload" PROVE stack[k].si \in Slots
    BY <2>18, StackLength, FrameFields, PoolEntries DEF Holding
  <2>19. CASE UnloadEnter
    <3>1. /\ stack # << >> /\ Top.fn = "unload" /\ SameFinis
          /\ Pops(stack, stack') \/ Calling(Top.si, 1, "fini", Top.si, Top.name)
      BY <2>19, UnloadEnterStep, UnloadEnterFields, SameInfo DEF AllSame
    <3>2. ASSUME NEW k \in 1 .. Len(stack) - 1, stack'[k] = stack[k],
                 stack'[k].fn = "unload", stack'[k].i > 0
          PROVE  info'[stack'[k].si].finis > 0
      BY <2>17, <2>18, <3>1, <3>2, FramesNext DEF SameFinis
    <3>3. CASE Pops(stack, stack')
      BY <3>1, <3>2, <3>3, FramesNext DEF FiniDone, DoneAt
    <3>4. CASE Calling(Top.si, 1, "fini", Top.si, Top.name)
      <4>1. Top'.fn = "fini" /\ Top'.si = Top.si
        BY <3>1, <3>4, TopNext DEF Is
      <4>2. \A k \in 1 .. Len(stack') :
              \/ k \in 1 .. Len(stack) - 1 /\ stack'[k] = stack[k]
              \/ Is(stack'[k], Top.fn, Top.si, 1, Top.name)
              \/ Is(stack'[k], "fini", Top.si, 0, Top.name)
        BY <3>1, <3>4, FramesNext
      <4> QED BY <3>2, <4>1, <4>2 DEF FiniDone, DoneAt, Is
    <3> QED BY <3>1, <3>3, <3>4
  <2>20. CASE FiniReturns
    <3>1. /\ stack # << >> /\ Pops(stack, stack') /\ Top.si \in Slots
          /\ info'[Top.si].finis = info[Top.si].finis + 1
          /\ \A s \in Slots : s # Top.si => info'[s].finis = info[s].finis
      BY <2>20, FiniReturnsStep, FiniReturnsFields, PoolEntries
    <3>2. info'[Top.si].finis > 0
      <4>1. info[Top.si].finis \in Nat
        BY <3>1, InfoFields DEF TypeInv
      <4> QED BY <3>1, <4>1
    <3>3. ASSUME NEW k \in 1 .. Len(stack')
          PROVE  DoneAt(stack'[k], Top', info'[stack'[k].si])
      <4>1. k \in 1 .. Len(stack) /\ stack'[k] = stack[k]
        BY <3>1, FramesNext
      <4>2. SUFFICES ASSUME stack[k].fn = "unload", stack[k].i > 0
                     PROVE  info'[stack[k].si].finis > 0
        BY <4>1 DEF DoneAt
      <4>3. stack[k].si \in Slots
        BY <2>18, <4>1, <4>2
      <4>4. stack[k].si = Top.si \/ info[stack[k].si].finis > 0
        BY <4>1, <4>2 DEF FiniDone, DoneAt
      <4> QED BY <3>1, <3>2, <4>3, <4>4
    <3> QED BY <3>3 DEF FiniDone
  <2>21. CASE UnloadNeeded
    <3>1. /\ stack # << >> /\ Top.fn = "unload" /\ SameFinis /\ Top.i > 0 /\ Top.si \in Slots
          /\ \/ \E s : Calling(Top.si, Top.i + 1, "unload", s, Top.name)
             \/ Moving("unload", Top.si, Top.i + 1, Top.name)
      BY <2>21, UnloadNeededStep, UnloadNeededFields, PoolEntries
    <3>2. info'[Top.si].finis > 0
      BY <2>17, <3>1, FramesNext DEF SameFinis
    <3>3. \A k \in 1 .. Len(stack') :
            \/ k \in 1 .. Len(stack) - 1 /\ stack'[k] = stack[k]
            \/ stack'[k].si = Top.si
            \/ stack'[k].i = 0
      BY <3>1, FramesNext DEF Is
    <3>4. ASSUME NEW k \in 1 .. Len(stack) - 1, stack'[k] = stack[k],
                 stack'[k].fn = "unload", stack'[k].i > 0
          PROVE  info'[stack'[k].si].finis > 0
      BY <2>17, <2>18, <3>1, <3>4, FramesNext DEF SameFinis
    <3> QED BY <3>2, <3>3, <3>4 DEF FiniDone, DoneAt
  <2>22. CASE UnloadFree
    <3>1. stack # << >> /\ Top.fn = "unload" /\ SameFinis /\ Pops(stack, stack')
      BY <2>22, UnloadFreeStep, UnloadFreeFields
    <3>2. ASSUME NEW k \in 1 .. Len(stack')
          PROVE  DoneAt(stack'[k], Top', info'[stack'[k].si])
      <4>1. k \in 1 .. Len(stack) /\ stack'[k] = stack[k]
        BY <3>1, FramesNext
      <4> QED BY <2>17, <2>18, <3>1, <4>1 DEF DoneAt, SameFinis
    <3> QED BY <3>2 DEF FiniDone
  <2> QED BY <1>6, <2>2, <2>3, <2>4, <2>5, <2>6, <2>7, <2>8, <2>9, <2>10, <2>11, <2>12, <2>13,
             <2>14, <2>15, <2>16, <2>19, <2>20, <2>21, <2>22, InsideCases
<1> QED BY <1>2, <1>3, <1>4, <1>5, <1>6, LibraryCreateStep, LibraryDestroyStep DEF Next

-----------------------------------------------------------------------------
(* Nothing ran of what is not linked or failed.                            *)
Unbegun(x) == ~x.linked \/ x.error => x.inits = 0 /\ x.finis = 0
BegunInv == \A s \in Slots : Unbegun(info[s])

(* A library on solist without an image is a stub of the host, or          *)
(* libdl_info, or what load_library is working on.                         *)
StubIn(x) == x.linked /\ ~x.error /\ x.name \in Stubs \cup {LibDL}
StubsInv ==
  \A s \in Slots :
    s \in On(Solist) /\ info[s].image = "none" =>
      (InFn("load_library") /\ Top.si = s) \/ StubIn(info[s])

(* A library linked from a file has recorded everything it needs, and the  *)
(* records are there until its destructors have run.                       *)
Complete(x) ==
  x.linked /\ ~x.error /\ x.image # "none" =>
    /\ Len(x.deps) >= Len(Needed[x.name])
    /\ x.finis = 0 => \A i \in 1 .. Len(x.deps) : x.deps[i] # NULL
LinkComplete(f, x) ==
  f.fn = "link_image" => \A i \in 1 .. Len(x.deps) : x.deps[i] # NULL
CompleteInv ==
  /\ \A s \in Slots : Complete(info[s])
  /\ \A k \in 1 .. Len(stack) : LinkComplete(stack[k], info[stack[k].si])

(* A new soinfo and a new stub.                                            *)
LEMMA NewEntries ==
  ASSUME NEW n \in Libraries
  PROVE  /\ Unbegun(Soinfo(n)) /\ Complete(Soinfo(n)) /\ Unbegun(Stub(n)) /\ Complete(Stub(n))
         /\ StatusOf(Soinfo(n)) = "absent" /\ StatusOf(Stub(n)) = "stub"
<1>1. /\ ~Soinfo(n).linked /\ ~Soinfo(n).error /\ Soinfo(n).inits = 0 /\ Soinfo(n).finis = 0
      /\ Stub(n).linked /\ ~Stub(n).error /\ Stub(n).inits = 0 /\ Stub(n).finis = 0
      /\ Stub(n).image = "none"
  BY SoinfoMade
<1>2. Unbegun(Soinfo(n)) /\ Unbegun(Stub(n))
  BY <1>1 DEF Unbegun
<1>3. Complete(Soinfo(n)) /\ Complete(Stub(n))
  BY <1>1 DEF Complete
<1>4. StatusOf(Soinfo(n)) = "absent" /\ StatusOf(Stub(n)) = "stub"
  BY <1>1 DEF StatusOf
<1> QED BY <1>2, <1>3, <1>4

(* At first every entry is new, or a stub.                                 *)
LEMMA EntriesInitially ==
  ASSUME Init
  PROVE  BegunInv /\ StubsInv /\ CompleteInv /\ FiniDone
<1>1. stack = << >> /\ Len(stack) = 0
  BY DEF Init
<1>2. ASSUME NEW s \in Slots PROVE Unbegun(info[s]) /\ Complete(info[s])
  BY InfoInitially, NewEntries
<1>3. FiniDone /\ CompleteInv
  BY <1>1, <1>2 DEF FiniDone, CompleteInv
<1>4. ASSUME NEW s \in Slots, s \in On(Solist) PROVE StubIn(info[s])
  <2>1. PICK order \in [1 .. StubCount -> Stubs] :
          info = [t \in Slots |-> IF t = libdl_info THEN Stub(LibDL)
                                  ELSE IF t <= StubCount THEN Stub(order[t])
                                  ELSE Soinfo(LibDL)]
    BY DEF Init
  <2>2. On(Solist) \subseteq 0 .. StubCount /\ StubCount \in Nat
    <3>1. TypeInv
      BY TypesInitially
    <3>2. On(Solist) \subseteq 0 .. socount
      BY <3>1, ListsRight DEF TypeInv, ListsWellFormed
    <3>3. StubCount \in Nat
      BY LinkerAssumption, FS_CardinalityType DEF StubCount
    <3> QED BY <3>2, <3>3 DEF Init
  <2>3. CASE s = libdl_info
    <3>1. info[s] = Stub(LibDL)
      BY <2>1, <2>3
    <3> QED BY <3>1, LinkerAssumption, SoinfoMade DEF StubIn
  <2>4. CASE s # libdl_info
    <3>1. s \in 1 .. StubCount
      BY <1>4, <2>2, <2>4 DEF libdl_info
    <3>2. info[s] = Stub(order[s]) /\ order[s] \in Stubs
      BY <2>1, <2>2, <2>4, <3>1
    <3> QED BY <3>2, LinkerAssumption, SoinfoMade DEF StubIn
  <2> QED BY <2>3, <2>4
<1> QED BY <1>2, <1>3, <1>4 DEF BegunInv, StubsInv

(* Constructors and destructors run only for what is linked.               *)
LEMMA BegunStep ==
  ASSUME LibDLUnnamed, HandleInv, InOrder, BegunInv, [Next]_vars
  PROVE  BegunInv'
<1> USE DEF HandleInv, CountInv
<1>1. ASSUME SameLinked, SameError, SameInits, SameFinis PROVE BegunInv'
  BY <1>1 DEF BegunInv, Unbegun, SameLinked, SameError, SameInits, SameFinis
<1>2. ASSUME NEW a, Only(a), a \in Slots => Unbegun(info'[a]) PROVE BegunInv'
  BY <1>2 DEF BegunInv, Only
<1>3. ASSUME info' = info PROVE BegunInv'
  BY <1>1, <1>3, SameInfo DEF AllSame
<1>4. CASE Unseen
  BY <1>1, <1>4 DEF Unseen
<1>5. CASE LoadAlloc
  BY <1>2, <1>3, <1>5, LoadAllocStep, NewEntries
<1>6. CASE LoadSegments
  BY <1>1, <1>6, LoadSegmentsFields
<1>7. CASE LoadFails
  BY <1>3, <1>7, LoadFailsStep
<1>8. CASE LinkFails
  <2>1. /\ stack # << >> /\ Top.fn = "link_image" /\ Top.si \in Slots /\ Only(Top.si)
        /\ SameInits /\ SameFinis
    BY <1>8, LinkFailStep, LinkFailFields, PoolEntries
  <2>2. ~info[Top.si].linked
    BY <2>1, FramesNext DEF WorkInv, Linking, LinkingOf
  <2>3. info'[Top.si].inits = 0 /\ info'[Top.si].finis = 0
    BY <2>1, <2>2 DEF BegunInv, Unbegun, SameInits, SameFinis
  <2> QED BY SMTT(20), <1>2, <2>1, <2>3 DEF Unbegun
<1>9. CASE LinkFinish /\ ~LinkFail(TRUE)
  <2>1. /\ SameError /\ SameInits /\ SameFinis /\ info'[Top.si].linked
        /\ Only(Top.si)
    BY <1>9, LinkedFields, LinkedStep
  <2> QED BY <1>2, <2>1 DEF BegunInv, Unbegun, SameError, SameInits, SameFinis
<1>10. CASE InitReturns
  <2>1. /\ stack # << >> /\ Top.fn = "init" /\ Top.si \in PoolEntry /\ Top.si \in Slots
        /\ Only(Top.si) /\ SameLinked /\ SameError
    BY <1>10, InitReturnsStep, InitReturnsFields, PoolEntries
  <2>2. info[Top.si].linked /\ ~info[Top.si].error
    <3>1. Top.si # NULL
      BY <2>1, PoolEntries
    <3> QED BY <2>1, <3>1, FramesNext DEF Opening, OpenFrames, OpenAt, UsableIn
  <2> QED BY <1>2, <2>1, <2>2 DEF Unbegun, SameLinked, SameError
<1>11. CASE FiniReturns
  <2>1. /\ stack # << >> /\ Top.fn = "fini" /\ Top.si \in Slots /\ Pops(stack, stack')
        /\ Only(Top.si) /\ SameLinked /\ SameError
    BY <1>11, FiniReturnsStep, FiniReturnsFields, PoolEntries
  <2>2. PICK k \in 1 .. Len(stack') : stack'[k].fn = "unload" /\ stack'[k].si = Top.si
    BY <2>1, ClosingTop
  <2>3. stack'[k] = stack[k] /\ k \in 1 .. Len(stack)
    BY <2>1, FramesNext
  <2>4. info[Top.si].inits = 1
    BY <2>2, <2>3 DEF InOrder, StoppedFrames
  <2>5. info[Top.si].linked /\ ~info[Top.si].error
    BY <2>1, <2>4 DEF BegunInv, Unbegun
  <2> QED BY <1>2, <2>1, <2>5 DEF Unbegun, SameLinked, SameError
<1>12. CASE UnloadFree
  BY <1>1, <1>12, UnloadFreeFields
<1>13. ASSUME NEW n \in Stubs, LibraryCreate(n) PROVE BegunInv'
  BY <1>2, <1>13, LibraryCreateStep, NewEntries
<1>14. ASSUME NEW s \in Slots, LibraryDestroy(s) PROVE BegunInv'
  BY <1>3, <1>14, LibraryDestroyStep
<1> QED BY <1>4, <1>5, <1>6, <1>7, <1>8, <1>9, <1>10, <1>11, <1>12, <1>13, <1>14,
           SeenCases DEF Seen

(* What has no image on solist is a stub, or is being loaded.              *)
LEMMA StubsStep ==
  ASSUME LibDLUnnamed, TypeInv, TypeInv', ShapeInv, WorkInv, StubsInv, [Next]_vars
  PROVE  StubsInv'
<1>1. CASE UNCHANGED vars
  <2>1. stack' = stack /\ info' = info /\ On(Solist)' = On(Solist)
    BY <1>1, ListsSame DEF vars, pool
  <2> QED BY <2>1 DEF StubsInv, InFn, Top
<1>2. ASSUME Next, ~InFn("load_library"), SameName, SameLinked, SameError,
             On(Solist)' \subseteq On(Solist),
             \A s \in Slots : info'[s].image = "none" => info[s].image = "none"
      PROVE  StubsInv'
  <2>1. ASSUME NEW s \in Slots, s \in On(Solist)', info'[s].image = "none"
        PROVE  StubIn(info'[s])
    <3>1. StubIn(info[s])
      BY <1>2, <2>1 DEF StubsInv
    <3> QED BY <1>2, <3>1 DEF StubIn, SameName, SameLinked, SameError
  <2> QED BY <2>1 DEF StubsInv
<1>3. ASSUME Next, InFn("load_library") PROVE StubsInv'
  <2>1. CASE LoadRefused \/ (LoadAlloc /\ UNCHANGED << lists, info, debugMap >>)
    <3>1. info' = info /\ On(Solist)' = On(Solist) /\ Top.si = NULL
      BY <2>1, LoadRefusedStep, LoadAllocStep, ListsSame DEF LoadRefused
    <3>2. ASSUME NEW s \in Slots, s \in On(Solist), info[s].image = "none"
          PROVE  StubIn(info[s])
      BY <3>1, <3>2, PoolEntries DEF StubsInv
    <3> QED BY <3>1, <3>2 DEF StubsInv
  <2>2. CASE LoadAlloc /\ ~UNCHANGED << lists, info, debugMap >>
    <3>1. PICK a \in PoolEntry :
            /\ On(Solist)' = On(Solist) \cup {a} /\ Only(a)
            /\ Moving("load_library", a, Top.i, Top.name) /\ Top.si = NULL /\ stack # << >>
      BY <2>2, LoadAllocStep
    <3>2. InFn("load_library")' /\ Top'.si = a
      BY <3>1, TopNext DEF Is, InFn
    <3>3. ASSUME NEW s \in Slots, s \in On(Solist)', info'[s].image = "none", s # a
          PROVE  StubIn(info'[s])
      <4>1. info'[s] = info[s] /\ s \in On(Solist)
        BY <3>1, <3>3 DEF Only
      <4> QED BY <3>1, <3>3, <4>1, PoolEntries DEF StubsInv
    <3> QED BY <3>2, <3>3 DEF StubsInv
  <2>3. CASE LoadSegments
    <3>1. /\ Only(Top.si) /\ info'[Top.si].image = "mapped" /\ On(Solist)' = On(Solist)
      BY <2>3, LoadSegmentsStep, LoadSegmentsFields, ListsSame
    <3>2. ASSUME NEW s \in Slots, s \in On(Solist)', info'[s].image = "none"
          PROVE  StubIn(info'[s])
      <4>1. s # Top.si /\ info'[s] = info[s] /\ s \in On(Solist)
        BY <3>1, <3>2 DEF Only
      <4> QED BY <3>2, <4>1 DEF StubsInv
    <3> QED BY <3>2 DEF StubsInv
  <2>4. CASE LoadFails
    <3>1. info' = info /\ On(Solist)' = On(Solist) \ {Top.si}
      BY <2>4, LoadFailsStep
    <3>2. ASSUME NEW s \in Slots, s \in On(Solist)', info'[s].image = "none"
          PROVE  StubIn(info'[s])
      BY <3>1, <3>2 DEF StubsInv
    <3> QED BY <3>2 DEF StubsInv
  <2> QED BY <1>3, <2>1, <2>2, <2>3, <2>4, LoadedNext
<1>4. ASSUME Next, ~InFn("load_library") PROVE StubsInv'
  <2>1. CASE Unseen
    BY <1>2, <1>4, <2>1 DEF Unseen, SameImage
  <2>2. ~LoadAlloc /\ ~LoadSegments /\ ~LoadFails
    BY <1>4 DEF LoadAlloc, LoadSegments, LoadFails
  <2>3. CASE LinkFails
    <3>1. Only(Top.si) /\ On(Solist)' = On(Solist) /\ info'[Top.si].image = "unmapped"
      BY <2>3, LinkFailStep, LinkFailFields, ListsSame
    <3>2. ASSUME NEW s \in Slots, s \in On(Solist)', info'[s].image = "none"
          PROVE  StubIn(info'[s])
      <4>1. s # Top.si /\ info'[s] = info[s] /\ s \in On(Solist)
        BY <3>1, <3>2 DEF Only
      <4> QED BY <1>4, <3>2, <4>1 DEF StubsInv
    <3> QED BY <3>2 DEF StubsInv
  <2>4. CASE LinkFinish /\ ~LinkFail(TRUE)
    <3>1. /\ stack # << >> /\ Top.fn = "link_image" /\ Top.si \in Slots /\ SameImage
          /\ Only(Top.si) /\ On(Solist)' = On(Solist)
      BY <2>4, LinkedStep, LinkedFields, ListsSame, PoolEntries
    <3>2. info'[Top.si].image = "mapped"
      BY <3>1, FramesNext DEF WorkInv, Linking, LinkingOf, SameImage
    <3>3. ASSUME NEW s \in Slots, s \in On(Solist)', info'[s].image = "none"
          PROVE  StubIn(info'[s])
      <4>1. s # Top.si /\ info'[s] = info[s] /\ s \in On(Solist)
        BY <3>1, <3>2, <3>3 DEF Only
      <4> QED BY <1>4, <3>3, <4>1 DEF StubsInv
    <3> QED BY <3>3 DEF StubsInv
  <2>5. CASE InitReturns
    BY <1>2, <1>4, <2>5, InitReturnsStep, InitReturnsFields, ListsSame DEF SameImage
  <2>6. CASE FiniReturns
    BY <1>2, <1>4, <2>6, FiniReturnsStep, FiniReturnsFields, ListsSame DEF SameImage
  <2>7. CASE UnloadFree
    BY <1>2, <1>4, <2>7, UnloadFreeStep, UnloadFreeFields
  <2>8. ASSUME NEW n \in Stubs, LibraryCreate(n) PROVE StubsInv'
    <3>1. PICK a \in PoolEntry :
            On(Solist)' = On(Solist) \cup {a} /\ Only(a) /\ info'[a] = Stub(n) /\ n \in Libraries
      BY <2>8, LibraryCreateStep
    <3>2. StubIn(info'[a])
      BY <3>1, SoinfoMade DEF StubIn
    <3>3. ASSUME NEW s \in Slots, s \in On(Solist)', info'[s].image = "none", s # a
          PROVE  StubIn(info'[s])
      <4>1. info'[s] = info[s] /\ s \in On(Solist)
        BY <3>1, <3>3 DEF Only
      <4> QED BY <1>4, <3>3, <4>1 DEF StubsInv
    <3> QED BY <3>2, <3>3 DEF StubsInv
  <2>9. ASSUME NEW s \in Slots, LibraryDestroy(s) PROVE StubsInv'
    BY <1>2, <1>4, <2>9, LibraryDestroyStep, SameInfo DEF AllSame, SameImage
  <2> QED BY <2>1, <2>2, <2>3, <2>4, <2>5, <2>6, <2>7, <2>8, <2>9, SeenCases DEF Seen
<1> QED BY <1>1, <1>3, <1>4

(* Records are complete when a library is linked, and none is dropped      *)
(* before its destructors have run.                                        *)
LEMMA CompleteKept ==
  ASSUME TypeInv, BegunInv, CompleteInv, SameName, SameDeps,
         \A s \in Slots : info'[s].linked /\ ~info'[s].error => info[s].linked /\ ~info[s].error,
         \A s \in Slots : info[s].image = "none" => info'[s].image = "none" \/ ~info[s].linked,
         \A s \in Slots : info'[s].finis = 0 => info[s].finis = 0
  PROVE  \A s \in Slots : Complete(info'[s])
<1>1. SUFFICES ASSUME NEW s \in Slots PROVE Complete(info'[s])
  OBVIOUS
<1>2. Complete(info[s]) /\ info'[s].deps = info[s].deps /\ info'[s].name = info[s].name
  BY DEF CompleteInv, SameDeps, SameName
<1> QED BY <1>2 DEF Complete

(* The calls that are linking, after a step that leaves their records.     *)
LEMMA LinkersKept ==
  ASSUME TypeInv, CompleteInv,
         \A s \in Slots : info'[s].deps = info[s].deps \/ info'[s].deps = << >>,
         \A k \in 1 .. Len(stack') :
           stack'[k].fn = "link_image" => k \in 1 .. Len(stack) /\ stack'[k].si = stack[k].si
                                            /\ stack[k].fn = "link_image"
  PROVE  \A k \in 1 .. Len(stack') : LinkComplete(stack'[k], info'[stack'[k].si])
<1>1. SUFFICES ASSUME NEW k \in 1 .. Len(stack'), stack'[k].fn = "link_image",
                      NEW i \in 1 .. Len(info'[stack'[k].si].deps)
               PROVE  info'[stack'[k].si].deps[i] # NULL
  BY DEF LinkComplete
<1>2. /\ k \in 1 .. Len(stack) /\ stack'[k].si = stack[k].si /\ stack[k].fn = "link_image"
      /\ stack[k].si \in Slots
  <2>1. k \in 1 .. Len(stack) /\ stack[k].fn = "link_image" /\ stack'[k].si = stack[k].si
    BY <1>1
  <2>2. stack[k].si \in PoolEntry
    BY <2>1, StackLength, FrameFields DEF Holding
  <2> QED BY <2>1, <2>2, PoolEntries
<1>3. \A j \in 1 .. Len(info[stack[k].si].deps) : info[stack[k].si].deps[j] # NULL
  BY <1>2 DEF CompleteInv, LinkComplete
<1>4. CASE info'[stack[k].si].deps = info[stack[k].si].deps
  BY <1>1, <1>2, <1>3, <1>4
<1>5. CASE info'[stack[k].si].deps = << >>
  <2>1. Len(info'[stack[k].si].deps) = 0
    BY <1>5
  <2> QED BY <1>1, <1>2, <2>1
<1> QED BY <1>2, <1>4, <1>5

(* The records of every entry, after a step.                               *)
LEMMA CompleteEntries ==
  ASSUME LibDLUnnamed, TypeInv, ShapeInv, WorkInv, BegunInv, CompleteInv, FiniDone, [Next]_vars
  PROVE  \A s \in Slots : Complete(info'[s])
<1> DEFINE Goal == \A s \in Slots : Complete(info'[s])
<1>1. ASSUME SameName, SameDeps, SameLinked, SameError, SameImage, SameFinis PROVE Goal
  BY <1>1, CompleteKept DEF SameLinked, SameError, SameImage, SameFinis
<1>2. ASSUME info' = info PROVE Goal
  BY <1>1, <1>2, SameInfo DEF AllSame
<1>3. ASSUME NEW a, Only(a), a \in Slots => Complete(info'[a]) PROVE Goal
  BY <1>3 DEF CompleteInv, Only
<1>4. CASE LoadAlloc
  BY <1>2, <1>3, <1>4, LoadAllocStep, NewEntries
<1>5. ASSUME NEW n \in Stubs, LibraryCreate(n) PROVE Goal
  BY <1>3, <1>5, LibraryCreateStep, NewEntries
<1>6. CASE LoadSegments
  <2>1. /\ stack # << >> /\ InFn("load_library") /\ Top.si \in Libraries \cup Slots
        /\ Top.name \in Libraries /\ Top.si # NULL
    BY <1>6, LoadSegmentsStep, PoolEntries, FramesNext, FrameFields DEF InFn
  <2>2. ~info[Top.si].linked
    BY <2>1, SoinfoMade DEF WorkInv, Loading
  <2>3. ~info'[Top.si].linked /\ Only(Top.si)
    BY <1>6, <2>2, LoadSegmentsStep, LoadSegmentsFields, PoolEntries DEF SameLinked
  <2> QED BY <1>3, <2>3 DEF Complete
<1>7. CASE LinkFails
  <2>1. Only(Top.si) /\ info'[Top.si].error
    BY <1>7, LinkFailStep, LinkFailFields
  <2> QED BY <1>3, <2>1 DEF Complete
<1>8. CASE LinkNeeded /\ ret # NULL
  <2>1. /\ stack # << >> /\ Top.fn = "link_image" /\ Top.si \in Slots
        /\ SameName /\ SameLinked /\ SameError /\ SameImage /\ SameFinis
        /\ \A s \in Slots : s # Top.si => info'[s].deps = info[s].deps
    BY <1>8, LinkNeededStep, LinkNeededFields, PoolEntries
  <2>2. ~info'[Top.si].linked
    BY <2>1, FramesNext DEF WorkInv, Linking, LinkingOf, SameLinked
  <2>3. ASSUME NEW s \in Slots PROVE Complete(info'[s])
    <3>1. CASE s = Top.si
      BY <2>2, <3>1 DEF Complete
    <3>2. CASE s # Top.si
      <4>1. Complete(info[s]) /\ info'[s].deps = info[s].deps
        BY <2>1, <3>2 DEF CompleteInv
      <4> QED BY <2>1, <4>1 DEF Complete, SameName, SameLinked, SameError, SameImage, SameFinis
    <3> QED BY <3>1, <3>2
  <2> QED BY <2>3
<1>9. CASE LinkFinish /\ ~LinkFail(TRUE)
  <2>1. /\ stack # << >> /\ Top.fn = "link_image" /\ Top.si \in Slots /\ Only(Top.si)
        /\ SameName /\ SameDeps /\ Top.i > Len(NeededBy(Top.si))
    BY <1>9, LinkedStep, LinkedFields, PoolEntries
  <2>2. Top.i = Len(info[Top.si].deps) + 1
    BY <2>1, FramesNext DEF WorkInv, Linking, LinkingOf
  <2>3. \A i \in 1 .. Len(info[Top.si].deps) : info[Top.si].deps[i] # NULL
    BY <2>1, FramesNext DEF CompleteInv, LinkComplete
  <2>4. PICK b \in Nat : b = Len(Needed[info[Top.si].name])
    BY <2>1, InfoFields, LinkerAssumption, LenProperties DEF TypeInv
  <2>5. PICK d \in Nat : d = Len(info[Top.si].deps)
    BY <2>1, DepsFields DEF TypeInv
  <2>6. d >= b
    BY <2>1, <2>2, <2>4, <2>5 DEF NeededBy
  <2>7. info'[Top.si].deps = info[Top.si].deps /\ info'[Top.si].name = info[Top.si].name
    BY <2>1 DEF SameName, SameDeps
  <2>8. Complete(info'[Top.si])
    BY <2>3, <2>4, <2>5, <2>6, <2>7 DEF Complete
  <2> QED BY <1>3, <2>1, <2>8
<1>10. CASE InitReturns
  BY <1>1, <1>10, InitReturnsFields
<1>11. CASE FiniReturns
  <2>1. /\ SameName /\ SameDeps /\ SameLinked /\ SameError /\ SameImage /\ Top.si \in Slots
        /\ info'[Top.si].finis = info[Top.si].finis + 1
        /\ \A s \in Slots : s # Top.si => info'[s].finis = info[s].finis
    BY <1>11, FiniReturnsStep, FiniReturnsFields, PoolEntries
  <2>2. info'[Top.si].finis # 0
    <3>1. info[Top.si].finis \in Nat
      BY <2>1, InfoFields DEF TypeInv
    <3> QED BY <2>1, <3>1
  <2> QED BY <2>1, <2>2, CompleteKept DEF SameLinked, SameError, SameImage
<1>12. CASE UnloadNeeded
  <2>1. /\ stack # << >> /\ Top.fn = "unload" /\ Top.si \in Slots
        /\ SameName /\ SameLinked /\ SameError /\ SameImage /\ SameFinis
        /\ info'[Top.si].deps = [info[Top.si].deps EXCEPT ![Top.i] = NULL]
        /\ \A s \in Slots : s # Top.si => info'[s].deps = info[s].deps
        /\ Top.i \in 1 .. Len(info[Top.si].deps)
    BY <1>12, UnloadNeededStep, UnloadNeededFields, PoolEntries
  <2>2. info[Top.si].finis > 0
    <3>1. Top.i > 0
      BY <2>1
    <3>2. DoneAt(Top, Top, info[Top.si])
      BY <2>1, FramesNext DEF FiniDone
    <3> QED BY <2>1, <3>1, <3>2 DEF DoneAt
  <2>3. Len(info'[Top.si].deps) = Len(info[Top.si].deps)
    <3>1. info[Top.si].deps \in Seq(PoolEntry \cup {NULL})
      BY <2>1, InfoFields DEF TypeInv
    <3> QED BY <2>1, <3>1
  <2>4. ASSUME NEW s \in Slots PROVE Complete(info'[s])
    <3>1. /\ Complete(info[s]) /\ info'[s].name = info[s].name
          /\ info'[s].linked = info[s].linked /\ info'[s].error = info[s].error
          /\ info'[s].image = info[s].image /\ info'[s].finis = info[s].finis
      BY <2>1 DEF CompleteInv, SameName, SameLinked, SameError, SameImage, SameFinis
    <3>2. CASE s = Top.si
      <4>1. info'[s].finis # 0
        BY <2>2, <3>1, <3>2
      <4> QED BY <2>3, <3>1, <3>2, <4>1 DEF Complete
    <3>3. CASE s # Top.si
      BY <2>1, <3>1, <3>3 DEF Complete
    <3> QED BY <3>2, <3>3
  <2> QED BY <2>4
<1>13. CASE UnloadFree
  <2>1. /\ SameName /\ SameDeps /\ SameLinked /\ SameError /\ SameFinis
        /\ \A s \in Slots : info[s].image = "none" => info'[s].image = "none"
    BY <1>13, UnloadFreeFields
  <2> QED BY <2>1, CompleteKept DEF SameLinked, SameError, SameFinis
<1>14. CASE Unseen /\ SameDeps
  BY <1>1, <1>14 DEF Unseen
<1>15. CASE LoadFails
  BY <1>2, <1>15, LoadFailsStep
<1>16. ASSUME NEW s \in Slots, LibraryDestroy(s) PROVE Goal
  BY <1>2, <1>16, LibraryDestroyStep
<1> QED BY <1>4, <1>5, <1>6, <1>7, <1>8, <1>9, <1>10, <1>11, <1>12, <1>13, <1>14, <1>15,
           <1>16, SeenCases DEF Seen

(* The calls that are linking, after a step.                               *)
LEMMA CompleteFrames ==
  ASSUME LibDLUnnamed, TypeInv, TypeInv', ShapeInv, WorkInv, CompleteInv, [Next]_vars
  PROVE  \A k \in 1 .. Len(stack') : LinkComplete(stack'[k], info'[stack'[k].si])
<1> DEFINE Goal == \A k \in 1 .. Len(stack') : LinkComplete(stack'[k], info'[stack'[k].si])
<1>1. ASSUME NoFind(stack') PROVE Goal
  BY <1>1 DEF NoFind, LinkComplete
<1>2. CASE UNCHANGED vars
  BY <1>2 DEF CompleteInv, vars, pool
<1>3. ASSUME stack' = << >> PROVE Goal
  <2>1. Len(stack') = 0
    BY <1>3
  <2> QED BY <2>1
<1>4. ASSUME NEW n \in Opened, Dlopen(n) PROVE Goal
  <2>1. Len(stack') = 2 /\ stack'[1].fn = "dlopen" /\ stack'[2].fn = "find_library"
    BY <1>4, DlopenStep DEF Is
  <2>2. \A k \in 1 .. 2 : k = 1 \/ k = 2
    OBVIOUS
  <2> QED BY <2>1, <2>2 DEF LinkComplete
<1>5. ASSUME NEW s \in Slots, Dlclose(s) PROVE Goal
  <2>1. Len(stack') = 1 /\ stack'[1].fn = "unload"
    BY <1>5, DlcloseStep DEF Is
  <2>2. \A k \in 1 .. 1 : k = 1
    OBVIOUS
  <2> QED BY <2>1, <2>2 DEF LinkComplete
<1>6. ASSUME NEW s \in Slots, LibraryDestroy(s) PROVE Goal
  BY <1>3, <1>6, LibraryDestroyStep
<1>7. ASSUME NEW n \in Stubs, LibraryCreate(n) PROVE Goal
  BY <1>3, <1>7, LibraryCreateStep
<1>8. ASSUME stack # << >>,
             \A s \in Slots : info'[s].deps = info[s].deps \/ info'[s].deps = << >>,
             \/ Pops(stack, stack')
             \/ \E fn, si, i, m : Moving(fn, si, i, m) /\ fn # "link_image"
      PROVE  Goal
  <2>1. \A k \in 1 .. Len(stack') :
          \/ k \in 1 .. Len(stack) /\ stack'[k] = stack[k]
          \/ stack'[k].fn # "link_image"
    <3>1. \A k \in 1 .. Len(stack) - 1 : k \in 1 .. Len(stack)
      BY <1>8, FramesNext
    <3>2. CASE Pops(stack, stack')
      BY <1>8, <3>1, <3>2, FramesNext
    <3>3. ASSUME NEW fn, NEW si, NEW i, NEW m, Moving(fn, si, i, m), fn # "link_image"
          PROVE  \A k \in 1 .. Len(stack') :
                   \/ k \in 1 .. Len(stack) /\ stack'[k] = stack[k]
                   \/ stack'[k].fn # "link_image"
      <4>1. \A k \in 1 .. Len(stack') :
              \/ k \in 1 .. Len(stack) - 1 /\ stack'[k] = stack[k]
              \/ Is(stack'[k], fn, si, i, m)
        BY <1>8, <3>3, FramesNext
      <4> QED BY <3>1, <3>3, <4>1 DEF Is
    <3> QED BY <1>8, <3>2, <3>3
  <2> QED BY <1>8, <2>1, LinkersKept
<1>9. ASSUME info' = info PROVE \A s \in Slots : info'[s].deps = info[s].deps
  BY <1>9
<1>10. CASE FindLibrary
  BY <1>8, <1>9, <1>10, FindLibraryStep
<1>11. CASE LoadRefused
  BY <1>8, <1>9, <1>11, LoadRefusedStep
<1>12. CASE LoadAlloc
  <2>1. CASE UNCHANGED << lists, info, debugMap >>
    BY <1>8, <1>9, <1>12, <2>1, LoadAllocStep
  <2>2. CASE ~UNCHANGED << lists, info, debugMap >>
    <3>1. PICK a \in PoolEntry :
            /\ stack # << >> /\ Only(a) /\ info'[a] = Soinfo(Top.name) /\ Top.name \in Libraries
            /\ Moving("load_library", a, Top.i, Top.name)
      BY <1>12, <2>2, LoadAllocStep
    <3>2. info'[a].deps = << >>
      BY <3>1, SoinfoMade
    <3>3. \A s \in Slots : info'[s].deps = info[s].deps \/ info'[s].deps = << >>
      BY <3>1, <3>2 DEF Only
    <3> QED BY <1>8, <3>1, <3>3
  <2> QED BY <2>1, <2>2
<1>13. CASE LoadSegments
  <2>1. /\ stack # << >> /\ InFn("load_library") /\ Top.si # NULL /\ Top.si \in Slots
        /\ Top.name \in Libraries /\ SameDeps /\ Moving("link_image", Top.si, 1, Top.name)
    BY <1>13, LoadSegmentsStep, LoadSegmentsFields, PoolEntries, FramesNext, FrameFields DEF InFn
  <2>2. info[Top.si].deps = << >>
    BY <2>1, SoinfoMade DEF WorkInv, Loading
  <2>3. Len(info'[Top.si].deps) = 0
    BY <2>1, <2>2 DEF SameDeps
  <2>4. ASSUME NEW k \in 1 .. Len(stack') PROVE LinkComplete(stack'[k], info'[stack'[k].si])
    <3>1. \/ k \in 1 .. Len(stack) - 1 /\ stack'[k] = stack[k]
          \/ stack'[k].si = Top.si
      BY <2>1, FramesNext DEF Is
    <3>2. CASE stack'[k].si = Top.si
      BY <2>3, <3>2 DEF LinkComplete
    <3>3. CASE k \in 1 .. Len(stack) - 1 /\ stack'[k] = stack[k] /\ stack[k].fn = "link_image"
      <4>1. k \in 1 .. Len(stack) /\ stack[k].si \in Slots
        BY <2>1, <3>3, FramesNext, StackLength, FrameFields, PoolEntries DEF Holding
      <4>2. LinkComplete(stack[k], info[stack[k].si])
        BY <4>1 DEF CompleteInv
      <4> QED BY <2>1, <3>3, <4>1, <4>2 DEF LinkComplete, SameDeps
    <3> QED BY <3>1, <3>2, <3>3 DEF LinkComplete
  <2> QED BY <2>4
<1>14. CASE LoadFails
  BY SMTT(20), <1>8, <1>9, <1>14, LoadFailsStep
<1>15. CASE LinkFails
  BY <1>8, <1>15, LinkFailStep, LinkFailFields DEF SameDeps
<1>16. CASE LinkFind
  <2>1. /\ stack # << >> /\ Top.fn = "link_image" /\ info' = info
        /\ Calling(Top.si, Top.i, "find_library", NULL, NeededBy(Top.si)[Top.i])
    BY <1>16, LinkFindStep
  <2>2. ASSUME NEW k \in 1 .. Len(stack') PROVE LinkComplete(stack'[k], info[stack'[k].si])
    <3>1. \/ k \in 1 .. Len(stack) - 1 /\ stack'[k] = stack[k]
          \/ stack'[k].si = Top.si
          \/ stack'[k].fn = "find_library"
      BY <2>1, FramesNext DEF Is
    <3>2. LinkComplete(Top, info[Top.si])
      BY <2>1, FramesNext DEF CompleteInv
    <3>3. k \in 1 .. Len(stack) - 1 => LinkComplete(stack[k], info[stack[k].si])
      BY SMTT(20), <2>1, FramesNext DEF CompleteInv
    <3> QED BY <2>1, <3>1, <3>2, <3>3 DEF LinkComplete
  <2> QED BY <2>1, <2>2
<1>17. CASE LinkNeeded /\ ret # NULL
  <2>1. /\ stack # << >> /\ Top.fn = "link_image" /\ Top.si \in Slots /\ ret \in PoolEntry
        /\ Moving("link_image", Top.si, Top.i + 1, Top.name)
        /\ info'[Top.si].deps = Append(info[Top.si].deps, ret)
        /\ \A s \in Slots : s # Top.si => info'[s].deps = info[s].deps
    BY <1>17, LinkNeededStep, LinkNeededFields, PoolEntries
  <2>2. LinkComplete(Top, info[Top.si])
    BY <2>1, FramesNext DEF CompleteInv
  <2>3. \A i \in 1 .. Len(info'[Top.si].deps) : info'[Top.si].deps[i] # NULL
    <3>1. PICK d : d = info[Top.si].deps
      OBVIOUS
    <3>2. /\ d \in Seq(PoolEntry \cup {NULL})
          /\ \A i \in 1 .. Len(d) : d[i] # NULL
      BY <2>1, <2>2, <3>1, InfoFields DEF TypeInv, LinkComplete
    <3>3. \A i \in 1 .. Len(Append(d, ret)) : Append(d, ret)[i] # NULL
      BY <2>1, <3>2, PoolEntries
    <3> QED BY <2>1, <3>1, <3>3
  <2>4. ASSUME NEW k \in 1 .. Len(stack') PROVE LinkComplete(stack'[k], info'[stack'[k].si])
    <3>1. \/ k \in 1 .. Len(stack) - 1 /\ stack'[k] = stack[k]
          \/ stack'[k].si = Top.si
      BY <2>1, FramesNext DEF Is
    <3>2. CASE stack'[k].si = Top.si
      BY <2>3, <3>2 DEF LinkComplete
    <3>3. CASE k \in 1 .. Len(stack) - 1 /\ stack'[k] = stack[k] /\ stack[k].fn = "link_image"
                 /\ stack[k].si # Top.si
      <4>1. k \in 1 .. Len(stack) /\ stack[k].si \in Slots
        BY <2>1, <3>3, FramesNext, StackLength, FrameFields, PoolEntries DEF Holding
      <4>2. LinkComplete(stack[k], info[stack[k].si])
        BY <4>1 DEF CompleteInv
      <4> QED BY <2>1, <3>3, <4>1, <4>2 DEF LinkComplete
    <3> QED BY <3>1, <3>2, <3>3 DEF LinkComplete
  <2> QED BY <2>4
<1>18. CASE LinkFinish /\ ~LinkFail(TRUE)
  BY <1>8, <1>18, LinkedStep, LinkedFields DEF SameDeps
<1>19. ASSUME stack # << >>, Top.fn \notin Finding \cup {"link_image"},
              \/ Pops(stack, stack')
              \/ \E fn, si, i, m : Moving(fn, si, i, m) /\ fn \notin Finding \cup {"link_image"}
              \/ \E si, i, fn, s, m :
                   Calling(si, i, fn, s, m) /\ fn \notin Finding \cup {"link_image"}
       PROVE  Goal
  BY <1>1, <1>19, FoundQuiet
<1> USE DEF Finding
<1>20. CASE Open
  BY <1>19, <1>20, DlopenFoundStep, DlopenReturnStep DEF Open
<1>21. CASE CtorEnter
  BY <1>19, <1>21, CtorEnterStep
<1>22. CASE CtorNeeded
  BY <1>19, <1>22, CtorNeededStep
<1>23. CASE CtorInit
  BY <1>19, <1>23, CtorInitStep
<1>24. CASE InitReturns
  BY <1>19, <1>24, InitReturnsStep
<1>25. CASE UnloadEnter
  BY <1>19, <1>25, UnloadEnterStep
<1>26. CASE FiniReturns
  BY <1>19, <1>26, FiniReturnsStep
<1>27. CASE UnloadNeeded
  BY <1>19, <1>27, UnloadNeededStep
<1>28. CASE UnloadFree
  BY <1>19, <1>28, UnloadFreeStep
<1>29. CASE Inside
  BY <1>10, <1>11, <1>12, <1>13, <1>14, <1>15, <1>16, <1>17, <1>18, <1>20, <1>21, <1>22, <1>23,
     <1>24, <1>25, <1>26, <1>27, <1>28, <1>29, InsideCases DEF Open
<1> QED BY <1>2, <1>4, <1>5, <1>6, <1>7, <1>29 DEF Next

(* The inductive invariant of the refinement.                              *)
LoaderInv ==
  /\ HandleInv /\ Acyclic /\ InOrder /\ NamesInv
  /\ BegunInv /\ StubsInv /\ CompleteInv /\ FiniDone

(* It holds at first ...                                                   *)
LEMMA LoaderInvInitially ==
  ASSUME Init
  PROVE  LoaderInv
BY HandleInvInitially, AcyclicInitially, InOrderInitially, NamesInitially, EntriesInitially
   DEF LoaderInv

(* ... and after every step.                                               *)
LEMMA LoaderInvStep ==
  ASSUME LibDLUnnamed, LoaderInv, [Next]_vars
  PROVE  LoaderInv'
<1>1. /\ TypeInv /\ ShapeInv /\ WorkInv /\ UseInv /\ PresentInv /\ HandleInv
      /\ Acyclic /\ InOrder /\ NamesInv /\ BegunInv /\ StubsInv /\ CompleteInv /\ FiniDone
  BY DEF LoaderInv, HandleInv, CountInv
<1>2. HandleInv' /\ TypeInv'
  BY <1>1, HandleInvStep DEF HandleInv, CountInv
<1>3. Acyclic' /\ InOrder'
  BY <1>1, <1>2, AcyclicStep, InOrderStep
<1>4. NamesInv'
  BY <1>1, <1>2, NamesStep
<1>5. BegunInv' /\ StubsInv'
  BY <1>1, <1>2, BegunStep, StubsStep
<1>6. CompleteInv'
  BY <1>1, <1>2, CompleteEntries, CompleteFrames DEF CompleteInv
<1>7. FiniDone'
  BY <1>1, <1>2, FiniDoneStep
<1> QED BY <1>2, <1>3, <1>4, <1>5, <1>6, <1>7 DEF LoaderInv

-----------------------------------------------------------------------------
(* The refinement.  At first the stubs of the host and libdl_info are      *)
(* there, each of them on solist, and nothing else.                        *)
LEMMA StubsListed ==
  ASSUME Init, NEW n \in Stubs \cup {LibDL}
  PROVE  \E s \in On(Solist) : info[s] = Stub(n)
<1>1. TypeInv /\ StubCount \in Nat
  BY TypesInitially, LinkerAssumption, FS_CardinalityType DEF StubCount
<1>2. PICK order \in [1 .. StubCount -> Stubs] :
        /\ \A i, j \in 1 .. StubCount : order[i] = order[j] => i = j
        /\ info = [s \in Slots |-> IF s = libdl_info THEN Stub(LibDL)
                                   ELSE IF s <= StubCount THEN Stub(order[s])
                                   ELSE Soinfo(LibDL)]
  BY DEF Init
<1>3. \A s \in 0 .. StubCount : s \in On(Solist) /\ s \in Slots
  <2>1. Chains(next, Solist, From(freelist), NULL, sonext, StubCount)
    BY <1>1 DEF TypeInv, ListInv, Init
  <2>2. PICK f : f = From(freelist)
    OBVIOUS
  <2>3. Len(f) = 0
    <3>1. IsChain(next, f, NULL)
      BY <2>1, <2>2 DEF Chains
    <3>2. f \in Seq(Slots) /\ (Len(f) # 0 => f[1] = NULL)
      BY <3>1 DEF IsChain
    <3>3. Len(f) # 0 => f[1] \in Slots
      BY <3>2
    <3> QED BY <3>2, <3>3, PoolEntries
  <2>4. \A s \in 0 .. StubCount : \E i \in 1 .. Len(Solist) : Solist[i] = s
    BY <2>1, <2>2, <2>3 DEF Chains
  <2>5. DOMAIN Solist = 1 .. Len(Solist) /\ On(Solist) \subseteq Slots
    BY <1>1, ListsRight DEF TypeInv
  <2> QED BY <2>4, <2>5 DEF On
<1>4. CASE n = LibDL
  <2>1. libdl_info \in On(Solist) /\ libdl_info \in Slots
    BY <1>1, <1>3 DEF libdl_info
  <2>2. info[libdl_info] = Stub(LibDL)
    BY <1>2, <2>1
  <2> QED BY <1>4, <2>1, <2>2
<1>5. CASE n \in Stubs
  <2>1. order \in Injection(1 .. StubCount, Stubs)
    BY <1>2 DEF Injection, IsInjective
  <2>2. Cardinality(1 .. StubCount) = StubCount
    BY <1>1, FS_Interval
  <2>3. order \in Surjection(1 .. StubCount, Stubs)
    BY <2>1, <2>2, LinkerAssumption, FS_Injection DEF StubCount
  <2>4. PICK i \in 1 .. StubCount : order[i] = n
    BY <1>5, <2>3 DEF Surjection
  <2>5. i \in 0 .. StubCount /\ i # libdl_info /\ i <= StubCount
    BY <1>1, <2>4 DEF libdl_info
  <2>6. i \in On(Solist) /\ i \in Slots
    BY <1>3, <2>5
  <2>7. info[i] = Stub(n)
    BY <1>2, <2>4, <2>5, <2>6
  <2> QED BY <2>6, <2>7
<1> QED BY <1>4, <1>5

(* Initial states are initial states of the promise.                       *)
LEMMA LoaderInitially ==
  ASSUME Init
  PROVE  Loader!Init
<1>1. /\ TypeInv /\ NamesOnce /\ StubsInv /\ stack = << >> /\ handles = [s \in Slots |-> 0]
      /\ On(Solist) \subseteq Slots
  BY TypesInitially, NamesInitially, EntriesInitially, ListsRight DEF NamesInv, Init, TypeInv
<1>2. Show
  BY <1>1, ShowsNow
<1>3. ASSUME NEW n \in Stubs \cup {LibDL}
      PROVE  LibraryStatus[n] = "stub" /\ LibraryOpens[n] = 0
  <2>1. PICK s \in On(Solist) : info[s] = Stub(n)
    BY <1>3, StubsListed
  <2>2. n \in Libraries
    BY LinkerAssumption
  <2>3. info[s].name = n /\ StatusOf(info[s]) = "stub"
    BY <2>1, <2>2, SoinfoMade, NewEntries
  <2> QED BY <1>1, <1>2, <2>1, <2>2, <2>3 DEF Show, Shows
<1>4. ASSUME NEW n \in Libraries, n \notin Stubs \cup {LibDL}
      PROVE  LibraryStatus[n] = "absent" /\ LibraryOpens[n] = 0
  <2>1. ASSUME NEW s \in On(Solist) PROVE info[s].name # n
    <3>1. info[s].image = "none"
      BY <1>1, InfoInitially, SoinfoMade
    <3>2. StubIn(info[s])
      BY <1>1, <3>1 DEF StubsInv, InFn
    <3> QED BY <1>4, <3>2 DEF StubIn
  <2> QED BY <1>2, <1>4, <2>1 DEF Show, Shows
<1>5. LibraryStatus = [n \in Libraries |-> IF n \in Stubs \cup {LibDL} THEN "stub" ELSE "absent"]
  <2>1. \A n \in Libraries :
          LibraryStatus[n] = IF n \in Stubs \cup {LibDL} THEN "stub" ELSE "absent"
    BY <1>3, <1>4
  <2> QED BY <2>1 DEF LibraryStatus
<1>6. LibraryOpens = [n \in Libraries |-> 0]
  <2>1. \A n \in Libraries : LibraryOpens[n] = 0
    BY <1>3, <1>4
  <2> QED BY <2>1 DEF LibraryOpens
<1> QED BY <1>5, <1>6 DEF Loader!Init

(* What the program sees of a step that touches one entry, before and      *)
(* after it.                                                               *)
LEMMA OneEntry ==
  ASSUME TypeInv, TypeInv', NamesOnce, NamesOnce', NEW a \in Slots, NEW m \in Libraries,
         a \in On(Solist) => info[a].name = m, a \in On(Solist)' => info'[a].name = m,
         On(Solist)' \ {a} = On(Solist) \ {a}, Only(a),
         \A s \in Slots : s # a => handles'[s] = handles[s]
  PROVE  /\ LibraryStatus' = [LibraryStatus EXCEPT ![m] = LibraryStatus'[m]]
         /\ LibraryOpens' = [LibraryOpens EXCEPT ![m] = LibraryOpens'[m]]
         /\ a \in On(Solist) => LibraryStatus[m] = StatusOf(info[a]) /\ LibraryOpens[m] = handles[a]
         /\ a \in On(Solist)' =>
              LibraryStatus'[m] = StatusOf(info'[a]) /\ LibraryOpens'[m] = handles'[a]
         /\ (\A s \in On(Solist) : info[s].name # m) =>
              LibraryStatus[m] = "absent" /\ LibraryOpens[m] = 0
         /\ a \in On(Solist) /\ a \notin On(Solist)' =>
              LibraryStatus'[m] = "absent" /\ LibraryOpens'[m] = 0
<1>1. Show /\ ShowNext /\ On(Solist) \subseteq Slots /\ On(Solist)' \subseteq Slots
  <2>1. Show /\ ShowNext
    BY ShowsNow, ShowsThen
  <2>2. On(Solist) \subseteq Slots
    BY ListsRight DEF TypeInv
  <2>3. On(Solist)' \subseteq Slots
    <3>1. Solist' \in Seq(Slots)
      BY DEF TypeInv, ListInv, Chains, IsChain
    <3>2. On(Solist)' = On(Solist')
      BY DEF On
    <3> QED BY <3>1, <3>2, ElementOfSeq, LenProperties DEF On
  <2> QED BY <2>1, <2>2, <2>3
<1>2. PICK st, op, st2, op2 :
        /\ st = LibraryStatus /\ op = LibraryOpens
        /\ st2 = LibraryStatus' /\ op2 = LibraryOpens'
  OBVIOUS
<1>3. /\ st = [n \in Libraries |-> st[n]] /\ op = [n \in Libraries |-> op[n]]
      /\ st2 = [n \in Libraries |-> st2[n]] /\ op2 = [n \in Libraries |-> op2[n]]
  BY <1>2 DEF LibraryStatus, LibraryOpens
<1>4. PICK on, on2, x, x2, h, h2 :
        /\ on = On(Solist) /\ on2 = On(Solist)' /\ x = info /\ x2 = info'
        /\ h = handles /\ h2 = handles'
  OBVIOUS
<1>5. Shows(st, op, on, x, h) /\ Shows(st2, op2, on2, x2, h2)
  BY <1>1, <1>2, <1>4 DEF Show, ShowNext
<1>6. /\ a \in on => x[a].name = m
      /\ a \in on2 => x2[a].name = m
      /\ \A s \in on : s # a => s \in on2
  BY <1>4
<1>7. \A s \in on2 : s # a => s \in on /\ x2[s].name = x[s].name
                                /\ StatusOf(x2[s]) = StatusOf(x[s]) /\ h2[s] = h[s]
  BY <1>1, <1>4 DEF Only
<1>8. st2 = [st EXCEPT ![m] = st2[m]] /\ op2 = [op EXCEPT ![m] = op2[m]]
  <2>1. ASSUME NEW n \in Libraries, n # m PROVE st2[n] = st[n] /\ op2[n] = op[n]
    <3>1. CASE \E s \in on : x[s].name = n
      <4>1. PICK s \in on : x[s].name = n
        BY <3>1
      <4>2. s # a /\ s \in on2 /\ x2[s].name = n
        BY <1>6, <1>7, <2>1, <4>1
      <4>3. st[n] = StatusOf(x[s]) /\ op[n] = h[s]
        BY <1>5, <2>1, <4>1 DEF Shows
      <4>4. st2[n] = StatusOf(x2[s]) /\ op2[n] = h2[s]
        BY <1>5, <2>1, <4>2 DEF Shows
      <4> QED BY <1>7, <4>2, <4>3, <4>4
    <3>2. CASE \A s \in on : x[s].name # n
      <4>1. \A s \in on2 : x2[s].name # n
        BY <1>6, <1>7, <2>1, <3>2
      <4>2. st[n] = "absent" /\ op[n] = 0
        BY <1>5, <2>1, <3>2 DEF Shows
      <4>3. st2[n] = "absent" /\ op2[n] = 0
        BY <1>5, <2>1, <4>1 DEF Shows
      <4> QED BY <4>2, <4>3
    <3> QED BY <3>1, <3>2
  <2>2. st2 = [st EXCEPT ![m] = st2[m]]
    <3>1. \A n \in Libraries : st2[n] = [st EXCEPT ![m] = st2[m]][n]
      BY <1>3, <2>1
    <3> QED BY <1>3, <3>1
  <2>3. op2 = [op EXCEPT ![m] = op2[m]]
    <3>1. \A n \in Libraries : op2[n] = [op EXCEPT ![m] = op2[m]][n]
      BY <1>3, <2>1
    <3> QED BY <1>3, <3>1
  <2> QED BY <2>2, <2>3
<1>9. /\ a \in on => st[m] = StatusOf(x[a]) /\ op[m] = h[a]
      /\ a \in on2 => st2[m] = StatusOf(x2[a]) /\ op2[m] = h2[a]
      /\ (\A s \in on : x[s].name # m) => st[m] = "absent" /\ op[m] = 0
  BY <1>5, <1>6 DEF Shows
<1>10. a \in on /\ a \notin on2 => st2[m] = "absent" /\ op2[m] = 0
  <2>1. SUFFICES ASSUME a \in on, a \notin on2 PROVE \A s \in on2 : x2[s].name # m
    BY <1>5 DEF Shows
  <2>2. ASSUME NEW s \in on2, x2[s].name = m PROVE FALSE
    <3>1. s # a /\ s \in on /\ x[s].name = x[a].name
      BY <1>6, <1>7, <2>1, <2>2
    <3> QED BY <1>1, <1>4, <2>1, <3>1 DEF NamesOnce
  <2> QED BY <2>2
<1> QED BY <1>2, <1>4, <1>8, <1>9, <1>10

(* A step that changes nothing the program sees.                           *)
LEMMA Unshown ==
  ASSUME TypeInv, TypeInv', NamesOnce, NamesOnce', On(Solist)' = On(Solist),
         \A s \in Slots : s \in On(Solist) =>
           /\ info'[s].name = info[s].name /\ StatusOf(info'[s]) = StatusOf(info[s])
           /\ handles'[s] = handles[s]
  PROVE  UNCHANGED << LibraryStatus, LibraryOpens >>
<1>1. Show /\ ShowNext /\ On(Solist) \subseteq Slots
  BY ShowsNow, ShowsThen, ListsRight DEF TypeInv
<1>2. ASSUME NEW n \in Libraries
      PROVE  LibraryStatus'[n] = LibraryStatus[n] /\ LibraryOpens'[n] = LibraryOpens[n]
  <2>1. CASE \E s \in On(Solist) : info[s].name = n
    <3>1. PICK s \in On(Solist) : info[s].name = n
      BY <2>1
    <3>2. s \in On(Solist)' /\ info'[s].name = n
      BY <1>1, <3>1
    <3>3. LibraryStatus[n] = StatusOf(info[s]) /\ LibraryOpens[n] = handles[s]
      BY <1>1, <3>1 DEF Show, Shows
    <3>4. LibraryStatus'[n] = StatusOf(info'[s]) /\ LibraryOpens'[n] = handles'[s]
      BY <1>1, <3>2 DEF ShowNext, Shows
    <3> QED BY <1>1, <3>1, <3>3, <3>4
  <2>2. CASE \A s \in On(Solist) : info[s].name # n
    <3>1. \A s \in On(Solist)' : info'[s].name # n
      BY <1>1, <2>2
    <3>2. LibraryStatus[n] = "absent" /\ LibraryOpens[n] = 0
      BY <1>1, <2>2 DEF Show, Shows
    <3>3. LibraryStatus'[n] = "absent" /\ LibraryOpens'[n] = 0
      BY <1>1, <3>1 DEF ShowNext, Shows
    <3> QED BY <3>2, <3>3
  <2> QED BY <2>1, <2>2
<1>3. PICK st, op, st2, op2 :
        /\ st = LibraryStatus /\ op = LibraryOpens
        /\ st2 = LibraryStatus' /\ op2 = LibraryOpens'
  OBVIOUS
<1>4. /\ st = [n \in Libraries |-> st[n]] /\ op = [n \in Libraries |-> op[n]]
      /\ st2 = [n \in Libraries |-> st2[n]] /\ op2 = [n \in Libraries |-> op2[n]]
  BY <1>3 DEF LibraryStatus, LibraryOpens
<1>5. st2 = st /\ op2 = op
  BY SMTT(20), <1>2, <1>3, <1>4
<1> QED BY <1>3, <1>5

(* A library with all its records in place has one for each library it     *)
(* needs, and the entry that is recorded is there under that name.         *)
LEMMA NeedRecorded ==
  ASSUME TypeInv, NeededPresent, NEW s \in Slots, s \in On(Solist),
         Len(info[s].deps) >= Len(Needed[info[s].name]),
         \A i \in 1 .. Len(info[s].deps) : info[s].deps[i] # NULL,
         NEW m \in Loader!Needs(info[s].name)
  PROVE  \E i \in 1 .. Len(info[s].deps) : \E d \in Slots :
           /\ d = info[s].deps[i] /\ d # NULL
           /\ UsableIn(info[d], d, On(Solist)) /\ info[d].name = m
<1>1. info[s].name \in Libraries /\ Needed[info[s].name] \in Seq(Libraries)
  BY InfoFields, LinkerAssumption DEF TypeInv
<1>2. PICK b \in Nat, c \in Nat :
        b = Len(Needed[info[s].name]) /\ c = Len(info[s].deps) /\ c >= b
  BY <1>1, LenProperties, DepsFields DEF TypeInv
<1>3. PICK i \in 1 .. b : Needed[info[s].name][i] = m
  BY <1>1, <1>2, LenProperties DEF Loader!Needs
<1>4. i \in 1 .. c
  BY <1>2, <1>3
<1>5. PICK d : d = info[s].deps[i]
  OBVIOUS
<1>6. d # NULL /\ d \in Slots /\ i \in DOMAIN info[s].deps
  BY <1>2, <1>4, <1>5, DepsFields, PoolEntries DEF TypeInv
<1>7. Usable(d) /\ info[d].name = NeededBy(s)[i]
  BY <1>5, <1>6 DEF NeededPresent
<1>8. UsableIn(info[d], d, On(Solist)) /\ info[d].name = m
  BY <1>3, <1>7, UsableIs DEF NeededBy
<1> QED BY <1>2, <1>4, <1>5, <1>6, <1>8

(* So nobody who is linked needs an entry that nobody records.             *)
LEMMA Unneeded ==
  ASSUME TypeInv, NeededPresent, NamesOnce, CompleteInv,
         NEW a \in Slots, a \in On(Solist),
         \A s \in Slots : \A i \in 1 .. Len(info[s].deps) : info[s].deps[i] # a
  PROVE  \A m \in Loader!Users(info[a].name) : LibraryStatus[m] \notin {"linked", "started"}
<1>1. SUFFICES ASSUME NEW m \in Loader!Users(info[a].name),
                      LibraryStatus[m] \in {"linked", "started"}
               PROVE  FALSE
  OBVIOUS
<1>2. m \in Libraries /\ info[a].name \in Loader!Needs(m)
  BY <1>1 DEF Loader!Users
<1>3. Show /\ On(Solist) \subseteq Slots
  BY ShowsNow, ListsRight DEF TypeInv
<1>4. PICK s \in On(Solist) : info[s].name = m
  <2>1. (\A s \in On(Solist) : info[s].name # m) => LibraryStatus[m] = "absent"
    BY <1>2, <1>3 DEF Show, Shows
  <2> QED BY <1>1, <2>1
<1>5. StatusOf(info[s]) \in {"linked", "started"} /\ s \in Slots
  BY <1>1, <1>2, <1>3, <1>4 DEF Show, Shows
<1>6. info[s].linked /\ ~info[s].error /\ ~(info[s].finis > 0) /\ info[s].image # "none"
  BY <1>5 DEF StatusOf
<1>7. info[s].finis = 0
  <2>1. info[s].finis \in Nat
    BY <1>5, InfoFields DEF TypeInv
  <2> QED BY <1>6, <2>1
<1>8. /\ Len(info[s].deps) >= Len(Needed[info[s].name])
      /\ \A i \in 1 .. Len(info[s].deps) : info[s].deps[i] # NULL
  BY <1>5, <1>6, <1>7 DEF CompleteInv, Complete
<1>9. PICK i \in 1 .. Len(info[s].deps), d \in Slots :
        d = info[s].deps[i] /\ UsableIn(info[d], d, On(Solist)) /\ info[d].name = info[a].name
  <2>1. PICK n : n = info[a].name
    OBVIOUS
  <2>2. n \in Loader!Needs(info[s].name)
    BY <1>2, <1>4, <2>1
  <2>3. \E i \in 1 .. Len(info[s].deps) : \E d \in Slots :
          /\ d = info[s].deps[i] /\ d # NULL
          /\ UsableIn(info[d], d, On(Solist)) /\ info[d].name = n
    BY <1>4, <1>5, <1>8, <2>2, NeedRecorded
  <2> QED BY <2>1, <2>3
<1>10. d = a
  BY <1>9 DEF NamesOnce, UsableIn
<1> QED BY <1>5, <1>9, <1>10

(* An unload past its destructors is of a library on solist that nobody    *)
(* holds or records.                                                       *)
LEMMA Unloaded ==
  ASSUME HandleInv, InOrder, BegunInv,
         NEW k \in 1 .. Len(stack), stack[k].fn = "unload", stack[k].i > 0
  PROVE  LET a == stack[k].si
         IN  /\ a \in Slots /\ a \in On(Solist) /\ handles[a] = 0 /\ info[a].inits = 1
             /\ info[a].linked /\ ~info[a].error
             /\ \A s \in Slots : \A i \in 1 .. Len(info[s].deps) : info[s].deps[i] # a
<1> USE DEF HandleInv, CountInv
<1>1. PICK a : a = stack[k].si
  OBVIOUS
<1>2. a \in Slots
  BY <1>1, StackLength, FrameFields, PoolEntries DEF Holding
<1>3. info[a].refcount = 1
  <2>1. Alone(stack[k], info[a])
    BY <1>1 DEF UseInv, UnloadsAlone
  <2> QED BY <2>1 DEF Alone
<1>4. a \in On(Solist)
  BY <1>2, <1>3 DEF UseInv, OffList, Nothing
<1>5. handles[a] = 0
  BY <1>1, Unheld
<1>6. info[a].inits = 1
  BY <1>1 DEF InOrder, StoppedFrames
<1>7. info[a].linked /\ ~info[a].error
  BY <1>2, <1>6 DEF BegunInv, Unbegun
<1>8. info[a].refcount <= Cardinality(Drops(stack, a))
  <2>1. Len(stack) \in Nat /\ DOMAIN stack = 1 .. Len(stack)
    BY StackLength DEF TypeInv, LinkerTypes
  <2>2. /\ k \in Drops(stack, a) /\ IsFiniteSet(Drops(stack, a))
        /\ Cardinality(Drops(stack, a)) \in Nat
    BY <1>1, <2>1, DropsAre
  <2>3. Cardinality(Drops(stack, a)) # 0
    BY <2>2, FS_EmptySet
  <2> QED BY <1>3, <2>2, <2>3
<1>9. \A s \in Slots : \A i \in 1 .. Len(info[s].deps) : info[s].deps[i] # a
  BY <1>2, <1>8, Unrecorded DEF UseInv
<1> QED BY <1>1, <1>2, <1>4, <1>5, <1>6, <1>7, <1>9

(* Handles are held only of what is on solist, linked and not failed.      *)
LEMMA NotHeld ==
  ASSUME TypeInv, HandlesUsable, NEW s \in Slots,
         s \notin On(Solist) \/ ~info[s].linked \/ info[s].error
  PROVE  handles[s] = 0
<1>1. ~(handles[s] > 0)
  BY UsableIs DEF HandlesUsable, UsableIn
<1>2. handles[s] \in Nat
  BY DEF TypeInv, LinkerTypes
<1> QED BY <1>1, <1>2

(* What each step is to the program.  A dlopen that returns a library      *)
(* opens it ...                                                            *)
LEMMA OpenShown ==
  ASSUME LoaderInv, LoaderInv', DlopenReturn
  PROVE  Loader!Open(info[Top.si].name)
<1> USE DEF LoaderInv, HandleInv, CountInv, NamesInv
<1>1. PICK a \in Slots, m \in Libraries :
        /\ a = Top.si /\ m = info[a].name /\ handles' = [handles EXCEPT ![a] = @ + 1]
        /\ handles \in [Slots -> Nat]
  BY DlopenReturnStep, PoolEntries, InfoFields DEF TypeInv, LinkerTypes
<1>2. /\ On(Solist)' = On(Solist) /\ Only(a) /\ SameName /\ SameLinked /\ SameError /\ SameImage
      /\ SameInits /\ SameFinis
  BY <1>1, DlopenReturnStep, DlopenReturnFields, ListsSame
<1>3. /\ UsableIn(info[a], a, On(Solist)) /\ info[a].inits = 1 /\ info[a].finis = 0
  BY <1>1, HandedOut
<1>4. /\ LibraryStatus' = [LibraryStatus EXCEPT ![m] = LibraryStatus'[m]]
      /\ LibraryOpens' = [LibraryOpens EXCEPT ![m] = LibraryOpens'[m]]
      /\ LibraryStatus[m] = StatusOf(info[a]) /\ LibraryOpens[m] = handles[a]
      /\ LibraryStatus'[m] = StatusOf(info'[a]) /\ LibraryOpens'[m] = handles'[a]
  BY <1>1, <1>2, <1>3, OneEntry DEF UsableIn, SameName
<1>5. StatusOf(info[a]) \in {"stub", "started"}
  BY <1>3 DEF StatusOf, UsableIn
<1>6. StatusOf(info'[a]) = StatusOf(info[a])
  BY <1>1, <1>2 DEF StatusOf, SameLinked, SameError, SameImage, SameInits, SameFinis
<1>7. handles'[a] = handles[a] + 1
  BY SMTT(20), <1>1
<1>8. LibraryStatus' = LibraryStatus
  BY <1>1, <1>4, <1>6 DEF LibraryStatus
<1>9. LibraryOpens' = [LibraryOpens EXCEPT ![m] = LibraryOpens[m] + 1]
  BY <1>4, <1>7
<1> QED BY SMTT(20), <1>1, <1>4, <1>5, <1>8, <1>9 DEF Loader!Open

(* ... and a dlclose closes it.                                            *)
LEMMA CloseShown ==
  ASSUME LoaderInv, LoaderInv', NEW a \in Slots, Dlclose(a)
  PROVE  Loader!Close(info[a].name)
<1> USE DEF LoaderInv, HandleInv, CountInv, NamesInv
<1>1. PICK m \in Libraries : m = info[a].name
  BY InfoFields DEF TypeInv
<1>2. /\ On(Solist)' = On(Solist) /\ info' = info /\ handles' = [handles EXCEPT ![a] = @ - 1]
      /\ handles[a] > 0 /\ handles \in [Slots -> Nat]
  BY DlcloseStep, ListsSame DEF TypeInv, LinkerTypes
<1>3. a \in On(Solist)
  BY <1>2, UsableIs DEF HandlesUsable, UsableIn
<1>4. /\ LibraryStatus' = [LibraryStatus EXCEPT ![m] = LibraryStatus'[m]]
      /\ LibraryOpens' = [LibraryOpens EXCEPT ![m] = LibraryOpens'[m]]
      /\ LibraryStatus[m] = StatusOf(info[a]) /\ LibraryOpens[m] = handles[a]
      /\ LibraryStatus'[m] = StatusOf(info'[a]) /\ LibraryOpens'[m] = handles'[a]
  BY <1>1, <1>2, <1>3, OneEntry DEF Only
<1>5. handles'[a] = handles[a] - 1
  BY <1>2
<1>6. LibraryStatus' = LibraryStatus
  BY <1>1, <1>2, <1>4 DEF LibraryStatus
<1>7. LibraryOpens' = [LibraryOpens EXCEPT ![m] = LibraryOpens[m] - 1]
  BY <1>4, <1>5
<1> QED BY <1>1, <1>2, <1>4, <1>6, <1>7 DEF Loader!Close

(* A link that fails makes the library a failed one ...                    *)
LEMMA FailShown ==
  ASSUME LoaderInv, LoaderInv', LinkFails
  PROVE  Loader!Fail(info[Top.si].name)
<1> USE DEF LoaderInv, HandleInv, CountInv, NamesInv
<1>1. PICK a \in Slots, m \in Libraries :
        /\ a = Top.si /\ m = info[a].name /\ a # NULL
        /\ stack # << >> /\ Top.fn = "link_image" /\ handles' = handles
        /\ On(Solist)' = On(Solist) /\ Only(a) /\ SameName /\ info'[a].error
  <2>1. /\ Top.si \in Slots /\ Top.si # NULL /\ stack # << >> /\ Top.fn = "link_image"
        /\ handles' = handles /\ UNCHANGED lists /\ Only(Top.si)
    BY LinkFailStep, PoolEntries
  <2>2. SameName /\ info'[Top.si].error
    BY LinkFailFields
  <2>3. On(Solist)' = On(Solist)
    BY <2>1, ListsSame
  <2>4. info[Top.si].name \in Libraries
    BY <2>1, InfoFields DEF TypeInv
  <2> QED BY <2>1, <2>2, <2>3, <2>4
<1>2. a \in On(Solist)
  BY <1>1, FramesNext DEF WorkInv, Placed, PlacedAt
<1>3. ~info[a].linked /\ ~info[a].error
  BY <1>1, FramesNext DEF WorkInv, Linking, LinkingOf
<1>4. /\ LibraryStatus' = [LibraryStatus EXCEPT ![m] = LibraryStatus'[m]]
      /\ LibraryOpens' = [LibraryOpens EXCEPT ![m] = LibraryOpens'[m]]
      /\ LibraryStatus[m] = StatusOf(info[a]) /\ LibraryOpens[m] = handles[a]
      /\ LibraryStatus'[m] = StatusOf(info'[a]) /\ LibraryOpens'[m] = handles'[a]
  BY <1>1, <1>2, OneEntry DEF SameName
<1>5. StatusOf(info[a]) = "absent" /\ StatusOf(info'[a]) = "failed"
  BY <1>1, <1>3 DEF StatusOf
<1>6. LibraryOpens' = LibraryOpens
  BY <1>1, <1>4 DEF LibraryOpens
<1> QED BY SMTT(20), <1>1, <1>4, <1>5, <1>6 DEF Loader!Fail, Loader!Become

(* ... and one that succeeds links it: all it needs is there.              *)
LEMMA LinkShown ==
  ASSUME LoaderInv, LoaderInv', LinkFinish, ~LinkFail(TRUE)
  PROVE  Loader!Link(info[Top.si].name)
<1> USE DEF LoaderInv, HandleInv, CountInv, NamesInv
<1>1. PICK a \in Slots, m \in Libraries :
        /\ a = Top.si /\ m = info[a].name /\ a # NULL
        /\ stack # << >> /\ Top.fn = "link_image" /\ handles' = handles
        /\ On(Solist)' = On(Solist) /\ Only(a) /\ SameName /\ SameError /\ SameImage
        /\ SameInits /\ SameFinis /\ SameDeps /\ info'[a].linked
  BY LinkedStep, LinkedFields, ListsSame, PoolEntries, InfoFields DEF TypeInv
<1>2. a \in On(Solist)
  BY SMTT(20), <1>1, FramesNext DEF WorkInv, Placed, PlacedAt
<1>3. ~info[a].linked /\ ~info[a].error /\ info[a].image = "mapped"
  BY <1>1, FramesNext DEF WorkInv, Linking, LinkingOf
<1>4. info[a].inits = 0 /\ info[a].finis = 0
  BY <1>3 DEF BegunInv, Unbegun
<1>5. /\ LibraryStatus' = [LibraryStatus EXCEPT ![m] = LibraryStatus'[m]]
      /\ LibraryOpens' = [LibraryOpens EXCEPT ![m] = LibraryOpens'[m]]
      /\ LibraryStatus[m] = StatusOf(info[a]) /\ LibraryOpens[m] = handles[a]
      /\ LibraryStatus'[m] = StatusOf(info'[a]) /\ LibraryOpens'[m] = handles'[a]
  BY <1>1, <1>2, OneEntry DEF SameName
<1>6. StatusOf(info[a]) = "absent" /\ StatusOf(info'[a]) = "linked"
  BY SMTT(20), <1>1, <1>3, <1>4 DEF StatusOf, SameError, SameImage, SameInits, SameFinis
<1>7. LibraryOpens' = LibraryOpens
  BY <1>1, <1>5 DEF LibraryOpens
<1>8. /\ Len(info[a].deps) >= Len(Needed[info[a].name])
      /\ \A i \in 1 .. Len(info[a].deps) : info[a].deps[i] # NULL
  <2>1. Complete(info'[a])
    BY DEF CompleteInv
  <2>2. /\ info'[a].deps = info[a].deps /\ info'[a].name = info[a].name /\ info'[a].linked
        /\ ~info'[a].error /\ info'[a].image # "none" /\ info'[a].finis = 0
    BY <1>1, <1>3, <1>4 DEF SameDeps, SameName, SameError, SameImage, SameFinis
  <2> QED BY <2>1, <2>2 DEF Complete
<1>9. \A s \in Slots : s \in On(Solist) => info[s].finis = 0
  BY <1>1, OpeningQuiet, NoneStopping
<1>10. Show
  BY ShowsNow
<1>11. ASSUME NEW p \in Loader!Needs(m) PROVE LibraryStatus[p] \in Loader!Present
  <2>1. \E i \in 1 .. Len(info[a].deps) : \E d \in Slots :
          /\ d = info[a].deps[i] /\ d # NULL
          /\ UsableIn(info[d], d, On(Solist)) /\ info[d].name = p
    BY <1>1, <1>2, <1>8, <1>11, NeedRecorded DEF PresentInv
  <2>2. PICK d \in Slots : UsableIn(info[d], d, On(Solist)) /\ info[d].name = p
    BY <2>1
  <2>3. p \in Libraries
    BY <2>2, InfoFields DEF TypeInv
  <2>4. LibraryStatus[p] = StatusOf(info[d])
    BY <1>10, <2>2, <2>3 DEF Show, Shows, UsableIn
  <2>5. info[d].linked /\ ~info[d].error /\ info[d].finis = 0
    BY <1>9, <2>2 DEF UsableIn
  <2> QED BY <2>4, <2>5 DEF StatusOf, Loader!Present
<1> QED BY <1>1, <1>5, <1>6, <1>7, <1>11 DEF Loader!Link, Loader!Become

(* When its init functions return a library is started, after all it       *)
(* needs; those of a stub start nothing.                                   *)
LEMMA StartShown ==
  ASSUME LoaderInv, LoaderInv', InitReturns
  PROVE  \/ Loader!Start(info[Top.si].name)
         \/ UNCHANGED << LibraryStatus, LibraryOpens >>
<1> USE DEF LoaderInv, HandleInv, CountInv, NamesInv
<1>1. PICK a \in Slots, m \in Libraries :
        /\ a = Top.si /\ m = info[a].name /\ a # NULL
        /\ stack # << >> /\ Top.fn = "init" /\ handles' = handles
        /\ On(Solist)' = On(Solist) /\ Only(a) /\ SameName /\ SameError /\ SameImage
        /\ SameLinked /\ SameFinis /\ SameDeps /\ info'[a].inits = info[a].inits + 1
  BY InitReturnsStep, InitReturnsFields, ListsSame, PoolEntries, InfoFields DEF TypeInv
<1>2. UsableIn(info[a], a, On(Solist))
  BY <1>1, FramesNext DEF Opening, OpenFrames, OpenAt
<1>3. \A s \in Slots : s \in On(Solist) => info[s].finis = 0
  BY <1>1, OpeningQuiet, NoneStopping
<1>4. info[a].linked /\ ~info[a].error /\ a \in On(Solist) /\ info[a].finis = 0
  BY <1>2, <1>3 DEF UsableIn
<1>5. info[a].inits = 0
  <2>1. InCtor(stack, a)
    BY <1>1, FramesNext DEF InCtor, Starts
  <2> QED BY <2>1 DEF Started, StartedAt
<1>6. /\ LibraryStatus' = [LibraryStatus EXCEPT ![m] = LibraryStatus'[m]]
      /\ LibraryOpens' = [LibraryOpens EXCEPT ![m] = LibraryOpens'[m]]
      /\ LibraryStatus[m] = StatusOf(info[a]) /\ LibraryOpens[m] = handles[a]
      /\ LibraryStatus'[m] = StatusOf(info'[a]) /\ LibraryOpens'[m] = handles'[a]
  BY SMTT(20), <1>1, <1>4, OneEntry DEF SameName
<1>7. LibraryOpens' = LibraryOpens
  BY <1>1, <1>6 DEF LibraryOpens
<1>8. /\ info'[a].error = info[a].error /\ info'[a].linked = info[a].linked
      /\ info'[a].finis = info[a].finis /\ info'[a].image = info[a].image /\ info'[a].inits = 1
  BY <1>1, <1>5 DEF SameError, SameLinked, SameFinis, SameImage
<1>9. CASE info[a].image = "none"
  <2>1. StatusOf(info[a]) = "stub" /\ StatusOf(info'[a]) = "stub"
    BY <1>4, <1>8, <1>9 DEF StatusOf
  <2>2. LibraryStatus' = LibraryStatus
    <3>1. LibraryStatus' = [LibraryStatus EXCEPT ![m] = LibraryStatus'[m]]
      BY <1>6
    <3>2. LibraryStatus'[m] = LibraryStatus[m]
      BY <1>6, <2>1
    <3> QED BY <3>1, <3>2 DEF LibraryStatus
  <2> QED BY <1>7, <2>2
<1>10. CASE info[a].image # "none"
  <2>1. StatusOf(info[a]) = "linked" /\ StatusOf(info'[a]) = "started"
    BY <1>4, <1>5, <1>8, <1>10 DEF StatusOf
  <2>2. /\ Len(info[a].deps) >= Len(Needed[info[a].name])
        /\ \A i \in 1 .. Len(info[a].deps) : info[a].deps[i] # NULL
    BY <1>4, <1>10 DEF CompleteInv, Complete
  <2>3. AllStarted(info, a)
    BY <1>1, FramesNext DEF InOrder, CtorOrder, InitAt
  <2>4. Show
    BY ShowsNow
  <2>5. ASSUME NEW p \in Loader!Needs(m) PROVE LibraryStatus[p] \in {"stub", "started"}
    <3>1. PICK i \in 1 .. Len(info[a].deps), d \in Slots :
            /\ d = info[a].deps[i] /\ d # NULL
            /\ UsableIn(info[d], d, On(Solist)) /\ info[d].name = p
      BY <1>1, <1>4, <2>2, <2>5, NeedRecorded DEF PresentInv
    <3>2. p \in Libraries
      BY <3>1, InfoFields DEF TypeInv
    <3>3. LibraryStatus[p] = StatusOf(info[d])
      BY <2>4, <3>1, <3>2 DEF Show, Shows, UsableIn
    <3>4. info[d].linked /\ ~info[d].error /\ info[d].finis = 0
      BY <1>3, <3>1 DEF UsableIn
    <3>5. info[d].inits = 1
      BY <2>3, <3>1 DEF AllStarted
    <3> QED BY <3>3, <3>4, <3>5 DEF StatusOf
  <2>6. Loader!Start(m)
    BY <1>6, <1>7, <2>1, <2>5 DEF Loader!Start, Loader!Become
  <2> QED BY <1>1, <2>6
<1> QED BY <1>9, <1>10

(* When its fini functions return a library is stopped: the program holds  *)
(* no handle of it, and no library that needs it is still there.           *)
LEMMA StopShown ==
  ASSUME LoaderInv, LoaderInv', FiniReturns
  PROVE  Loader!Stop(info[Top.si].name)
<1> USE DEF LoaderInv, HandleInv, CountInv, NamesInv
<1>1. PICK a \in Slots, m \in Libraries :
        /\ a = Top.si /\ m = info[a].name
        /\ stack # << >> /\ Top.fn = "fini" /\ handles' = handles /\ Pops(stack, stack')
        /\ On(Solist)' = On(Solist) /\ Only(a) /\ SameName
        /\ info'[a].error = info[a].error /\ info'[a].linked = info[a].linked
        /\ info'[a].finis = info[a].finis + 1
  BY FiniReturnsStep, FiniReturnsFields, ListsSame, PoolEntries, InfoFields
     DEF TypeInv, SameError, SameLinked
<1>2. PICK k \in 1 .. Len(stack) :
        stack[k].fn = "unload" /\ stack[k].i > 0 /\ stack[k].si = a
  <2>1. PICK k \in 1 .. Len(stack') :
          stack'[k].fn = "unload" /\ stack'[k].i > 0 /\ stack'[k].si = a
    BY <1>1, ClosingTop
  <2>2. k \in 1 .. Len(stack) /\ stack'[k] = stack[k]
    BY <1>1, FramesNext
  <2> QED BY <2>1, <2>2
<1>3. /\ a \in On(Solist) /\ handles[a] = 0 /\ info[a].inits = 1
      /\ info[a].linked /\ ~info[a].error
      /\ \A s \in Slots : \A i \in 1 .. Len(info[s].deps) : info[s].deps[i] # a
  BY <1>2, Unloaded
<1>4. info[a].finis = 0
  BY <1>1 DEF Stopping, InFn
<1>5. /\ LibraryStatus' = [LibraryStatus EXCEPT ![m] = LibraryStatus'[m]]
      /\ LibraryOpens' = [LibraryOpens EXCEPT ![m] = LibraryOpens'[m]]
      /\ LibraryStatus[m] = StatusOf(info[a]) /\ LibraryOpens[m] = handles[a]
      /\ LibraryStatus'[m] = StatusOf(info'[a]) /\ LibraryOpens'[m] = handles'[a]
  BY SMTT(20), <1>1, <1>3, OneEntry DEF SameName
<1>6. LibraryOpens' = LibraryOpens
  BY <1>1, <1>5 DEF LibraryOpens
<1>7. StatusOf(info[a]) \in {"stub", "started"}
  BY <1>3, <1>4 DEF StatusOf
<1>8. StatusOf(info'[a]) = "stopped"
  <2>1. info'[a].linked /\ ~info'[a].error /\ info'[a].finis > 0
    BY <1>1, <1>3, <1>4
  <2> QED BY <2>1 DEF StatusOf
<1>9. \A p \in Loader!Users(m) : LibraryStatus[p] \notin {"linked", "started"}
  BY <1>1, <1>3, Unneeded DEF PresentInv
<1>10. ~Loader!InUse(m)
  BY <1>3, <1>5, <1>9 DEF Loader!InUse
<1>11. Loader!Stop(m)
  BY <1>5, <1>6, <1>7, <1>8, <1>10 DEF Loader!Stop, Loader!Become
<1> QED BY <1>1, <1>11

(* The unload that frees its soinfo removes it.                            *)
LEMMA RemoveShown ==
  ASSUME LoaderInv, LoaderInv', UnloadFree
  PROVE  Loader!Remove(info[Top.si].name)
<1> USE DEF LoaderInv, HandleInv, CountInv, NamesInv
<1>1. PICK a \in Slots, m \in Libraries :
        /\ a = Top.si /\ m = info[a].name
        /\ stack # << >> /\ Top.fn = "unload" /\ Top.i > 0 /\ handles' = handles
        /\ On(Solist)' = On(Solist) \ {a} /\ Only(a) /\ SameName
  BY UnloadFreeStep, UnloadFreeFields, PoolEntries, InfoFields DEF TypeInv
<1>2. PICK k \in 1 .. Len(stack) : k = Len(stack) /\ stack[k] = Top
  BY <1>1, FramesNext
<1>3. /\ a \in On(Solist) /\ handles[a] = 0 /\ info[a].linked /\ ~info[a].error
  BY <1>1, <1>2, Unloaded
<1>4. info[a].finis > 0
  BY <1>1, <1>2 DEF FiniDone, DoneAt
<1>5. /\ LibraryStatus' = [LibraryStatus EXCEPT ![m] = LibraryStatus'[m]]
      /\ LibraryOpens' = [LibraryOpens EXCEPT ![m] = LibraryOpens'[m]]
      /\ LibraryStatus[m] = StatusOf(info[a]) /\ LibraryOpens[m] = handles[a]
      /\ LibraryStatus'[m] = "absent" /\ LibraryOpens'[m] = 0
  BY <1>1, <1>3, OneEntry
<1>6. StatusOf(info[a]) = "stopped"
  BY <1>3, <1>4 DEF StatusOf
<1>7. LibraryOpens' = LibraryOpens
  BY <1>3, <1>5 DEF LibraryOpens
<1> QED BY SMTT(20), <1>1, <1>5, <1>6, <1>7 DEF Loader!Remove, Loader!Become

(* The host installs a stub, or takes one back that nobody uses.           *)
LEMMA InstallShown ==
  ASSUME LoaderInv, LoaderInv', NEW n \in Stubs, LibraryCreate(n)
  PROVE  Loader!Install(n) /\ n \in Libraries
<1> USE DEF LoaderInv, HandleInv, CountInv, NamesInv
<1>1. PICK a \in Slots :
        /\ n \in Libraries /\ handles' = handles /\ \A s \in On(Solist) : info[s].name # n
        /\ a \notin On(Solist) /\ On(Solist)' = On(Solist) \cup {a} /\ Only(a)
        /\ info'[a] = Stub(n)
  BY LibraryCreateStep, PoolEntries
<1>2. handles[a] = 0
  BY <1>1, NotHeld
<1>3. info'[a].name = n /\ StatusOf(info'[a]) = "stub"
  BY <1>1, SoinfoMade, NewEntries
<1>4. /\ LibraryStatus' = [LibraryStatus EXCEPT ![n] = LibraryStatus'[n]]
      /\ LibraryOpens' = [LibraryOpens EXCEPT ![n] = LibraryOpens'[n]]
      /\ LibraryStatus[n] = "absent" /\ LibraryOpens[n] = 0
      /\ LibraryStatus'[n] = StatusOf(info'[a]) /\ LibraryOpens'[n] = handles'[a]
  BY <1>1, <1>3, OneEntry
<1>5. LibraryOpens' = LibraryOpens
  BY <1>1, <1>2, <1>4 DEF LibraryOpens
<1> QED BY <1>1, <1>3, <1>4, <1>5 DEF Loader!Install, Loader!Become

(* A stub that is taken back is unused: its count is zero.                 *)
LEMMA WithdrawShown ==
  ASSUME LoaderInv, LoaderInv', NEW a \in Slots, LibraryDestroy(a)
  PROVE  Loader!Withdraw(info[a].name)
<1> USE DEF LoaderInv, HandleInv, CountInv, NamesInv
<1>1. PICK m \in Libraries : m = info[a].name
  BY InfoFields DEF TypeInv
<1>2. /\ info' = info /\ handles' = handles /\ stack = << >> /\ a \in On(Solist)
      /\ info[a].image = "none" /\ info[a].refcount = 0
      /\ On(Solist)' = On(Solist) \ {a}
  BY LibraryDestroyStep
<1>3. StubIn(info[a])
  BY <1>2 DEF StubsInv, InFn
<1>4. info[a].finis = 0
  <2>1. Len(stack) = 0
    BY <1>2, StackLength
  <2> QED BY <1>2, <2>1 DEF Stopping, StopAt
<1>5. /\ handles[a] = 0
      /\ \A s \in Slots : \A i \in 1 .. Len(info[s].deps) : info[s].deps[i] # a
  <2>1. PICK c \in Int, h \in Nat, r \in Nat, d \in Nat :
          /\ c = info[a].refcount /\ h = handles[a] /\ r = Cardinality(Records(info, a))
          /\ d = Cardinality(Drops(stack, a)) /\ c = h + r + d
    BY CountsAre DEF UseInv
  <2>2. handles[a] = 0
    BY <1>2, <2>1
  <2>3. info[a].refcount <= Cardinality(Drops(stack, a))
    BY <1>2, <2>1
  <2> QED BY <2>2, <2>3, Unrecorded DEF UseInv
<1>6. /\ LibraryStatus' = [LibraryStatus EXCEPT ![m] = LibraryStatus'[m]]
      /\ LibraryOpens' = [LibraryOpens EXCEPT ![m] = LibraryOpens'[m]]
      /\ LibraryStatus[m] = StatusOf(info[a]) /\ LibraryOpens[m] = handles[a]
      /\ LibraryStatus'[m] = "absent" /\ LibraryOpens'[m] = 0
  BY <1>1, <1>2, OneEntry DEF Only
<1>7. StatusOf(info[a]) = "stub" /\ m \in Stubs \cup {LibDL}
  BY <1>1, <1>2, <1>3, <1>4 DEF StatusOf, StubIn
<1>8. LibraryOpens' = LibraryOpens
  BY <1>5, <1>6 DEF LibraryOpens
<1>9. \A p \in Loader!Users(m) : LibraryStatus[p] \notin {"linked", "started"}
  BY <1>1, <1>2, <1>5, Unneeded DEF PresentInv
<1>10. ~Loader!InUse(m)
  BY <1>5, <1>6, <1>9 DEF Loader!InUse
<1>11. Loader!Withdraw(m)
  BY <1>6, <1>7, <1>8, <1>10 DEF Loader!Withdraw, Loader!Become
<1> QED BY <1>1, <1>11

(* What is being loaded is not there yet.                                  *)
LEMMA LoadUnshown ==
  ASSUME LoaderInv, LoaderInv', LoadAlloc \/ LoadSegments \/ LoadFails
  PROVE  UNCHANGED << LibraryStatus, LibraryOpens >>
<1> USE DEF LoaderInv, HandleInv, CountInv, NamesInv
<1>1. ASSUME NEW a \in Slots, NEW m \in Libraries,
             LibraryStatus' = [LibraryStatus EXCEPT ![m] = LibraryStatus'[m]],
             LibraryOpens' = [LibraryOpens EXCEPT ![m] = LibraryOpens'[m]],
             LibraryStatus[m] = "absent", LibraryOpens[m] = 0,
             LibraryStatus'[m] = "absent", LibraryOpens'[m] = 0
      PROVE  UNCHANGED << LibraryStatus, LibraryOpens >>
  <2>1. LibraryStatus' = LibraryStatus
    BY <1>1 DEF LibraryStatus
  <2>2. LibraryOpens' = LibraryOpens
    BY <1>1 DEF LibraryOpens
  <2> QED BY <2>1, <2>2
<1>2. CASE LoadAlloc
  <2>1. CASE UNCHANGED << lists, info, debugMap >>
    <3>1. handles' = handles /\ On(Solist)' = On(Solist) /\ info' = info
      BY <1>2, <2>1, LoadAllocStep, ListsSame
    <3> QED BY <3>1, Unshown
  <2>2. CASE ~UNCHANGED << lists, info, debugMap >>
    <3>1. PICK a \in Slots, m \in Libraries :
            /\ m = Top.name /\ handles' = handles /\ stack # << >> /\ Top.fn = "load_library"
            /\ Top.si = NULL /\ Only(a)
            /\ a \notin On(Solist) /\ On(Solist)' = On(Solist) \cup {a} /\ info'[a] = Soinfo(m)
      BY <1>2, <2>2, LoadAllocStep, PoolEntries
    <3>2. \A s \in On(Solist) : info[s].name # m
      BY <3>1 DEF Sought, InFn
    <3>3. handles[a] = 0
      BY <3>1, NotHeld
    <3>4. info'[a].name = m /\ StatusOf(info'[a]) = "absent"
      BY <3>1, SoinfoMade, NewEntries
    <3>5. /\ LibraryStatus' = [LibraryStatus EXCEPT ![m] = LibraryStatus'[m]]
          /\ LibraryOpens' = [LibraryOpens EXCEPT ![m] = LibraryOpens'[m]]
          /\ LibraryStatus[m] = "absent" /\ LibraryOpens[m] = 0
          /\ LibraryStatus'[m] = StatusOf(info'[a]) /\ LibraryOpens'[m] = handles'[a]
      BY <3>1, <3>2, <3>4, OneEntry
    <3>6. LibraryStatus'[m] = "absent" /\ LibraryOpens'[m] = 0
      BY <3>1, <3>3, <3>4, <3>5
    <3> QED BY <1>1, <3>5, <3>6
  <2> QED BY <2>1, <2>2
<1>3. CASE LoadSegments
  <2>1. /\ handles' = handles /\ On(Solist)' = On(Solist) /\ stack # << >>
        /\ Top.fn = "load_library" /\ Top.si # NULL /\ Top.si \in Slots /\ Top.name \in Libraries
        /\ SameName /\ SameLinked /\ SameError /\ SameInits /\ SameFinis /\ Only(Top.si)
    BY <1>3, LoadSegmentsStep, LoadSegmentsFields, ListsSame, PoolEntries, FramesNext, FrameFields
  <2>2. ~info[Top.si].linked
    BY <2>1, SoinfoMade DEF WorkInv, Loading, InFn
  <2>3. ASSUME NEW s \in Slots
        PROVE  info'[s].name = info[s].name /\ StatusOf(info'[s]) = StatusOf(info[s])
    <3>1. CASE s = Top.si
      BY <2>1, <2>2, <3>1 DEF StatusOf, SameName, SameLinked, SameError
    <3>2. CASE s # Top.si
      BY <2>1, <3>2 DEF Only
    <3> QED BY <3>1, <3>2
  <2> QED BY <2>1, <2>3, Unshown
<1>4. CASE LoadFails
  <2>1. PICK a \in Slots, m \in Libraries :
          /\ a = Top.si /\ m = info[a].name /\ a # NULL /\ info' = info /\ handles' = handles
          /\ stack # << >> /\ Top.fn = "load_library" /\ Top.name \in Libraries
          /\ On(Solist)' = On(Solist) \ {a}
    BY <1>4, LoadFailsStep, PoolEntries, InfoFields, FramesNext, FrameFields DEF TypeInv
  <2>2. a \in On(Solist)
    BY <2>1, FramesNext DEF WorkInv, Placed, PlacedAt
  <2>3. ~info[a].linked /\ ~info[a].error
    BY <2>1, SoinfoMade DEF WorkInv, Loading, InFn
  <2>4. handles[a] = 0 /\ StatusOf(info[a]) = "absent"
    BY <2>3, NotHeld DEF StatusOf
  <2>5. /\ LibraryStatus' = [LibraryStatus EXCEPT ![m] = LibraryStatus'[m]]
        /\ LibraryOpens' = [LibraryOpens EXCEPT ![m] = LibraryOpens'[m]]
        /\ LibraryStatus[m] = StatusOf(info[a]) /\ LibraryOpens[m] = handles[a]
        /\ LibraryStatus'[m] = "absent" /\ LibraryOpens'[m] = 0
    BY <2>1, <2>2, OneEntry DEF Only
  <2> QED BY <1>1, <2>4, <2>5
<1> QED BY <1>2, <1>3, <1>4

(* Every step is one of the promise, or one the program cannot see.        *)
LEMMA LoaderStep ==
  ASSUME LibDLUnnamed, LoaderInv, LoaderInv', [Next]_vars
  PROVE  Loader!Next \/ UNCHANGED << LibraryStatus, LibraryOpens >>
<1>1. TypeInv /\ TypeInv' /\ NamesOnce /\ NamesOnce'
  BY DEF LoaderInv, HandleInv, CountInv, NamesInv
<1>2. \A s \in Slots : info[s].name \in Libraries
  BY <1>1, InfoFields DEF TypeInv
<1>3. stack # << >> /\ Top.si \in PoolEntry => info[Top.si].name \in Libraries
  BY <1>2, PoolEntries
<1>4. CASE Unseen /\ handles' = handles
  <2>1. \A s \in Slots : info'[s].name = info[s].name /\ StatusOf(info'[s]) = StatusOf(info[s])
    BY <1>4 DEF Unseen, SameName, SameLinked, SameError, SameImage, SameInits, SameFinis, StatusOf
  <2> QED BY <1>1, <1>4, <2>1, Unshown DEF Unseen
<1>5. CASE DlopenReturn
  BY <1>1, <1>3, <1>5, DlopenReturnStep, OpenShown DEF Loader!Next
<1>6. ASSUME NEW s \in Slots, Dlclose(s) PROVE Loader!Next
  BY <1>2, <1>6, CloseShown DEF Loader!Next
<1>7. CASE LoadAlloc \/ LoadSegments \/ LoadFails
  BY <1>7, LoadUnshown
<1>8. CASE LinkFails
  BY <1>1, <1>3, <1>8, LinkFailStep, FailShown DEF Loader!Next
<1>9. CASE LinkFinish /\ ~LinkFail(TRUE)
  BY <1>1, <1>3, <1>9, LinkedStep, LinkShown DEF Loader!Next
<1>10. CASE InitReturns
  BY <1>1, <1>3, <1>10, InitReturnsStep, StartShown DEF Loader!Next
<1>11. CASE FiniReturns
  BY <1>1, <1>3, <1>11, FiniReturnsStep, StopShown DEF Loader!Next
<1>12. CASE UnloadFree
  BY <1>1, <1>3, <1>12, UnloadFreeStep, RemoveShown DEF Loader!Next
<1>13. ASSUME NEW n \in Stubs, LibraryCreate(n) PROVE Loader!Next
  BY <1>13, InstallShown DEF Loader!Next
<1>14. ASSUME NEW s \in Slots, LibraryDestroy(s) PROVE Loader!Next
  BY <1>2, <1>14, WithdrawShown DEF Loader!Next
<1> QED BY <1>1, <1>4, <1>5, <1>6, <1>7, <1>8, <1>9, <1>10, <1>11, <1>12, <1>13, <1>14,
           SeenCases DEF Seen

(* ImplementsLoader: behind its lists, counts and calls in progress the    *)
(* linker keeps the promise of AbstractLoader, for any libraries and       *)
(* whatever each of them needs: a library is linked only after all it      *)
(* needs, started after all it needs, open only while it is started,       *)
(* stopped only once nobody holds it and no library needs it, and removed  *)
(* only after that; one that failed stays failed.                          *)
THEOREM LinkerImplementsLoader ==
  ASSUME LibDLUnnamed
  PROVE  Spec => ImplementsLoader
<1>1. Init => LoaderInv /\ Loader!Init
  BY LoaderInvInitially, LoaderInitially
<1>2. LoaderInv /\ [Next]_vars => LoaderInv'
  BY LoaderInvStep
<1>3. LoaderInv /\ LoaderInv' /\ [Next]_vars => [Loader!Next]_<< LibraryStatus, LibraryOpens >>
  BY LoaderStep
<1> QED BY <1>1, <1>2, <1>3, PTL DEF Spec, ImplementsLoader, Loader!Spec, Loader!loaderVars
=============================================================================
