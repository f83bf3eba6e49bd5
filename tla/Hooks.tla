------------------------------- MODULE Hooks -------------------------------
(***************************************************************************)
(* hooks.c: add_custom_hook with its growing array, and get_hooked_symbol, *)
(* which the relocation of every library asks before any symbol table.     *)
(***************************************************************************)
EXTENDS Integers, FiniteSets, HookTables

CONSTANTS
  Symbols,    (* the names the host hooks and the linker looks up          *)
  HostFuncs,  (* the functions the host hooks them to                      *)
  NotHooked,  (* NULL                                                      *)
  Unset,      (* what malloc left in a slot nobody has written             *)
  FirstSize,  (* the size of the first array (512)                         *)
  MaxHooks    (* bound on the calls of add_custom_hook                     *)

(* The host hooks names to functions, never to NULL.                       *)
HooksAssumption ==
  NotHooked \notin HostFuncs /\ FirstSize \in Nat \ {0} /\ MaxHooks \in Nat

VARIABLES
  slots,      (* custom_hooks[0 .. custom_hooks_arr_size - 1]              *)
  size,       (* custom_hooks_size                                         *)
  hooked,     (* history: the function each name was hooked to last        *)
  adds        (* history: the calls of add_custom_hook                     *)

vars == << slots, size, hooked, adds >>

Init == /\ slots = << >> /\ size = 0 /\ adds = 0
        /\ hooked = [n \in Symbols |-> NotHooked]

(* custom_hooks_resize: a first array, or one twice as long that starts    *)
(* with the hooks there are.                                               *)
Resized ==
  LET len == IF slots = << >> THEN FirstSize ELSE 2 * Len(slots)
  IN [i \in 1 .. len |-> IF i <= size THEN slots[i] ELSE Unset]

(* Mutant: the array grows only when it is over-full.                      *)
RoomLate == IF size > Len(slots) THEN Resized ELSE slots

Room == IF size + 1 >= Len(slots) THEN Resized ELSE slots

Named(s, n) == { i \in 1 .. size : s[i][1] = n }

(* add_custom_hook: the room is made first, then the name is replaced or   *)
(* appended.  A write past the array is lost here.                         *)
AddCustomHook(n, f) ==
  /\ adds < MaxHooks /\ adds' = adds + 1
  /\ hooked' = [hooked EXCEPT ![n] = f]
  /\ IF Named(Room, n) # {}
     THEN /\ slots' = [Room EXCEPT ![CHOOSE i \in Named(Room, n) : TRUE] = << n, f >>]
          /\ UNCHANGED size
     ELSE /\ slots' = [i \in DOMAIN Room |->
                         IF i = size + 1 THEN << n, f >> ELSE Room[i]]
          /\ size' = size + 1

Next == \E n \in Symbols, f \in HostFuncs : AddCustomHook(n, f)

Spec == Init /\ [][Next]_vars

(* get_hooked_symbol: the custom hooks, then the tables, the first entry   *)
(* of a name.                                                              *)
GetHookedSymbol(n) ==
  IF Named(slots, n) # {} THEN slots[CHOOSE i \in Named(slots, n) : TRUE][2]
  ELSE IF n \in ToSet(Hooks) THEN Target(n)
  ELSE NotHooked

-----------------------------------------------------------------------------
TypeOK ==
  /\ DOMAIN slots = 1 .. Len(slots) /\ size \in 0 .. MaxHooks
  /\ hooked \in [Symbols -> HostFuncs \cup {NotHooked}]

(* The array always has room, and the linker gets the function a name was  *)
(* hooked to last, whatever the array went through.                        *)
HooksFound ==
  /\ size <= Len(slots)
  /\ \A n \in Symbols :
       GetHookedSymbol(n) = IF hooked[n] # NotHooked THEN hooked[n]
                            ELSE IF n \in ToSet(Hooks) THEN Target(n)
                            ELSE NotHooked

(* A name has one entry in all the tables, and shares its function with no *)
(* other name (wmemset, which the table sends to strerror_r, is the known  *)
(* exception).                                                             *)
TablesExact ==
  LET named == ToSet(Hooks) \ {"wmemset"} IN
  /\ Cardinality(ToSet(Hooks)) = Len(Hooks)
  /\ \A n \in named : Target(n) # n => Target(n) \notin named

HooksRight == HooksFound /\ (adds = 0 => TablesExact)
=============================================================================
