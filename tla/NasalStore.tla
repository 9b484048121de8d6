------------------------------- MODULE NasalStore -------------------------------
(***************************************************************************)
(* nasal_virtual_machine as the bytecode machine sees it: its methods as   *)
(* operators from a store to the store after the call.  NasalHeap models   *)
(* the same object one step at a time, with its free lists and chunks;     *)
(* here a release is one operator, and values have contents.               *)
(*                                                                         *)
(* Addresses count from 1 and none is used again once it was given back,   *)
(* so that whoever still uses it shows; -1 is no address, as in the code.  *)
(***************************************************************************)
EXTENDS Integers, Sequences, SequencesExt

(* store.unit is what is in use of garbage_collector_memory: a unit has a   *)
(* type, a count and contents (number, string, cells of a vector, key ->    *)
(* cell of a hash, sequence of scopes name -> cell of a closure, or a       *)
(* function).  store.mem is what is in use of memory_manager_memory: the    *)
(* value address in each cell.  units and cells count the addresses used.   *)
EmptyStore == [unit |-> <<>>, mem |-> <<>>, units |-> 0, cells |-> 0]

None == -1

Live(s, a) == a \in DOMAIN s.unit
Without(f, x) == Restrict(f, DOMAIN f \ {x})
With(f, x, y) == [z \in DOMAIN f \cup {x} |-> IF z = x THEN y ELSE f[z]]
Extended(f, g) ==
  [x \in DOMAIN f \cup DOMAIN g |-> IF x \in DOMAIN f THEN f[x] ELSE g[x]]

(* gc_get gives error_returned_value, a nil, for an address not in use.     *)
Type(s, a) == IF Live(s, a) THEN s.unit[a].type ELSE "nil"
Val(s, a) == s.unit[a].val

NoFunction == [entry |-> 0, para |-> <<>>, default |-> <<>>, dynamic |-> "", closure |-> None]
NewContents == [nil |-> 0, number |-> 0, string |-> "", vector |-> <<>>, hash |-> <<>>,
                function |-> NoFunction, closure |-> <<<<>>>>]

(* The address gc_alloc, and mem_alloc, would return next.                  *)
NextUnit(s) == s.units + 1
NextCell(s) == s.cells + 1

gc_alloc_with(s, type, val) ==
  [s EXCEPT !.units = @ + 1,
            !.unit = With(@, NextUnit(s), [type |-> type, cnt |-> 1, val |-> val])]
gc_alloc(s, type) == gc_alloc_with(s, type, NewContents[type])

add_reference(s, a) == IF Live(s, a) THEN [s EXCEPT !.unit[a].cnt = @ + 1] ELSE s
AddAll(s, as) == FoldLeft(add_reference, s, as)

(* What a unit holds: cells, and the values of a function that it holds     *)
(* without a cell.                                                          *)
CellsOf(map) == {map[x] : x \in DOMAIN map}
Cells(u) ==
  CASE u.type \in {"vector", "hash"} -> CellsOf(u.val)
    [] u.type = "closure" -> UNION {CellsOf(u.val[i]) : i \in DOMAIN u.val}
    [] OTHER -> {}
Direct(u) == IF u.type = "function" THEN <<u.val.closure>> \o u.val.default ELSE <<>>

CellsIn(s, units) == UNION {Cells(s.unit[b]) : b \in units}
DirectPlaces(s, units) == UNION {{b} \X DOMAIN Direct(s.unit[b]) : b \in units}

(* How often address a is in a sequence, in cells, directly in units.       *)
Count(seq, a) == Cardinality({i \in DOMAIN seq : seq[i] = a})
InCells(s, cells, a) == Cardinality({c \in cells : s.mem[c] = a})
InUnits(s, units, a) ==
  Cardinality({p \in DirectPlaces(s, units) : Direct(s.unit[p[1]])[p[2]] = a})

(* The references to b that are given back when those in a sequence are,    *)
(* some cells are freed, and the units in dead are destroyed.               *)
GivenBack(s, as, cells, dead, b) ==
  Count(as, b) + InCells(s, cells \cup CellsIn(s, dead), b) + InUnits(s, dead, b)

(* A unit is destroyed with its last reference and gives back those that it *)
(* holds, of which some may be the last ones of other units.                *)
Dying(s, as, cells) ==
  LET Unheld(dead) == {b \in DOMAIN s.unit : s.unit[b].cnt <= GivenBack(s, as, cells, dead, b)}
      dying[dead \in SUBSET DOMAIN s.unit] ==
        IF Unheld(dead) \subseteq dead THEN dead ELSE dying[dead \cup Unheld(dead)]
  IN dying[{}]

(* What is left in the end: del_reference, the destructors and mem_free     *)
(* call each other, and in which order makes no difference to that.         *)
Released(s, as, cells) ==
  LET dead == Dying(s, as, cells)
      Left(b) == [s.unit[b] EXCEPT !.cnt = @ - GivenBack(s, as, cells, dead, b)]
  IN [s EXCEPT !.unit = [b \in DOMAIN s.unit \ dead |-> Left(b)],
               !.mem = Restrict(@, DOMAIN @ \ (cells \cup CellsIn(s, dead)))]

DelAll(s, as) == Released(s, as, {})
del_reference(s, a) == DelAll(s, <<a>>)

mem_alloc(s, a) == [s EXCEPT !.cells = @ + 1, !.mem = With(@, NextCell(s), a)]
FreeAll(s, cells) == Released(s, <<>>, cells)
mem_free(s, c) == FreeAll(s, {c})
mem_get(s, c) == IF c \in DOMAIN s.mem THEN s.mem[c] ELSE None

(* Mutant: the value the cell held keeps its reference. *)
MemChangeNoDel(s, c, a) == IF c \in DOMAIN s.mem THEN [s EXCEPT !.mem[c] = a] ELSE s

(* The reference of the cell is given back once: not again when that ends   *)
(* with the cell itself being freed.                                        *)
mem_change(s, c, a) ==
  IF c \in DOMAIN s.mem
  THEN [del_reference([s EXCEPT !.mem[c] = None], s.mem[c]) EXCEPT !.mem[c] = a] ELSE s

-----------------------------------------------------------------------------
(* Vectors and hashes.                                                      *)

VectorAdd(s, v, a) == [mem_alloc(s, a) EXCEPT !.unit[v].val = Append(@, NextCell(s))]

(* Several values, each with a reference of its own, go to new cells, and   *)
(* the contents of v become val.                                            *)
StoreAll(s, v, val, values) ==
  LET Stored(b) == [s.unit[b] EXCEPT !.cnt = @ + Count(values, b),
                                     !.val = IF b = v THEN val ELSE @]
      cells == (s.cells + 1)..(s.cells + Len(values))
  IN [s EXCEPT !.unit = [b \in DOMAIN s.unit |-> Stored(b)],
               !.cells = @ + Len(values),
               !.mem = Extended(@, [c \in cells |-> values[c - s.cells]])]

VectorAddAll(s, v, values) ==
  StoreAll(s, v, Val(s, v) \o [i \in DOMAIN values |-> s.cells + i], values)
(* Several new values of a type.                                            *)
VectorAddNew(s, v, type, vals) ==
  LET made == [s EXCEPT !.units = @ + Len(vals),
                        !.unit = Extended(@, [b \in (s.units + 1)..(s.units + Len(vals)) |->
                                   [type |-> type, cnt |-> 0, val |-> vals[b - s.units]]])]
  IN VectorAddAll(made, v, [i \in DOMAIN vals |-> s.units + i])

(* The cell at an index that may count from the end; None out of range.     *)
InRange(i, n) == i \in -n..(n - 1)
VectorCell(s, v, i) ==
  LET n == Len(Val(s, v)) IN IF InRange(i, n) THEN Val(s, v)[((i + n) % n) + 1] ELSE None
VectorValue(s, v, i) == mem_get(s, VectorCell(s, v, i))

(* A key that exists already keeps its cell; the new value is not stored.   *)
HashAdd(s, h, key, a) ==
  IF key \in DOMAIN Val(s, h) THEN s
  ELSE [mem_alloc(s, a) EXCEPT
          !.unit[h].val = With(@, key, NextCell(s))]

(* The cell a hash g gives for a key, if it is one of those wanted: its own, *)
(* or that of the first of its "parents" for which there was one before.    *)
FoundIn(s, g, key, wanted, before) ==
  LET own == Val(s, g)
      a == s.mem[own["parents"]]
      parents == IF Type(s, a) = "vector" THEN Val(s, a) ELSE <<>>
      Given(i) == IF Type(s, s.mem[parents[i]]) = "hash" THEN before[s.mem[parents[i]]] ELSE None
      first == {i \in DOMAIN parents : Given(i) # None /\ \A j \in 1..(i - 1) : Given(j) = None}
  IN CASE key \in DOMAIN own -> IF own[key] \in wanted THEN own[key] ELSE None
       [] key \notin DOMAIN own /\ "parents" \in DOMAIN own ->
            IF first = {} THEN None ELSE Given(CHOOSE i \in first : TRUE)
       [] OTHER -> None

(* A hash among its own parents is searched without an end; here the search *)
(* ends after as many generations as there are units.                       *)
FoundCell(s, h, key, wanted) ==
  LET nothing == [g \in DOMAIN s.unit |-> None]
      found[n \in 0..s.units] ==
        IF n = 0 THEN nothing
        ELSE [g \in DOMAIN s.unit |-> FoundIn(s, g, key, wanted, found[n - 1])]
  IN found[s.units][h]

HashCell(s, h, key) == FoundCell(s, h, key, DOMAIN s.mem)
HashValue(s, h, key) ==
  mem_get(s, FoundCell(s, h, key, {c \in DOMAIN s.mem : s.mem[c] # None}))
SpecialPara(s, h, key) ==
  IF key \in DOMAIN Val(s, h) THEN s.mem[Val(s, h)[key]] ELSE None

-----------------------------------------------------------------------------
(* Closures.                                                                *)

add_scope(s, c) == [s EXCEPT !.unit[c].val = Append(@, <<>>)]

del_scope(s, c) ==
  [FreeAll(s, CellsOf(Last(Val(s, c)))) EXCEPT !.unit[c].val = Front(@)]

(* A name that exists already in the innermost scope gets a new cell.       *)
add_new_value(s, c, key, a) ==
  LET scope == Val(s, c)[Len(Val(s, c))]
      Freed(t) == IF key \in DOMAIN scope THEN mem_free(t, scope[key]) ELSE t
  IN [Freed(mem_alloc(s, a)) EXCEPT
        !.unit[c].val[Len(Val(s, c))] = With(@, key, NextCell(s))]

(* Names with values that stay in use elsewhere, one after the other.       *)
BindName(s, c, name, a) == add_reference(add_new_value(s, c, name, a), a)
BindNames(s, c, names, values) ==
  LET bound[n \in 0..Len(names)] ==
        IF n = 0 THEN s ELSE BindName(bound[n - 1], c, names[n], values[n])
  IN bound[Len(names)]

(* A name is looked up in every scope; the innermost one that has it wins.  *)
InLast(scopes, key) == IF scopes = <<>> THEN None ELSE Last(scopes)[key]
ClosureCell(s, c, key) ==
  InLast(SelectSeq(Val(s, c), LAMBDA scope : key \in DOMAIN scope), key)
ClosureValue(s, c, key) == mem_get(s, ClosureCell(s, c, key))

(* What both machines do with a name: the innermost function's closure      *)
(* first, then the globals.                                                 *)
Lookup(inner, outer) == IF inner # None THEN inner ELSE outer

(* set_closure: every scope of closure src is copied to closure c, each     *)
(* name with a new cell for the value that is in its cell now.              *)
CopyScopes(s, c, src) ==
  LET scopes == Val(s, src)
      names == SetToSeq(UNION {{i} \X DOMAIN scopes[i] : i \in DOMAIN scopes})
      Copied(n) == s.mem[scopes[names[n][1]][names[n][2]]]
      Place(i, k) == CHOOSE n \in DOMAIN names : names[n] = <<i, k>>
      copy == [i \in DOMAIN scopes |-> [k \in DOMAIN scopes[i] |-> s.cells + Place(i, k)]]
  IN StoreAll(s, c, copy, [n \in DOMAIN names |-> Copied(n)])

(* Function f gets a closure of its own, a copy of closure src.             *)
set_closure_addr(s, f, src) ==
  LET c == NextUnit(s)
      alloc == [gc_alloc(s, "closure") EXCEPT !.unit[f].val.closure = c]
  IN CopyScopes(alloc, c, src)

(* How many references to address a the store itself holds.                 *)
HeldInside(s, a) == InCells(s, DOMAIN s.mem, a) + InUnits(s, DOMAIN s.unit, a)
AllHeldInside(s) ==
  Range(s.mem) \cup UNION {Range(Direct(s.unit[b])) : b \in DOMAIN s.unit}
=============================================================================
