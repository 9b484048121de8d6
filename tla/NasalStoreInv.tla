----------------------------- MODULE NasalStoreInv -----------------------------
(***************************************************************************)
(* What the operators of NasalStore keep: an invariant of the store, given *)
(* an account of what its user holds.                                      *)
(*                                                                         *)
(* refs[a] is the number of references to address a that the user owns,    *)
(* account.scopes[a] the number of scopes it has opened in closure a and   *)
(* not yet closed, account.kind what it knows of the types of units, and   *)
(* account.open the functions it has made and not yet given a closure.     *)
(***************************************************************************)
EXTENDS NasalBuiltin

IsSeq(q) == q \in Seq(Range(q))
IsMap(m) == m \in [DOMAIN m -> Nat]

WellFunction(val) ==
  /\ val = [entry |-> val.entry, para |-> val.para, default |-> val.default,
            dynamic |-> val.dynamic, closure |-> val.closure]
  /\ IsSeq(val.para) /\ val.default \in Seq(Int) /\ Len(val.para) = Len(val.default)
  /\ val.closure \in Int
WellVal(type, val) ==
  CASE type = "vector" -> val \in Seq(Nat)
    [] type = "hash" -> IsMap(val)
    [] type = "closure" -> IsSeq(val) /\ \A i \in DOMAIN val : IsMap(val[i])
    [] type = "function" -> WellFunction(val)
    [] OTHER -> TRUE
WellUnit(u) ==
  /\ u = [type |-> u.type, cnt |-> u.cnt, val |-> u.val]
  /\ u.cnt \in Nat
  /\ WellVal(u.type, u.val)

Shape(s) ==
  /\ s = [unit |-> s.unit, mem |-> s.mem, units |-> s.units, cells |-> s.cells]
  /\ s.units \in Nat /\ s.cells \in Nat
  /\ s.unit = [b \in DOMAIN s.unit |-> s.unit[b]] /\ DOMAIN s.unit \subseteq 1..s.units
  /\ s.mem = [c \in DOMAIN s.mem |-> s.mem[c]] /\ DOMAIN s.mem \subseteq 1..s.cells
  /\ \A b \in DOMAIN s.unit : WellUnit(s.unit[b])

(* Within a unit, a cell is in one place.                                   *)
Separate(type, val) ==
  CASE type \in {"vector", "hash"} ->
         \A x, y \in DOMAIN val : val[x] = val[y] => x = y
    [] type = "closure" ->
         \A i, j \in DOMAIN val : \A x \in DOMAIN val[i], y \in DOMAIN val[j] :
           val[i][x] = val[j][y] => i = j /\ x = y
    [] OTHER -> TRUE

(* The cells of a unit are in use, and are its own.                         *)
Owned(s) ==
  /\ \A b \in DOMAIN s.unit : Separate(s.unit[b].type, s.unit[b].val)
                             /\ Cells(s.unit[b]) \subseteq DOMAIN s.mem
  /\ \A b, d \in DOMAIN s.unit : b # d => Cells(s.unit[b]) \cap Cells(s.unit[d]) = {}

(* No count is too low: there may be references that were lost.             *)
Counted(s, refs) ==
  \A b \in DOMAIN s.unit : s.unit[b].cnt >= refs[b] + HeldInside(s, b)

(* Whatever is held is there.                                               *)
Valid(s, refs) ==
  /\ \A a \in Int : refs[a] > 0 => a \in DOMAIN s.unit \cup {None}
  /\ \A c \in DOMAIN s.mem : s.mem[c] \in DOMAIN s.unit \cup {None}
  /\ \A b \in DOMAIN s.unit : \A i \in DOMAIN Direct(s.unit[b]) :
       Direct(s.unit[b])[i] \in DOMAIN s.unit \cup {None}

(* Units keep their types, closures the scopes opened in them.              *)
Typed(s, account) ==
  /\ account.scopes \in [Int -> Nat]
  /\ DOMAIN account.kind \subseteq 1..s.units
  /\ \A b \in DOMAIN s.unit : b \in DOMAIN account.kind => s.unit[b].type = account.kind[b]
  /\ \A b \in DOMAIN s.unit : s.unit[b].type = "closure" =>
       Len(s.unit[b].val) >= 1 + account.scopes[b]
  /\ \A a \in Int : a > s.units => account.scopes[a] = 0
  /\ \A b \in DOMAIN s.unit : s.unit[b].type = "function" =>
       \/ s.unit[b].val.closure \in DOMAIN s.unit /\ s.unit[s.unit[b].val.closure].type = "closure"
       \/ s.unit[b].val.closure = None /\ b \in account.open

Sound(s, refs, account) ==
  /\ refs \in [Int -> Int]
  /\ Shape(s)
  /\ Owned(s)
  /\ Counted(s, refs)
  /\ Valid(s, refs)
  /\ Typed(s, account)
=============================================================================
