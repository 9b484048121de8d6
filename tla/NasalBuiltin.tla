------------------------------ MODULE NasalBuiltin ------------------------------
(***************************************************************************)
(* The builtin functions of nasal_builtin.h on containers and strings, on  *)
(* the bits of integers, and those whose effect is outside.  Each is an     *)
(* operator from the store and the addresses of its arguments (-1 for one  *)
(* that is missing) to the store after it and the address it returns (-1   *)
(* when it reports an error).                                              *)
(***************************************************************************)
EXTENDS NasalStore, NasalScalar

(* The number a value is calculated with, and its text; its truth.          *)
NumberOf(s, a) ==
  CASE Type(s, a) = "number" -> Val(s, a)
    [] Type(s, a) = "string" -> StringNumber(Val(s, a))
    [] OTHER -> NaN
TextOf(s, a) == IF Type(s, a) = "number" THEN NumberString(Val(s, a)) ELSE Val(s, a)
Scalar(s, a) == Type(s, a) \in {"number", "string"}
Truth(s, a) ==
  LET TrueText(n) == IF n = NaN THEN Val(s, a) # "" ELSE n # 0
  IN CASE Type(s, a) = "number" -> Val(s, a) # 0
       [] Type(s, a) = "string" -> TrueText(StringNumber(Val(s, a)))
       [] OTHER -> FALSE

-----------------------------------------------------------------------------
(* in_builtin_find and in_builtin_check.                                    *)
Find(s, scope, name) == IF scope = None THEN None ELSE ClosureValue(s, scope, name)
Is(s, a, type) == a # None /\ Type(s, a) = type

Returns(s, a) == [vm |-> s, ret |-> a]
ReturnsNew(s, type, val) == Returns(gc_alloc_with(s, type, val), NextUnit(s))
ReturnsNil(s) == ReturnsNew(s, "nil", 0)
Error(s) == Returns(s, None)

(* The values in the cells of a vector.                                     *)
ValuesIn(s, v) == [i \in DOMAIN Val(s, v) |-> s.mem[Val(s, v)[i]]]

builtin_print(s, e) == IF Is(s, e, "vector") THEN ReturnsNil(s) ELSE Error(s)

(* Mutant: the values appended are not counted. *)
AppendUncounted(s, v, e) ==
  LET Add(t, a) == VectorAdd(t, v, a)
  IN IF Is(s, v, "vector") /\ Is(s, e, "vector")
     THEN ReturnsNil(FoldLeft(Add, s, ValuesIn(s, e))) ELSE Error(s)

builtin_append(s, v, e) ==
  IF Is(s, v, "vector") /\ Is(s, e, "vector")
  THEN ReturnsNil(VectorAddAll(s, v, ValuesIn(s, e))) ELSE Error(s)

(* The vector keeps as many of its cells.                                   *)
Shortened(s, v, size) == [s EXCEPT !.unit[v].val = SubSeq(@, 1, size)]
Cut(s, v, size) ==
  LET cells == Val(s, v)
  IN Shortened(FreeAll(s, {cells[i] : i \in (size + 1)..Len(cells)}), v, size)

(* del_elem: the last element, which the caller gets with a reference.      *)
DelElem(s, v) ==
  LET a == s.mem[Last(Val(s, v))]
  IN Returns(Cut(add_reference(s, a), v, Len(Val(s, v)) - 1), a)

(* An empty vector gives -1, which is no value.                             *)
builtin_pop(s, v) ==
  IF Is(s, v, "vector") /\ Val(s, v) # <<>> THEN DelElem(s, v) ELSE Error(s)

(* The size of the vector is cut, or filled up with nil.  The size may be   *)
(* given as a string.                                                       *)
Grow(s, v, size) ==
  VectorAddNew(s, v, "nil", [i \in 1..(size - Len(Val(s, v))) |-> NewContents.nil])
SetSize(s, v, size) ==
  IF size \in Nat
  THEN ReturnsNil(IF size < Len(Val(s, v)) THEN Cut(s, v, size) ELSE Grow(s, v, size))
  ELSE Error(s)
builtin_setsize(s, v, a) ==
  IF Is(s, v, "vector") THEN SetSize(s, v, NumberOf(s, a)) ELSE Error(s)

builtin_size(s, a) ==
  CASE a = None -> Error(s)
    [] a # None /\ Type(s, a) \in {"string", "vector"} ->
         ReturnsNew(s, "number", Len(Val(s, a)))
    [] a # None /\ Type(s, a) = "hash" ->
         ReturnsNew(s, "number", Cardinality(DOMAIN Val(s, a)))
    [] OTHER -> ReturnsNil(s)

(* check_contain looks in the parents too.                                  *)
builtin_contains(s, h, k) ==
  IF Is(s, h, "hash") /\ Is(s, k, "string")
  THEN ReturnsNew(s, "number", IF HashCell(s, h, Val(s, k)) # None THEN 1 ELSE 0)
  ELSE Error(s)

Erased(s, h, key) ==
  IF key \in DOMAIN Val(s, h)
  THEN [mem_free(s, Val(s, h)[key]) EXCEPT !.unit[h].val = Without(@, key)] ELSE s
builtin_delete(s, h, k) ==
  IF Is(s, h, "hash") /\ Is(s, k, "string")
  THEN ReturnsNil(Erased(s, h, Val(s, k))) ELSE Error(s)

(* A new vector with a new string for each key.                             *)
NewStrings(s, strings) ==
  Returns(VectorAddNew(gc_alloc(s, "vector"), NextUnit(s), "string", strings), NextUnit(s))
builtin_getkeys(s, h) ==
  IF Is(s, h, "hash") THEN NewStrings(s, SetToSeq(DOMAIN Val(s, h))) ELSE Error(s)

builtin_type(s, a) ==
  IF a = None THEN Error(s)
  ELSE ReturnsNew(s, "string", IF Type(s, a) = "closure" THEN "" ELSE Type(s, a))

builtin_num(s, a) ==
  IF Is(s, a, "string") THEN ReturnsNew(s, "number", StringNumber(Val(s, a))) ELSE Error(s)

(* The parts of a string between delimiters, from left to right; each       *)
(* character when the delimiter is empty.  An empty part at the end is      *)
(* dropped.                                                                 *)
Pieces(str, delimeter) ==
  LET n == Len(delimeter)
      Hits(from) == {i \in from..(Len(str) - n + 1) : SubSeq(str, i, i + n - 1) = delimeter}
      Parts[from \in 1..(Len(str) + 1)] ==
        IF Hits(from) # {}
        THEN <<SubSeq(str, from, Min(Hits(from)) - 1)>> \o Parts[Min(Hits(from)) + n]
        ELSE IF from > Len(str) THEN <<>> ELSE <<Rest(str, from)>>
  IN IF n = 0 THEN [i \in 1..Len(str) |-> Char(str, i)] ELSE Parts[1]

builtin_split(s, d, a) ==
  IF Is(s, d, "string") /\ Is(s, a, "string")
  THEN NewStrings(s, Pieces(Val(s, a), Val(s, d))) ELSE Error(s)

(* The conversion to int leaves the integers of the model as they are.      *)
builtin_int(s, a) ==
  IF Is(s, a, "number") THEN ReturnsNew(s, "number", Val(s, a)) ELSE Error(s)

(* xor, and, or and nand on the bits of two integers, in two's complement.  *)
(* IntBits bounds the integers: those of the programs have fewer bits.      *)
IntBits == 10
BitOf(op, x, y) ==
  CASE op = "xor" -> (x + y) % 2
    [] op = "and" -> x * y
    [] op = "or" -> Max({x, y})
    [] op = "nand" -> 1 - x * y
OfBits(op, a, b) ==
  LET Bit(i) == BitOf(op, (a \div 2^i) % 2, (b \div 2^i) % 2)
      Weight(i) == IF i = IntBits THEN -2^i * Bit(i) ELSE 2^i * Bit(i)
  IN MapThenSumSet(Weight, 0..IntBits)
builtin_bits(s, op, a, b) ==
  IF Is(s, a, "number") /\ Is(s, b, "number")
  THEN ReturnsNew(s, "number", OfBits(op, Val(s, a), Val(s, b))) ELSE Error(s)
builtin_not(s, a) ==
  IF Is(s, a, "number") THEN ReturnsNew(s, "number", -Val(s, a) - 1) ELSE Error(s)

(* The address of a value as a number.                                      *)
builtin_id(s, a) == IF a = None THEN Error(s) ELSE ReturnsNew(s, "number", a)

(* Functions whose effect is outside of the program.                        *)
builtin_system(s, a) == IF Is(s, a, "string") THEN ReturnsNil(s) ELSE Error(s)
builtin_sleep(s, a) ==
  IF Is(s, a, "number") \/ (Is(s, a, "string") /\ StringNumber(Val(s, a)) # NaN)
  THEN ReturnsNil(s) ELSE Error(s)
builtin_foutput(s, file, a) ==
  IF Is(s, file, "string") /\ Is(s, a, "string") THEN ReturnsNil(s) ELSE Error(s)

(* begin and begin + length are compared as unsigned with the length of the *)
(* string, so that both are below it; begin and length are integers.        *)
builtin_substr(s, a, b, n) ==
  LET Inside(i) == 0 <= i /\ i < Len(Val(s, a))
  IN IF Is(s, a, "string") /\ Is(s, b, "number") /\ Is(s, n, "number")
     THEN IF Inside(Val(s, b)) /\ Inside(Val(s, b) + Val(s, n))
          THEN ReturnsNew(s, "string",
                          SubSeq(Val(s, a), Val(s, b) + 1, Val(s, b) + Val(s, n)))
          ELSE Error(s)
     ELSE Error(s)

(* die also sets builtin_die_state; see Dies.                               *)
builtin_die(s, a) == IF Is(s, a, "string") THEN ReturnsNil(s) ELSE Error(s)
Dies(s, scope, name) ==
  name = "nasal_call_builtin_die" /\ Is(s, Find(s, scope, "str"), "string")

(* The names that are modelled, of builtin_func_table.                      *)
BuiltinName == {"nasal_call_builtin_std_cout", "nasal_call_builtin_push_back",
  "nasal_call_builtin_pop_back", "nasal_call_builtin_set_size",
  "nasal_call_builtin_size", "nasal_call_builtin_contains",
  "nasal_call_builtin_delete", "nasal_call_builtin_get_keys",
  "nasal_call_builtin_type", "nasal_call_builtin_trans_num",
  "nasal_call_builtin_substr", "nasal_call_builtin_die", "nasal_call_builtin_split",
  "nasal_call_builtin_trans_int", "nasal_call_builtin_xor", "nasal_call_builtin_and",
  "nasal_call_builtin_or", "nasal_call_builtin_nand", "nasal_call_builtin_not",
  "nasal_call_builtin_get_id", "nasal_call_builtin_system", "nasal_call_builtin_sleep",
  "nasal_call_builtin_foutput"}

(* Each builtin looks for its arguments by their names.                     *)
CallBuiltin(s, scope, name) ==
  LET A(argument) == Find(s, scope, argument)
  IN CASE name = "nasal_call_builtin_std_cout" -> builtin_print(s, A("elements"))
       [] name = "nasal_call_builtin_push_back" -> builtin_append(s, A("vector"), A("elements"))
       [] name = "nasal_call_builtin_pop_back" -> builtin_pop(s, A("vector"))
       [] name = "nasal_call_builtin_set_size" -> builtin_setsize(s, A("vector"), A("size"))
       [] name = "nasal_call_builtin_size" -> builtin_size(s, A("object"))
       [] name = "nasal_call_builtin_contains" -> builtin_contains(s, A("hash"), A("key"))
       [] name = "nasal_call_builtin_delete" -> builtin_delete(s, A("hash"), A("key"))
       [] name = "nasal_call_builtin_get_keys" -> builtin_getkeys(s, A("hash"))
       [] name = "nasal_call_builtin_type" -> builtin_type(s, A("object"))
       [] name = "nasal_call_builtin_trans_num" -> builtin_num(s, A("value"))
       [] name = "nasal_call_builtin_substr" ->
            builtin_substr(s, A("str"), A("begin"), A("length"))
       [] name = "nasal_call_builtin_die" -> builtin_die(s, A("str"))
       [] name = "nasal_call_builtin_split" -> builtin_split(s, A("delimeter"), A("string"))
       [] name = "nasal_call_builtin_trans_int" -> builtin_int(s, A("value"))
       [] name = "nasal_call_builtin_xor" -> builtin_bits(s, "xor", A("a"), A("b"))
       [] name = "nasal_call_builtin_and" -> builtin_bits(s, "and", A("a"), A("b"))
       [] name = "nasal_call_builtin_or" -> builtin_bits(s, "or", A("a"), A("b"))
       [] name = "nasal_call_builtin_nand" -> builtin_bits(s, "nand", A("a"), A("b"))
       [] name = "nasal_call_builtin_not" -> builtin_not(s, A("a"))
       [] name = "nasal_call_builtin_get_id" -> builtin_id(s, A("thing"))
       [] name = "nasal_call_builtin_system" -> builtin_system(s, A("str"))
       [] name = "nasal_call_builtin_sleep" -> builtin_sleep(s, A("duration"))
       [] name = "nasal_call_builtin_foutput" -> builtin_foutput(s, A("filename"), A("str"))
=============================================================================
