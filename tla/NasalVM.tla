-------------------------------- MODULE NasalVM --------------------------------
(***************************************************************************)
(* The bytecode machine (nasal_bytecode_vm.h): one action per opcode.      *)
(*                                                                         *)
(* run() executes exec_code from address 0, one handler after the other,   *)
(* until the end of the code or until a handler has called die().          *)
(*                                                                         *)
(* A number is an integer or NaN.  A quotient that is no integer (in the   *)
(* code a fraction or infinite) is NaN as well: it stands for any number   *)
(* that the programs do not calculate any further with.                    *)
(*                                                                         *)
(* What a handler that dies has popped, allocated or pushed is not kept:   *)
(* run() stops at once and clear() drops everything there is.              *)
(*                                                                         *)
(* Addresses of values and of memory cells are both an int in the code,    *)
(* and on the same stack: here they are told apart, so that one taken for  *)
(* the other shows.                                                        *)
(***************************************************************************)
EXTENDS NasalBuiltin

VARIABLES
  exec_code,          \* the code being run, a sequence of [op, x]
  layout,             \* what it was made from: see main_progress
  ptr,                \* the address of the opcode that runs next
  error,              \* the opcodes that have called die()
  vm,                 \* the store
  global_scope_addr,  \* the closure of the main program
  value_stack, local_scope_stack, slice_stack, call_stack, counter_stack,
  builtin_die_state   \* set by the builtin die

stacks == <<value_stack, local_scope_stack, slice_stack, call_stack, counter_stack>>
vars == <<exec_code, layout, ptr, error, vm, global_scope_addr, stacks, builtin_die_state>>

Value(a) == [k |-> "value", a |-> a]
Memory(c) == [k |-> "memory", a |-> c]

Running == error = 0 /\ ptr < Len(exec_code)
Current == exec_code[ptr + 1].op

(* What a handler takes for granted: the entries it uses, from the top of   *)
(* value_stack down, and their types where it does not check them itself.   *)
Needs(op) ==
  CASE op \in {"nop", "pushnum", "pushone", "pushzero", "pushnil", "pushstr", "newvec",
               "newhash", "newfunc", "jmp", "call", "mcall", "builtincall", "sliceend"} -> <<>>
    [] op \in {"load", "unot", "usub", "pop", "jmptrue", "jmpfalse", "counter", "callvi",
               "callh", "slicebegin"} -> <<"value">>
    [] op \in {"add", "sub", "mul", "div", "lnk", "eq", "neq", "less", "leq", "grt", "geq",
               "callv", "return"} -> <<"value", "value">>
    [] op \in {"addeq", "subeq", "muleq", "diveq", "lnkeq", "meq"} -> <<"memory", "value">>
    [] op \in {"para", "dynpara", "entry"} -> <<"function">>
    [] op = "defpara" -> <<"value", "function">>
    [] op = "vecapp" -> <<"value", "vector">>
    [] op = "hashapp" -> <<"value", "hash">>
    [] op \in {"forindex", "foreach"} -> <<"vector">>
    [] op = "callf" -> <<"arguments", "value">>
    [] op = "slice" -> <<"value", "vector">>
    [] op = "slice2" -> <<"value", "value", "vector">>
    [] op = "mcallv" -> <<"value", "memory">>
    [] op = "mcallh" -> <<"memory">>

IsA(entry, need) ==
  CASE need = "memory" ->
           entry.k = "memory" /\ entry.a \in DOMAIN vm.mem
    [] need = "value" -> entry.k = "value"
    [] need = "arguments" -> entry.k = "value" /\ Type(vm, entry.a) \in {"vector", "hash"}
    [] OTHER -> entry.k = "value" /\ Type(vm, entry.a) = need

Ready ==
  /\ Len(Needs(Current)) <= Len(value_stack)
  /\ \A i \in DOMAIN Needs(Current) :
       IsA(value_stack[Len(value_stack) - i + 1], Needs(Current)[i])
  /\ Current \in {"forindex", "foreach"} => counter_stack # <<>>
  /\ Current \in {"slice", "slice2", "sliceend"} => slice_stack # <<>>
  /\ Current = "return" =>
       /\ call_stack # <<>>
       /\ Type(vm, Last(local_scope_stack)) = "closure"
       /\ Len(Val(vm, Last(local_scope_stack))) > 1

(* Where an operand is missing or of another type the C++ has no defined    *)
(* behaviour: the machine stops here.                                       *)
Op(op) == Running /\ Current = op /\ Ready
X == exec_code[ptr + 1].x

-----------------------------------------------------------------------------
(* What the handlers have in common.                                        *)

FromTop(n) == value_stack[Len(value_stack) - n].a
Top == FromTop(0)
Second == FromTop(1)
Below(n) == SubSeq(value_stack, 1, Len(value_stack) - n)
Scope == Last(local_scope_stack)

Other == <<exec_code, layout, global_scope_addr>>
Go(target) == ptr' = target
Continue == Go(ptr + 1) /\ UNCHANGED <<error, Other, builtin_die_state>>
OtherStacks == <<local_scope_stack, slice_stack, call_stack, counter_stack>>

Die ==
  /\ error' = error + 1
  /\ UNCHANGED <<ptr, Other, vm, stacks, builtin_die_state>>

(* Below(n) is what is left when n values are taken from the stack.         *)
Push(entry) == value_stack' = Append(value_stack, entry) /\ UNCHANGED OtherStacks
Replace(n, entry) == value_stack' = Append(Below(n), entry) /\ UNCHANGED OtherStacks
Drop(n) == value_stack' = Below(n) /\ UNCHANGED OtherStacks

(* A handler that pushes one new value, in place of n it has used up.       *)
Result(n, type, val) ==
  /\ vm' = DelAll(gc_alloc_with(vm, type, val), [i \in 1..n |-> FromTop(i - 1)])
  /\ Replace(n, Value(NextUnit(vm)))
  /\ Continue

Number(a) == NumberOf(vm, a)
Text(a) == TextOf(vm, a)
IsScalar(a) == Scalar(vm, a)
check_condition(a) == Truth(vm, a)

-----------------------------------------------------------------------------
(* Constants, containers and functions.                                     *)

opr_nop == Op("nop") /\ Continue /\ UNCHANGED <<vm, stacks>>

CurrentScope == IF Scope # None THEN Scope ELSE global_scope_addr

opr_load ==
  /\ Op("load")
  /\ vm' = add_new_value(vm, CurrentScope, X, Top)
  /\ Drop(1) /\ Continue

opr_push ==
  \/ Op("pushnum") /\ Result(0, "number", X)
  \/ Op("pushone") /\ Result(0, "number", 1)
  \/ Op("pushzero") /\ Result(0, "number", 0)
  \/ Op("pushnil") /\ Result(0, "nil", 0)
  \/ Op("pushstr") /\ Result(0, "string", X)
  \/ Op("newvec") /\ Result(0, "vector", <<>>)
  \/ Op("newhash") /\ Result(0, "hash", <<>>)

(* In the main program a function gets a copy of an empty closure.          *)
opr_newfunc ==
  /\ Op("newfunc")
  /\ LET f == NextUnit(vm)
         made == gc_alloc(vm, "function")
         empty == NextUnit(made)
     IN vm' = IF Scope # None THEN set_closure_addr(made, f, Scope)
              ELSE del_reference(set_closure_addr(gc_alloc(made, "closure"), f, empty), empty)
  /\ Push(Value(NextUnit(vm))) /\ Continue

opr_vecapp ==
  /\ Op("vecapp")
  /\ vm' = VectorAdd(vm, Second, Top)
  /\ Drop(1) /\ Continue

opr_hashapp ==
  /\ Op("hashapp")
  /\ vm' = HashAdd(vm, Second, X, Top)
  /\ Drop(1) /\ Continue

AddPara(f, name, default) ==
  vm' = [vm EXCEPT !.unit[f].val.para = Append(@, name),
                   !.unit[f].val.default = Append(@, default)]

opr_para == Op("para") /\ AddPara(Top, X, None) /\ UNCHANGED stacks /\ Continue
opr_defpara == Op("defpara") /\ AddPara(Second, X, Top) /\ Drop(1) /\ Continue
opr_dynpara ==
  /\ Op("dynpara")
  /\ vm' = [vm EXCEPT !.unit[Top].val.dynamic = X]
  /\ UNCHANGED stacks /\ Continue
opr_entry ==
  /\ Op("entry")
  /\ vm' = [vm EXCEPT !.unit[Top].val.entry = X]
  /\ UNCHANGED stacks /\ Continue

-----------------------------------------------------------------------------
(* Operators.                                                               *)

opr_unot ==
  /\ Op("unot")
  /\ \/ Type(vm, Top) = "nil" /\ Result(1, "number", 1)
     \/ Type(vm, Top) = "number" /\ Result(1, "number", Bool(Val(vm, Top) = 0))
     \/ /\ Type(vm, Top) = "string"
        /\ Result(1, "number", Bool(IF StringNumber(Val(vm, Top)) = NaN
                                    THEN Val(vm, Top) = "" ELSE StringNumber(Val(vm, Top)) = 0))
     \/ Type(vm, Top) \notin {"nil", "number", "string"} /\ Die

opr_usub == Op("usub") /\ Result(1, "number", Negative(Number(Top)))

opr_arithmetic ==
  \E op \in {"add", "sub", "mul", "div"} :
    Op(op) /\ Result(2, "number", Arithmetic(op, Number(Second), Number(Top)))

opr_lnk ==
  /\ Op("lnk")
  /\ \/ /\ IsScalar(Second) /\ IsScalar(Top)
        /\ Result(2, "string", Text(Second) \o Text(Top))
     \/ ~(IsScalar(Second) /\ IsScalar(Top)) /\ Die

(* The value of an assignment is on the stack once more as a value: the     *)
(* new value has two references.                                            *)
Assigned(type, val) ==
  LET c == Top
      added == add_reference(gc_alloc_with(vm, type, val), NextUnit(vm))
  IN /\ vm' = del_reference(mem_change(added, c, NextUnit(vm)), Second)
     /\ Replace(2, Value(NextUnit(vm)))
     /\ Continue

AssignOf == [addeq |-> "add", subeq |-> "sub", muleq |-> "mul", diveq |-> "div"]
opr_arithmeticeq ==
  \E op \in DOMAIN AssignOf :
    /\ Op(op)
    /\ Assigned("number", Arithmetic(AssignOf[op], Number(mem_get(vm, Top)), Number(Second)))

opr_lnkeq ==
  /\ Op("lnkeq")
  /\ LET a == mem_get(vm, Top)
     IN \/ /\ IsScalar(a) /\ IsScalar(Second)
           /\ Assigned("string", Text(a) \o Text(Second))
        \/ ~(IsScalar(a) /\ IsScalar(Second)) /\ Die

opr_meq ==
  /\ Op("meq")
  /\ vm' = mem_change(add_reference(vm, Second), Top, Second)
  /\ Drop(1) /\ Continue

Equal(a, b) ==
  \/ a = b
  \/ Type(vm, a) = "nil" /\ Type(vm, b) = "nil"
  \/ /\ Type(vm, a) = "string" /\ Type(vm, b) = "string"
     /\ Val(vm, a) = Val(vm, b)
  \/ /\ IsScalar(a) /\ IsScalar(b) /\ "number" \in {Type(vm, a), Type(vm, b)}
     /\ NumberEqual(Number(a), Number(b))

opr_eq == Op("eq") /\ Result(2, "number", Bool(Equal(Second, Top)))
opr_neq == Op("neq") /\ Result(2, "number", Bool(~Equal(Second, Top)))

(* Two strings are compared as strings, anything else as numbers.  A        *)
(* comparison with NaN is false.                                            *)
Less(a, b, strict) ==
  IF Type(vm, a) = "string" /\ Type(vm, b) = "string"
  THEN StringLess(Val(vm, a), Val(vm, b)) \/ (~strict /\ Val(vm, a) = Val(vm, b))
  ELSE \/ NumberLess(Number(a), Number(b))
       \/ ~strict /\ NumberEqual(Number(a), Number(b))

opr_compare ==
  \/ Op("less") /\ Result(2, "number", Bool(Less(Second, Top, TRUE)))
  \/ Op("leq") /\ Result(2, "number", Bool(Less(Second, Top, FALSE)))
  \/ Op("grt") /\ Result(2, "number", Bool(Less(Top, Second, TRUE)))
  \/ Op("geq") /\ Result(2, "number", Bool(Less(Top, Second, FALSE)))
-----------------------------------------------------------------------------
(* Jumps and loops.                                                         *)

opr_pop == Op("pop") /\ vm' = del_reference(vm, Top) /\ Drop(1) /\ Continue

GoTo(target) ==
  Go(target) /\ UNCHANGED <<error, Other, builtin_die_state>>
StayOrJump(condition) ==
  /\ GoTo(IF condition THEN X ELSE ptr + 1)
  /\ UNCHANGED <<vm, stacks>>

opr_jmp == Op("jmp") /\ StayOrJump(TRUE)
opr_jmptrue == Op("jmptrue") /\ StayOrJump(check_condition(Top))
opr_jmpfalse == Op("jmpfalse") /\ StayOrJump(~check_condition(Top))

opr_counter ==
  /\ Op("counter")
  /\ \/ Type(vm, Top) # "vector" /\ Die
     \/ /\ Type(vm, Top) = "vector"
        /\ counter_stack' = Append(counter_stack, -1)
        /\ UNCHANGED <<vm, value_stack, local_scope_stack, slice_stack, call_stack>>
        /\ Continue

(* Both loops count first and compare with the vector's size as it is then. *)
Counter == Last(counter_stack) + 1
Exhausted == Counter >= Len(Val(vm, Top))

(* Mutant: the counter of the loop that ends is left on its stack. *)
LoopEndKeepsCounter ==
  /\ Exhausted
  /\ vm' = del_reference(vm, Top)
  /\ value_stack' = Below(1)
  /\ counter_stack' = [counter_stack EXCEPT ![Len(counter_stack)] = Counter]
  /\ UNCHANGED <<local_scope_stack, slice_stack, call_stack>>
  /\ GoTo(X)

LoopEnd ==
  /\ Exhausted
  /\ vm' = del_reference(vm, Top)
  /\ value_stack' = Below(1)
  /\ counter_stack' = Front(counter_stack)
  /\ UNCHANGED <<local_scope_stack, slice_stack, call_stack>>
  /\ GoTo(X)

LoopBody(a) ==
  /\ ~Exhausted
  /\ value_stack' = Append(value_stack, Value(a))
  /\ counter_stack' = [counter_stack EXCEPT ![Len(counter_stack)] = Counter]
  /\ UNCHANGED <<local_scope_stack, slice_stack, call_stack>>
  /\ Continue

opr_forindex ==
  /\ Op("forindex")
  /\ \/ LoopEnd
     \/ LoopBody(NextUnit(vm)) /\ vm' = gc_alloc_with(vm, "number", Counter)

opr_foreach ==
  /\ Op("foreach")
  /\ \/ LoopEnd
     \/ /\ LoopBody(VectorValue(vm, Top, Counter))
        /\ vm' = add_reference(vm, VectorValue(vm, Top, Counter))

-----------------------------------------------------------------------------
(* Names, elements and members.                                             *)

opr_call ==
  /\ Op("call")
  /\ LET a == Lookup(IF Scope = None THEN None ELSE ClosureValue(vm, Scope, X),
                  ClosureValue(vm, global_scope_addr, X))
     IN \/ a = None /\ Die
        \/ /\ a # None
           /\ vm' = add_reference(vm, a)
           /\ Push(Value(a)) /\ Continue

(* An index is the number of a number or a string; a NaN made an int is out *)
(* of every range.                                                          *)
Index(a) == IF IsScalar(a) THEN Number(a) ELSE NaN
Indexed(v, i) == IF Index(i) = NaN THEN None ELSE VectorValue(vm, v, Index(i))

CallVector ==
  /\ Type(vm, Second) = "vector"
  /\ LET a == Indexed(Second, Top)
     IN \/ a = None /\ Die
        \/ /\ a # None
           /\ vm' = DelAll(add_reference(vm, a), <<Top, Second>>)
           /\ Replace(2, Value(a)) /\ Continue

CallString ==
  /\ Type(vm, Second) = "string"
  /\ LET str == Val(vm, Second)
         n == Len(str)
         InString == IF Index(Top) = NaN THEN FALSE ELSE InRange(Index(Top), n)
         at == ((Index(Top) + n) % n) + 1
     IN \/ ~InString /\ Die
        \/ InString /\ Result(2, "number", CharCode(Char(str, at)))

(* A function found in a hash gets a "me"; here it is the key.              *)
CallHash ==
  /\ Type(vm, Second) = "hash"
  /\ LET a == IF Type(vm, Top) = "string" THEN HashValue(vm, Second, Val(vm, Top)) ELSE None
         me == IF Type(vm, a) = "function"
               THEN add_reference(add_new_value(vm, Val(vm, a).closure, "me", Top), Top)
               ELSE vm
     IN \/ a = None /\ Die
        \/ /\ a # None
           /\ vm' = DelAll(add_reference(me, a), <<Top, Second>>)
           /\ Replace(2, Value(a)) /\ Continue

(* An element of anything else: both operands go and nothing is pushed.     *)
CallNothing ==
  /\ Type(vm, Second) \notin {"vector", "string", "hash"}
  /\ vm' = DelAll(vm, <<Top, Second>>)
  /\ Drop(2) /\ Continue

opr_callv == Op("callv") /\ (CallVector \/ CallString \/ CallHash \/ CallNothing)

(* The vector of a multiple definition or assignment stays on the stack.    *)
opr_callvi ==
  /\ Op("callvi")
  /\ LET a == IF Type(vm, Top) = "vector" THEN VectorValue(vm, Top, X) ELSE None
     IN \/ a = None /\ Die
        \/ /\ a # None
           /\ vm' = add_reference(vm, a)
           /\ Push(Value(a)) /\ Continue

(* "me" of a function is the hash, and takes over its reference.            *)
opr_callh ==
  /\ Op("callh")
  /\ LET a == IF Type(vm, Top) = "hash" THEN HashValue(vm, Top, X) ELSE None
         held == add_reference(vm, a)
     IN \/ a = None /\ Die
        \/ /\ a # None
           /\ vm' = IF Type(vm, a) = "function"
                    THEN add_new_value(held, Val(vm, a).closure, "me", Top)
                    ELSE del_reference(held, Top)
           /\ Replace(1, Value(a)) /\ Continue

opr_mcall ==
  /\ Op("mcall")
  /\ LET c == Lookup(IF Scope = None THEN None ELSE ClosureCell(vm, Scope, X),
                  ClosureCell(vm, global_scope_addr, X))
     IN \/ c = None /\ Die
        \/ c # None /\ Push(Memory(c)) /\ Continue /\ UNCHANGED vm

(* The cell of an element.  For a value without elements nothing is pushed. *)
HasElements == {"string", "vector", "hash"}

(* Mutant: the container is deleted with the index, as callv does. *)
McallvDeletesContainer ==
  /\ Op("mcallv")
  /\ LET a == mem_get(vm, Second)
         c == VectorCell(vm, a, Index(Top))
     IN /\ Type(vm, a) = "vector" /\ Index(Top) # NaN /\ c # None
        /\ vm' = DelAll(vm, <<a, Top>>)
        /\ value_stack' = Append(Below(2), Memory(c))
        /\ UNCHANGED OtherStacks /\ Continue

opr_mcallv ==
  /\ Op("mcallv")
  /\ LET a == mem_get(vm, Second)
         c == CASE Type(vm, a) = "vector" ->
                     IF Index(Top) = NaN THEN None ELSE VectorCell(vm, a, Index(Top))
                [] Type(vm, a) = "hash" /\ Type(vm, Top) = "string" ->
                     HashCell(vm, a, Val(vm, Top))
                [] OTHER -> None
     IN \/ Type(vm, a) \in HasElements /\ c = None /\ Die
        \/ /\ Type(vm, a) \in HasElements => c # None
           /\ vm' = del_reference(vm, Top)
           /\ value_stack' = IF c = None THEN Below(2) ELSE Append(Below(2), Memory(c))
           /\ UNCHANGED OtherStacks /\ Continue

opr_mcallh ==
  /\ Op("mcallh")
  /\ LET h == mem_get(vm, Top)
         c == IF Type(vm, h) = "hash" THEN HashCell(vm, h, X) ELSE None
     IN \/ c = None /\ Die
        \/ c # None /\ Replace(1, Memory(c)) /\ Continue /\ UNCHANGED vm

-----------------------------------------------------------------------------
(* Slices: the elements go to a new vector on the slice stack.              *)

opr_slicebegin ==
  /\ Op("slicebegin")
  /\ \/ Type(vm, Top) # "vector" /\ Die
     \/ /\ Type(vm, Top) = "vector"
        /\ vm' = gc_alloc(vm, "vector")
        /\ slice_stack' = Append(slice_stack, NextUnit(vm))
        /\ UNCHANGED <<value_stack, local_scope_stack, call_stack, counter_stack>>
        /\ Continue

(* The vector sliced stays below the slice.                                 *)
opr_sliceend ==
  /\ Op("sliceend")
  /\ value_stack' = Append(value_stack, Value(Last(slice_stack)))
  /\ slice_stack' = Front(slice_stack)
  /\ UNCHANGED <<vm, local_scope_stack, call_stack, counter_stack>>
  /\ Continue

opr_slice ==
  /\ Op("slice")
  /\ LET a == Indexed(Second, Top)
     IN \/ a = None /\ Die
        \/ /\ a # None
           /\ vm' = del_reference(VectorAddAll(vm, Last(slice_stack), <<a>>), Top)
           /\ Drop(1) /\ Continue

(* The bounds of [a:b]: nil stands for the first, or the last, element on   *)
(* the side of 0 the other bound is on.                                     *)
SliceBounds(v, a, b) ==
  LET n == Len(Val(vm, v))
      first == Type(vm, a) = "nil"
      last == Type(vm, b) = "nil"
      Bounds(i, j) ==
        CASE first /\ last -> <<0, n - 1>>
          [] first /\ ~last -> <<IF j # NaN /\ j >= 0 THEN 0 ELSE -n, j>>
          [] ~first /\ last -> <<i, IF i # NaN /\ i >= 0 THEN n - 1 ELSE -1>>
          [] OTHER -> <<i, j>>
  IN Bounds(Index(a), Index(b))

InOrder(b, v) ==
  /\ NaN \notin {b[1], b[2]}
  /\ b[1] < b[2]
  /\ InRange(b[1], Len(Val(vm, v))) /\ InRange(b[2], Len(Val(vm, v)))

(* From the first bound to the one before the second.                       *)
Between(v, b) == [k \in 1..(b[2] - b[1]) |-> VectorValue(vm, v, b[1] + k - 1)]
opr_slice2 ==
  /\ Op("slice2")
  /\ \E b \in {SliceBounds(FromTop(2), Second, Top)} :
       \/ ~InOrder(b, FromTop(2)) /\ Die
       \/ /\ InOrder(b, FromTop(2))
          /\ vm' = DelAll(VectorAddAll(vm, Last(slice_stack), Between(FromTop(2), b)), <<Second, Top>>)
          /\ Drop(2) /\ Continue

-----------------------------------------------------------------------------
(* Calls and returns.                                                       *)

(* The value of the i-th parameter of f in a call with a vector or a hash.  *)
Given(f, args, i) ==
  IF Type(vm, args) = "vector" THEN i <= Len(Val(vm, args))
  ELSE SpecialPara(vm, args, Val(vm, f).para[i]) # None
Argument(f, args, i) ==
  IF ~Given(f, args, i) THEN Val(vm, f).default[i]
  ELSE IF Type(vm, args) = "vector" THEN vm.mem[Val(vm, args)[i]]
  ELSE SpecialPara(vm, args, Val(vm, f).para[i])

Arguments(f, args) == [i \in DOMAIN Val(vm, f).para |-> Argument(f, args, i)]

(* Mutant: there is no new scope. *)
BindInOldScope(f, args) ==
  LET fn == Val(vm, f)
  IN BindNames(add_reference(vm, fn.closure), fn.closure, fn.para, Arguments(f, args))

(* The parameters are bound in a new scope; what a vector has more than     *)
(* parameters is a vector for the dynamic parameter.                        *)
BindAll(f, args) ==
  LET fn == Val(vm, f)
      bound == BindNames(add_reference(add_scope(vm, fn.closure), fn.closure),
                         fn.closure, fn.para, Arguments(f, args))
      rest == SubSeq(ValuesIn(vm, args), Len(fn.para) + 1, Len(Val(vm, args)))
      v == NextUnit(bound)
      filled == VectorAddAll(gc_alloc(bound, "vector"), v, rest)
  IN IF fn.dynamic = "" THEN bound ELSE add_new_value(filled, fn.closure, fn.dynamic, v)

Callable(f, args) ==
  /\ Type(vm, f) = "function"
  /\ \A i \in DOMAIN Val(vm, f).para : Given(f, args, i) \/ Val(vm, f).default[i] # None
  /\ Type(vm, args) = "hash" => Val(vm, f).dynamic = ""

(* The function stays on the stack until it returns.                        *)
opr_callf ==
  /\ Op("callf")
  /\ \/ ~Callable(Second, Top) /\ Die
     \/ /\ Callable(Second, Top)
        /\ vm' = del_reference(BindAll(Second, Top), Top)
        /\ value_stack' = Below(1)
        /\ local_scope_stack' = Append(local_scope_stack, Val(vm, Second).closure)
        /\ call_stack' = Append(call_stack, ptr)
        /\ UNCHANGED <<slice_stack, counter_stack>>
        /\ GoTo(Val(vm, Second).entry)

(* The state die has set is added to error, in this run and in later ones:  *)
(* run() does not reset it.                                                 *)
opr_builtincall ==
  /\ Op("builtincall")
  /\ LET result == CallBuiltin(vm, Scope, X)
         die == IF Dies(vm, Scope, X) THEN 1 ELSE builtin_die_state
     IN /\ vm' = result.vm
        /\ Push(Value(result.ret))
        /\ builtin_die_state' = die
        /\ error' = error + die
        /\ Go(ptr + 1) /\ UNCHANGED Other

(* Below the value returned is the function that was called.                *)
opr_return ==
  /\ Op("return")
  /\ vm' = DelAll(del_scope(vm, Scope), <<Scope, Second>>)
  /\ value_stack' = Append(Below(2), Last(value_stack))
  /\ local_scope_stack' = Front(local_scope_stack)
  /\ call_stack' = Front(call_stack)
  /\ UNCHANGED <<slice_stack, counter_stack>>
  /\ GoTo(Last(call_stack) + 1)

-----------------------------------------------------------------------------
Execute ==
  \/ opr_nop \/ opr_load \/ opr_push \/ opr_newfunc \/ opr_vecapp \/ opr_hashapp
  \/ opr_para \/ opr_defpara \/ opr_dynpara \/ opr_entry
  \/ opr_unot \/ opr_usub \/ opr_arithmetic \/ opr_lnk
  \/ opr_arithmeticeq \/ opr_lnkeq \/ opr_meq
  \/ opr_eq \/ opr_neq \/ opr_compare
  \/ opr_pop \/ opr_jmp \/ opr_jmptrue \/ opr_jmpfalse
  \/ opr_counter \/ opr_forindex \/ opr_foreach
  \/ opr_call \/ opr_callv \/ opr_callvi \/ opr_callh \/ opr_callf \/ opr_builtincall
  \/ opr_slicebegin \/ opr_sliceend \/ opr_slice \/ opr_slice2
  \/ opr_mcall \/ opr_mcallv \/ opr_mcallh \/ opr_return

Idle == exec_code = <<>>
NoLayout == [starts |-> {}, loops |-> <<>>, jumps |-> <<>>]

(* run() is entered with a program, and ends with clear().                  *)
Run(program) ==
  /\ Idle
  /\ exec_code' = program.code
  /\ layout' = program.layout
  /\ ptr' = 0 /\ error' = 0
  /\ vm' = gc_alloc(EmptyStore, "closure")
  /\ global_scope_addr' = 1
  /\ UNCHANGED <<stacks, builtin_die_state>>

Clear ==
  /\ ~Idle /\ ~Running
  /\ exec_code' = <<>> /\ layout' = NoLayout /\ ptr' = 0
  /\ vm' = EmptyStore
  /\ global_scope_addr' = None
  /\ value_stack' = <<>> /\ local_scope_stack' = <<None>>
  /\ slice_stack' = <<>> /\ call_stack' = <<>> /\ counter_stack' = <<>>
  /\ UNCHANGED <<error, builtin_die_state>>

Init ==
  /\ exec_code = <<>> /\ layout = NoLayout /\ ptr = 0 /\ error = 0
  /\ vm = EmptyStore /\ global_scope_addr = None
  /\ value_stack = <<>> /\ local_scope_stack = <<None>>
  /\ slice_stack = <<>> /\ call_stack = <<>> /\ counter_stack = <<>>
  /\ builtin_die_state = 0

-----------------------------------------------------------------------------
(* Properties.                                                              *)

ValuesOnStack ==
  [i \in DOMAIN value_stack |-> IF value_stack[i].k = "value" THEN value_stack[i].a ELSE None]
Roots == ValuesOnStack \o local_scope_stack \o slice_stack \o <<global_scope_addr>>

(* What split finds is a sequence of parts: Pieces recurs over a string,    *)
(* the index of a part is that of the place where it begins.                *)
PartsInOrder(s, scope) ==
  LET d == Find(s, scope, "delimeter")
      a == Find(s, scope, "string")
      parts == Pieces(Val(s, a), Val(s, d))
  IN Is(s, d, "string") /\ Is(s, a, "string") => parts \in Seq(Range(parts))

(* builtincall has the name of a builtin function.                          *)
BuiltinFits ==
  /\ X \in BuiltinName
  /\ X = "nasal_call_builtin_split" => PartsInOrder(vm, Scope)

(* No handler finds its operands missing, of another kind, or already freed *)
(* (value_stack.top() on an empty stack, a memory address taken for a       *)
(* value, get_vector() on a value that is none), and no builtin call finds  *)
(* a name that is none of a builtin function.                               *)
OperandsReady ==
  Running => Ready /\ (Current = "builtincall" => BuiltinFits)

(* Between two opcodes a value has exactly as many references as there are  *)
(* stack entries, cells, functions and scopes that hold it: every handler   *)
(* accounts for what it pushes, pops, stores and overwrites.                *)
ReferencesExact ==
  \A a \in DOMAIN vm.unit : vm.unit[a].cnt = Count(Roots, a) + HeldInside(vm, a)

(* Nothing holds a value that has been given back: no entry of a stack, no  *)
(* cell, no default or closure of a function.                               *)
NoDangling == Range(Roots) \cup AllHeldInside(vm) \subseteq DOMAIN vm.unit \cup {None}

(* No entry of the stack, iterator or place to assign to, points to a cell  *)
(* that has been given back.                                                *)
TargetsAlive ==
  \A i \in DOMAIN value_stack :
    value_stack[i].k = "memory" => value_stack[i].a \in DOMAIN vm.mem

(* Every call under way has its return address and its closure, and has     *)
(* opened a scope of its own in that closure.                               *)
FramesMatched ==
  /\ Len(local_scope_stack) = Len(call_stack) + 1 /\ local_scope_stack[1] = None
  /\ \A a \in DOMAIN vm.unit : Type(vm, a) = "closure" =>
       Len(Val(vm, a)) >= 1 + Count(local_scope_stack, a)
=============================================================================
