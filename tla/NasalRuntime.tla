------------------------------ MODULE NasalRuntime ------------------------------
(***************************************************************************)
(* The tree interpreter (nasal_runtime.h): the command run.  It walks over *)
(* the syntax tree that the code generator compiles for exec, with a       *)
(* garbage collector of its own.  One action is one statement of the main  *)
(* program.                                                                *)
(*                                                                         *)
(* Each method of the source is an operator from the interpreter's state,  *)
(* a node and the closure of the function around it to the state after it. *)
(* Nodes are the records of NasalCodegen: a type t, a name or number v and *)
(* children c.  A function value keeps its tree where the other machine    *)
(* keeps the address of its code: <<argument_list, function_expr>>.        *)
(***************************************************************************)
EXTENDS NasalBuiltin

VARIABLES
  root,              \* the statements of the program; <<>> when none runs
  expr,              \* how many of them are done
  rt,                \* the state of the interpreter
  builtin_die_state  \* shared with the bytecode machine

vars == <<root, expr, rt, builtin_die_state>>

(* The fields: the store and the closure of the main program; whether die() *)
(* was called (the source counts); builtin_die_state; function_returned_    *)
(* address; addr and state, what the method called last has returned (an    *)
(* address of a value or a cell, or -1; a state of runtime_returned_state). *)
(* The last three only record what the source does, for the properties:     *)
(* broken is "" until a method goes on with something it cannot use any     *)
(* more, and then says what: a value given back although the method owned a *)
(* reference ("owned"), a cell or value given back after it was found,      *)
(* without a reference ("found"), the last one of no parameters ("empty").  *)
(* lost are values whose reference is dropped without being given back,     *)
(* left the closures of calls that returned without closing their scope.    *)
Idle == [vm |-> EmptyStore, global |-> None, error |-> FALSE, die |-> 0,
         returned |-> None, addr |-> None, state |-> "exit",
         broken |-> "", lost |-> <<>>, left |-> <<>>]

Gives(r, a) == [r EXCEPT !.addr = a]
Ends(r, state) == [r EXCEPT !.state = state]
Died(r) == [r EXCEPT !.error = TRUE, !.addr = None]
New(r, type, val) == [r EXCEPT !.vm = gc_alloc_with(@, type, val), !.addr = NextUnit(r.vm)]
(* Mutant: the reference is forgotten. *)
HoldUncounted(r, a) == [r EXCEPT !.addr = a]

Hold(r, a) == [r EXCEPT !.vm = add_reference(@, a), !.addr = a]
Release(r, as) == [r EXCEPT !.vm = DelAll(@, as)]
Loses(r, as) == [r EXCEPT !.lost = @ \o as]

Broken(r) == r.broken # ""
Uses(r, kind, ready) == IF ready \/ Broken(r) THEN r ELSE [r EXCEPT !.broken = kind]
Owned(r, a) == Uses(r, "owned", Live(r.vm, a))
CellUsed(r, c) == Uses(r, "found", c = None \/ c \in DOMAIN r.vm.mem)
ValuesUsed(r, as) == Uses(r, "found", \A i \in DOMAIN as : as[i] = None \/ Live(r.vm, as[i]))

(* mem_change does not ask whether the cell is still in use.                *)
Change(r, c, a) == [CellUsed(r, c) EXCEPT !.vm = mem_change(@, c, a)]

(* A double made an int; NaN gives the least int there is.                  *)
MinInt == -2147483647 - 1
ToInt(n) == IF n = NaN THEN MinInt ELSE n
IndexOf(r, a) == ToInt(NumberOf(r.vm, a))

(* Mutant: always the globals. *)
TargetGlobal(r, scope) == r.global

(* The closure that a definition goes to.                                   *)
Target(r, scope) == IF scope = None THEN r.global ELSE scope
Define(r, scope, name, a) == [r EXCEPT !.vm = add_new_value(@, Target(r, scope), name, a)]
ValueIn(r, scope, name) ==
  Lookup(IF scope = None THEN None ELSE ClosureValue(r.vm, scope, name),
         ClosureValue(r.vm, r.global, name))
CellIn(r, scope, name) ==
  Lookup(IF scope = None THEN None ELSE ClosureCell(r.vm, scope, name),
         ClosureCell(r.vm, r.global, name))

(* Expressions are evaluated by calculation and blocks by block_progress:   *)
(* eval is either, and a loop comes back to it for its next iteration.      *)
RECURSIVE eval(_, _, _)

(* The state after each of a sequence of nodes, with what they returned.    *)
Then(s, e) == [r |-> e, addrs |-> Append(s.addrs, e.addr)]
Each(r, nodes, scope) ==
  LET f[n \in 0..Len(nodes)] ==
        IF n = 0 THEN [r |-> r, addrs |-> <<>>]
        ELSE LET s == f[n - 1] IN Then(s, eval(s.r, nodes[n], scope))
  IN f[Len(nodes)]

-----------------------------------------------------------------------------
(* Containers and functions.                                                *)

vector_generation(r, ast, scope) ==
  LET Add(t, a) == VectorAdd(t, NextUnit(r.vm), a)
      Filled(elems) == [elems.r EXCEPT !.vm = FoldLeft(Add, @, elems.addrs)]
  IN Gives(Filled(Each(New(r, "vector", <<>>), ast.c, scope)), NextUnit(r.vm))

(* A value for a key that is there already is dropped.                      *)
hash_generation(r, ast, scope) ==
  LET h == NextUnit(r.vm)
      f[n \in 0..Len(ast.c)] ==
        IF n = 0 THEN New(r, "hash", <<>>)
        ELSE LET e == eval(f[n - 1], ast.c[n].c[2], scope)
                 Again == ast.c[n].c[1].v \in DOMAIN Val(e.vm, h)
             IN [Loses(e, IF Again THEN <<e.addr>> ELSE <<>>) EXCEPT
                   !.vm = HashAdd(@, h, ast.c[n].c[1].v, e.addr)]
  IN Gives(f[Len(ast.c)], h)

function_generation(r, ast, scope) ==
  LET f == NextUnit(r.vm)
      Closed(made, empty) ==
        IF scope # None THEN set_closure_addr(made, f, scope)
        ELSE del_reference(set_closure_addr(gc_alloc(made, "closure"), f, empty), empty)
      Made == gc_alloc_with(r.vm, "function", [NoFunction EXCEPT !.entry = ast.c])
  IN Gives([r EXCEPT !.vm = Closed(Made, f + 1)], f)

-----------------------------------------------------------------------------
(* Operators.  An operand that is no value makes the result none.           *)

ArithmeticOf == [add |-> "add", sub |-> "sub", mult |-> "mul", div |-> "div"]
nasal_scalar_arithmetic(r, t, a, b) ==
  New(r, "number", Arithmetic(ArithmeticOf[t], NumberOf(r.vm, a), NumberOf(r.vm, b)))

(* Operands that cannot be linked are printed about, which is no error.     *)
nasal_scalar_link(r, a, b) ==
  IF Scalar(r.vm, a) /\ Scalar(r.vm, b)
  THEN New(r, "string", TextOf(r.vm, a) \o TextOf(r.vm, b)) ELSE Gives(r, None)

nasal_scalar_unary_sub(r, a) ==
  IF a = None THEN Gives(r, None) ELSE New(r, "number", Negative(NumberOf(r.vm, a)))

nasal_scalar_unary_not(r, a) ==
  IF a # None /\ Type(r.vm, a) \in {"nil", "number", "string"}
  THEN New(r, "number", Bool(~Truth(r.vm, a))) ELSE Gives(r, None)

IsEqual(s, a, b) ==
  \/ a = b
  \/ Type(s, a) = "nil" /\ Type(s, b) = "nil"
  \/ Type(s, a) = "string" /\ Type(s, b) = "string" /\ Val(s, a) = Val(s, b)
  \/ /\ Scalar(s, a) /\ Scalar(s, b) /\ ~(Type(s, a) = "string" /\ Type(s, b) = "string")
     /\ NumberEqual(NumberOf(s, a), NumberOf(s, b))

nasal_scalar_cmp_equal(r, a, b) == New(r, "number", Bool(IsEqual(r.vm, a, b)))
nasal_scalar_cmp_not_equal(r, a, b) == New(r, "number", Bool(~IsEqual(r.vm, a, b)))

IsLess(s, a, b) ==
  IF Type(s, a) = "string" /\ Type(s, b) = "string" THEN StringLess(Val(s, a), Val(s, b))
  ELSE NumberLess(NumberOf(s, a), NumberOf(s, b))
IsSame(s, a, b) ==
  IF Type(s, a) = "string" /\ Type(s, b) = "string" THEN Val(s, a) = Val(s, b)
  ELSE NumberEqual(NumberOf(s, a), NumberOf(s, b))
nasal_scalar_cmp_less(r, a, b) == New(r, "number", Bool(IsLess(r.vm, a, b)))
nasal_scalar_cmp_greater(r, a, b) == New(r, "number", Bool(IsLess(r.vm, b, a)))
nasal_scalar_cmp_less_or_equal(r, a, b) ==
  New(r, "number", Bool(IsLess(r.vm, a, b) \/ IsSame(r.vm, a, b)))
nasal_scalar_cmp_greater_or_equal(r, a, b) ==
  New(r, "number", Bool(IsLess(r.vm, b, a) \/ IsSame(r.vm, a, b)))

BinaryTypes == {"add", "sub", "mult", "div", "link", "cmp_equal", "cmp_not_equal",
                "less_than", "less_equal", "greater_than", "greater_equal"}
Operation(r, t, a, b) ==
  CASE None \in {a, b} -> Gives(r, None)
    [] None \notin {a, b} /\ t \in DOMAIN ArithmeticOf -> nasal_scalar_arithmetic(r, t, a, b)
    [] None \notin {a, b} /\ t = "link" -> nasal_scalar_link(r, a, b)
    [] None \notin {a, b} /\ t = "cmp_equal" -> nasal_scalar_cmp_equal(r, a, b)
    [] None \notin {a, b} /\ t = "cmp_not_equal" -> nasal_scalar_cmp_not_equal(r, a, b)
    [] None \notin {a, b} /\ t = "less_than" -> nasal_scalar_cmp_less(r, a, b)
    [] None \notin {a, b} /\ t = "less_equal" -> nasal_scalar_cmp_less_or_equal(r, a, b)
    [] None \notin {a, b} /\ t = "greater_than" -> nasal_scalar_cmp_greater(r, a, b)
    [] None \notin {a, b} /\ t = "greater_equal" -> nasal_scalar_cmp_greater_or_equal(r, a, b)

(* Mutant: the right operand is not released. *)
BinaryKeepsRight(r, ast, scope) ==
  LET a == eval(r, ast.c[1], scope)
      b == eval(a, ast.c[2], scope)
  IN Release(Operation(b, ast.t, a.addr, b.addr), <<a.addr>>)

binary(r, ast, scope) ==
  LET a == eval(r, ast.c[1], scope)
      b == eval(a, ast.c[2], scope)
  IN Release(Operation(b, ast.t, a.addr, b.addr), <<a.addr, b.addr>>)

unary(r, ast, scope) ==
  LET a == eval(r, ast.c[1], scope)
  IN Release(IF ast.t = "unary_not" THEN nasal_scalar_unary_not(a, a.addr)
             ELSE nasal_scalar_unary_sub(a, a.addr), <<a.addr>>)

Holds(r) == r.addr # None /\ Truth(r.vm, r.addr)

(* The result of and, or is an operand when it is true, and else 0.         *)
and(r, ast, scope) ==
  LET a == eval(r, ast.c[1], scope)
      b == eval(a, ast.c[2], scope)
  IN CASE ~Holds(a) -> New(Release(a, <<a.addr>>), "number", 0)
       [] Holds(a) /\ ~Holds(b) -> New(Release(b, <<a.addr, b.addr>>), "number", 0)
       [] Holds(a) /\ Holds(b) -> Release(b, <<a.addr>>)

or(r, ast, scope) ==
  LET a == eval(r, ast.c[1], scope)
      b == eval(a, ast.c[2], scope)
  IN CASE Holds(a) -> a
       [] ~Holds(a) /\ Holds(b) -> Release(b, <<a.addr>>)
       [] ~Holds(a) /\ ~Holds(b) -> New(Release(b, <<a.addr, b.addr>>), "number", 0)

trinocular(r, ast, scope) ==
  LET cond == eval(r, ast.c[1], scope)
  IN Release(eval(cond, ast.c[IF Holds(cond) THEN 2 ELSE 3], scope), <<cond.addr>>)

-----------------------------------------------------------------------------
(* Elements, members and calls.  Each of these takes the value that is      *)
(* called and returns a value of its own with a reference, or -1: after a   *)
(* die, but also for a member that is not there and an index out of range.  *)

(* [a:b]: a string b is written to the begin index, and b stays 0.          *)
SubvecBounds(r, v, a, b) ==
  LET n == Len(Val(r.vm, v))
      i == IF Type(r.vm, b) = "string" THEN b ELSE a   \* what the begin index is read from
      j == IF Type(r.vm, b) = "number" THEN b ELSE None
      Between(first, last) ==
        CASE Type(r.vm, a) = "nil" /\ Type(r.vm, b) = "nil" -> <<0, n - 1>>
          [] Type(r.vm, a) = "nil" /\ Type(r.vm, b) # "nil" -> <<IF last < 0 THEN -n ELSE 0, last>>
          [] Type(r.vm, a) # "nil" /\ Type(r.vm, b) = "nil" ->
               <<first, IF first < 0 THEN -1 ELSE n - 1>>
          [] OTHER -> <<first, last>>
  IN Between(IndexOf(r, i), IF j = None THEN 0 ELSE IndexOf(r, j))

IndexTypes == {"nil", "number", "string"}

(* The elements from the first bound to the second, both included.          *)
NoElements(r) == [r |-> r, addrs |-> <<>>, ok |-> FALSE]
Slice(e, v, a, b, ij) ==
  IF \/ ~(InRange(ij[1], Len(Val(e.vm, v))) /\ InRange(ij[2], Len(Val(e.vm, v))))
     \/ "nil" \notin {Type(e.vm, a), Type(e.vm, b)} /\ ij[1] >= ij[2]
  THEN NoElements(Died(e))
  ELSE [r |-> Release(e, <<a, b>>), ok |-> TRUE,
        addrs |-> [k \in 1..(ij[2] - ij[1] + 1) |-> VectorValue(e.vm, v, ij[1] + k - 1)]]
SliceOf(e, v, a, b) ==
  CASE Broken(e) -> NoElements(e)
    [] ~Broken(e) /\ ~({Type(e.vm, a), Type(e.vm, b)} \subseteq IndexTypes) ->
         NoElements(Died(e))
    [] OTHER -> Slice(e, v, a, b, SubvecBounds(e, v, a, b))
SliceFrom(e, v) == SliceOf(Owned(e.r, v), v, e.addrs[1], e.addrs[2])
subvec(r, ast, v, scope) == SliceFrom(Each(r, ast.c, scope), v)

(* The vector is looked at when the index is known; -1 out of range.        *)
ElementAt(e, v) ==
  CASE Broken(e) -> NoElements(e)
    [] ~Broken(e) /\ ~Scalar(e.vm, e.addr) -> NoElements(Died(e))
    [] OTHER -> [r |-> Release(e, <<e.addr>>), ok |-> TRUE,
                 addrs |-> <<VectorValue(e.vm, v, IndexOf(e, e.addr))>>]
element(r, ast, v, scope) == ElementAt(Owned(eval(r, ast, scope), v), v)

(* One element is the value itself; anything else is a new vector.  All are *)
(* found before any of them gets a reference.                               *)
OneElement(r, node, v, scope) ==
  IF node.t = "subvec" THEN subvec(r, node, v, scope) ELSE element(r, node, v, scope)
AllElements(r, nodes, v, scope) ==
  LET Join(addrs, got) == [got EXCEPT !.addrs = addrs \o @]
      f[n \in 0..Len(nodes)] ==
        IF n = 0 THEN [r |-> r, addrs |-> <<>>, ok |-> TRUE]
        ELSE LET s == f[n - 1]
             IN IF s.ok THEN Join(s.addrs, OneElement(s.r, nodes[n], v, scope)) ELSE s
  IN f[Len(nodes)]
VectorOf(r, as) ==
  LET Add(t, a) == VectorAdd(add_reference(t, a), NextUnit(r.vm), a)
  IN Gives([r EXCEPT !.vm = FoldLeft(Add, gc_alloc(@, "vector"), as)], NextUnit(r.vm))
Elements(all, single) ==
  LET found == ValuesUsed(all.r, all.addrs)
  IN CASE ~all.ok -> Gives(all.r, None)
       [] all.ok /\ single -> Hold(found, all.addrs[1])
       [] OTHER -> VectorOf(found, all.addrs)
call_elements(r, ast, v, scope) ==
  Elements(AllElements(r, ast.c, v, scope), Len(ast.c) = 1 /\ ast.c[1].t # "subvec")

(* The key's value is not released.                                         *)
call_key(r, ast, h, scope) ==
  LET k == Owned(eval(r, ast.c[1], scope), h)
  IN CASE Len(ast.c) > 1 -> Died(r)
       [] Len(ast.c) = 1 /\ ast.c[1].t = "subvec" -> Died(r)
       [] OTHER -> IF Type(k.vm, k.addr) = "string" /\ ~Broken(k)
                   THEN Hold(Loses(k, <<k.addr>>), HashValue(k.vm, h, Val(k.vm, k.addr)))
                   ELSE Died(k)

call_character(r, ast, str, scope) ==
  LET i == Owned(eval(r, ast.c[1], scope), str)
      Code(text, at) ==
        CASE ~Scalar(i.vm, i.addr) -> Died(i)
          [] Scalar(i.vm, i.addr) /\ ~InRange(at, Len(text)) ->
               Died(New(Release(i, <<i.addr>>), "number", 0))
          [] OTHER -> New(Release(i, <<i.addr>>), "number",
                          CharCode(Char(text, ((at + Len(text)) % Len(text)) + 1)))
  IN CASE Len(ast.c) > 1 -> Died(r)
       [] Len(ast.c) = 1 /\ ast.c[1].t = "subvec" -> Died(r)
       [] OTHER -> Code(Val(r.vm, str), IndexOf(i, i.addr))

call_vector(r, ast, base, scope) ==
  CASE Type(r.vm, base) = "vector" -> call_elements(r, ast, base, scope)
    [] Type(r.vm, base) = "hash" -> call_key(r, ast, base, scope)
    [] Type(r.vm, base) = "string" -> call_character(r, ast, base, scope)
    [] OTHER -> Died(r)

call_hash(r, ast, base) ==
  LET Found(a) == IF a = None THEN Died(r) ELSE Hold(r, a)
  IN Found(IF Type(r.vm, base) = "hash" THEN HashValue(r.vm, base, ast.v) ELSE None)

(* The arguments, in the scope opened for them: r.addr is -1 where the call *)
(* returns at once, and the scope stays open.                               *)
ParameterName(p) == IF p.t = "default_arg" THEN p.c[1].v ELSE p.v
BindNew(r, c, name, a) == [r EXCEPT !.vm = add_new_value(@, c, name, a)]
BindVector(r, c, name, as) ==
  LET v == NextUnit(r.vm)
      Add(t, a) == VectorAdd(t, v, a)
  IN Gives([r EXCEPT !.vm =
       add_new_value(FoldLeft(Add, gc_alloc(@, "vector"), as), c, name, v)], v)
BindDefault(r, c, p, scope) ==
  LET e == eval(r, p.c[2], scope)
  IN IF e.addr = None THEN e ELSE BindNew(e, c, p.c[1].v, e.addr)
Continues(r) == r.addr # None
Entered == 0   \* any address: the arguments are bound so far

BindEach(r, c, ps, scope) ==
  LET Bind(g, p) == IF Continues(g) THEN BindDefault(g, c, p, scope) ELSE g
  IN FoldLeft(Bind, r, ps)
no_arguments(r, ps, c, scope) ==
  CASE ps = <<>> -> Gives(r, Entered)
    [] ps # <<>> /\ ps[1].t = "identifier" -> Died(r)
    [] ps # <<>> /\ ps[1].t = "dynamic_id" -> BindVector(r, c, ps[1].v, <<>>)
    [] OTHER -> BindEach(Gives(r, Entered), c, ps, scope)

(* Each argument is bound before the next one is evaluated; then the        *)
(* defaults of those not given, in the order of their names.                *)
BindGiven(r, names, args, c, scope) ==
  LET Bind(g, arg) ==
        CASE ~Continues(g) -> g
          [] Continues(g) /\ arg.c[1].v \notin names -> Died(g)
          [] OTHER -> BindDefault(g, c, arg, scope)
  IN FoldLeft(Bind, r, args)
BindRest(r, ps, given, c) ==
  LET all == IF Last(ps).t = "dynamic_id" /\ Last(ps).v \notin given
             THEN BindVector(r, c, Last(ps).v, <<>>) ELSE r
  IN CASE ~Continues(r) -> r
       [] Continues(r) /\ \E i \in DOMAIN ps :
            ps[i].t = "identifier" /\ ps[i].v \notin given -> Died(all)
       [] OTHER -> all
named_arguments(r, ps, args, c, scope) ==
  LET names == {ParameterName(ps[i]) : i \in DOMAIN ps}
      given == {args[i].c[1].v : i \in DOMAIN args}
      Missing(p) == p.t = "default_arg" /\ ParameterName(p) \notin given
      Defaults == SortSeq(SelectSeq(ps, Missing),
                          LAMBDA p, q : StringLess(p.c[1].v, q.c[1].v))
      Given == BindGiven(Gives(r, Entered), names, args, c, scope)
  IN BindRest(BindEach(Given, c, Defaults, scope), ps, given, c)

(* All arguments are evaluated before the first is bound, and dropped when  *)
(* one of them is -1.  Whether there are too many is asked of the last      *)
(* parameter (back()), also when there is none.                             *)
Arguments(r, args, scope) ==
  LET Evaluate(s, arg) == IF Continues(s.r) THEN Then(s, eval(s.r, arg, scope)) ELSE s
  IN FoldLeft(Evaluate, [r |-> Gives(r, Entered), addrs |-> <<>>], args)
BindListed(r, ps, as, c, scope) ==
  LET Bind(g, i) ==
        CASE ~Continues(g) -> g
          [] Continues(g) /\ ps[i].t = "dynamic_id" ->
               BindVector(g, c, ps[i].v, SubSeq(as, i, Len(as)))
          [] Continues(g) /\ ps[i].t # "dynamic_id" /\ i <= Len(as) ->
               BindNew(g, c, ParameterName(ps[i]), as[i])
          [] OTHER -> IF ps[i].t = "identifier" THEN Died(g) ELSE BindDefault(g, c, ps[i], scope)
  IN FoldLeft(Bind, r, [i \in DOMAIN ps |-> i])
listed_arguments(r, ps, args, c, scope) ==
  LET Bound(s) ==
        CASE ~Continues(s.r) -> Loses(s.r, s.addrs)
          [] Continues(s.r) /\ ps = <<>> -> Uses(s.r, "empty", FALSE)
          [] Continues(s.r) /\ ps # <<>> /\ Len(args) > Len(ps) /\ Last(ps).t # "dynamic_id" ->
               Died(s.r)
          [] OTHER -> BindListed(s.r, ps, s.addrs, c, scope)
  IN Bound(Arguments(r, args, scope))

(* Mutant: the scope of the call stays open. *)
LeaveOpen(r, c) == r
Leave(r, c) == [r EXCEPT !.vm = del_scope(@, c)]

(* "me" is bound when the function was called as a member of a hash.  The   *)
(* hash itself has been released by then.                                   *)
WithMe(r, c, hash) ==
  IF hash = None THEN r ELSE BindNew(Hold(ValuesUsed(r, <<hash>>), hash), c, "me", hash)
WithArguments(r, ps, args, c, scope) ==
  CASE args = <<>> -> no_arguments(r, ps, c, scope)
    [] args # <<>> /\ args[1].t = "hashmember" -> named_arguments(r, ps, args, c, scope)
    [] OTHER -> listed_arguments(r, ps, args, c, scope)
Returned(r) ==
  IF r.returned = None THEN New(r, "nil", 0) ELSE [r EXCEPT !.addr = r.returned, !.returned = None]
RunBody(bound, body, c) ==
  LET ran == Owned(eval(bound, body, c), c)
  IN CASE Broken(bound) -> Gives(bound, None)
       [] ~Broken(bound) /\ ~Continues(bound) -> [bound EXCEPT !.left = Append(@, c)]
       [] ~Broken(bound) /\ Continues(bound) /\ Broken(ran) -> Gives(ran, None)
       [] OTHER -> Returned(Leave(ran, c))
Enter(r, args, fn, scope) ==
  IF Broken(r) THEN Gives(r, None)
  ELSE RunBody(WithArguments(r, fn.entry[1].c, args, fn.closure, scope), fn.entry[2], fn.closure)
Open(r, c, hash) == WithMe([r EXCEPT !.vm = add_scope(@, c)], c, hash)
call_function(r, ast, f, hash, scope) ==
  IF Type(r.vm, f) = "function"
  THEN Enter(Open(r, Val(r.vm, f).closure, hash), ast.c, Val(r.vm, f), scope)
  ELSE Died(r)

(* A name that is no variable's may be a builtin's: what follows it in the  *)
(* expression is not looked at.                                             *)
call_builtin_function(r, name, scope) ==
  LET Called(result, die) ==
        [r EXCEPT !.vm = result.vm, !.addr = result.ret, !.die = die,
                  !.error = @ \/ die = 1 \/ result.ret = None]
  IN IF name \in BuiltinName
     THEN Called(CallBuiltin(r.vm, scope, name), IF Dies(r.vm, scope, name) THEN 1 ELSE r.die)
     ELSE Died(r)

CallOne(r, e, hash, scope) ==
  CASE e.t = "call_vec" -> call_vector(r, e, r.addr, scope)
    [] e.t = "call_hash" -> call_hash(r, e, r.addr)
    [] e.t = "call_func" -> call_function(r, e, r.addr, hash, scope)
(* s.hash: the hash whose member was called last.                           *)
CallNext(s, e, scope) ==
  [r |-> Release(CallOne(s.r, e, s.hash, scope), <<s.r.addr>>),
   hash |-> IF e.t = "call_hash" THEN s.r.addr ELSE None]
CallAll(r, calls, scope) ==
  LET f[n \in 0..Len(calls)] ==
        IF n = 0 THEN [r |-> r, hash |-> None]
        ELSE LET s == f[n - 1]
             IN IF n > 1 /\ ~Continues(s.r) THEN s ELSE CallNext(s, calls[n], scope)
  IN f[Len(calls)].r
call_scalar(r, ast, scope) ==
  IF ast.c[1].t = "identifier" /\ ValueIn(r, scope, ast.c[1].v) = None
  THEN call_builtin_function(r, ast.c[1].v, scope)
  ELSE CallAll(eval(r, ast.c[1], scope), Tail(ast.c), scope)

-----------------------------------------------------------------------------
(* Places: the cell that is assigned to, or -1.                             *)

call_vector_mem(r, ast, cell, scope) ==
  LET base == mem_get(r.vm, cell)
      i == eval(r, ast.c[1], scope)
      e == ValuesUsed(i, <<base>>)
  IN CASE Type(r.vm, base) \notin {"vector", "hash"} -> Died(r)
       [] Type(r.vm, base) = "vector" ->
            IF Scalar(e.vm, e.addr) /\ ~Broken(e)
            THEN Gives(Release(e, <<e.addr>>), VectorCell(e.vm, base, IndexOf(e, e.addr)))
            ELSE Died(e)
       [] OTHER ->   \* the key's value is not released
            IF Type(e.vm, e.addr) = "string" /\ ~Broken(e)
            THEN Gives(Loses(e, <<e.addr>>), HashCell(e.vm, base, Val(e.vm, e.addr)))
            ELSE Died(e)

(* A member that is not there yet is added.                                 *)
call_hash_mem(r, ast, cell) ==
  LET base == mem_get(r.vm, cell)
      Cell(has) == Gives(has, HashCell(has.vm, base, ast.v))
  IN CASE Type(r.vm, base) # "hash" -> Died(r)
       [] Type(r.vm, base) = "hash" /\ HashCell(r.vm, base, ast.v) # None -> Cell(r)
       [] OTHER -> Cell([r EXCEPT !.vm =
                      HashAdd(gc_alloc(@, "nil"), base, ast.v, NextUnit(r.vm))])

Reached(r) == [r EXCEPT !.error = @ \/ r.addr = None]
PlaceOf(r, path, scope) ==
  LET Call(g, e) ==
        CASE ~Continues(g) -> g
          [] Continues(g) /\ e.t = "call_vec" -> Reached(call_vector_mem(g, e, g.addr, scope))
          [] Continues(g) /\ e.t = "call_hash" -> Reached(call_hash_mem(g, e, g.addr))
          [] OTHER -> Died(g)
  IN FoldLeft(Call, Reached(Gives(r, CellIn(r, scope, path[1].v))), Tail(path))
call_scalar_mem(r, ast, scope) ==
  PlaceOf(r, IF ast.t = "identifier" THEN <<ast>> ELSE ast.c, scope)

(* The place is found before the value is computed.                         *)
equal(r, ast, scope) ==
  LET Assigned(place, value) == Hold(Change(value, place.addr, value.addr), value.addr)
      At(place) == Assigned(place, eval(place, ast.c[2], scope))
  IN At(call_scalar_mem(r, ast.c[1], scope))

(* Also the old value is read before the new one is computed.               *)
OperatorOf == [add_equal |-> "add", sub_equal |-> "sub", mult_equal |-> "mult",
               div_equal |-> "div", link_equal |-> "link"]
Assigned(result, cell, value) ==
  Hold(Change(Release(result, <<value>>), cell, result.addr), result.addr)
Operated(value, t, cell, old) ==
  Assigned(Operation(ValuesUsed(value, <<old>>), OperatorOf[t], old, value.addr),
           cell, value.addr)
AssignAt(place, ast, scope) ==
  Operated(eval(place, ast.c[2], scope), ast.t, place.addr, mem_get(place.vm, place.addr))
assign(r, ast, scope) ==
  AssignAt(call_scalar_mem(r, ast.c[1], scope), ast, scope)

calculation(r, ast, scope) ==
  LET missing == New(Died(r), "nil", 0)
      Found(a) == IF a # None THEN Hold(r, a) ELSE Hold(missing, missing.addr)
  IN CASE ast.t = "null" -> New(r, "number", 1)
       [] ast.t = "nil" -> New(r, "nil", 0)
       [] ast.t \in {"number", "string"} -> New(r, ast.t, ast.v)
       [] ast.t = "identifier" -> Found(ValueIn(r, scope, ast.v))
       [] ast.t = "vector" -> vector_generation(r, ast, scope)
       [] ast.t = "hash" -> hash_generation(r, ast, scope)
       [] ast.t = "function" -> function_generation(r, ast, scope)
       [] ast.t = "call" -> call_scalar(r, ast, scope)
       [] ast.t \in BinaryTypes -> binary(r, ast, scope)
       [] ast.t = "and" -> and(r, ast, scope)
       [] ast.t = "or" -> or(r, ast, scope)
       [] ast.t \in {"unary_sub", "unary_not"} -> unary(r, ast, scope)
       [] ast.t = "trinocular" -> trinocular(r, ast, scope)
       [] ast.t = "equal" -> equal(r, ast, scope)
       [] ast.t \in DOMAIN OperatorOf -> assign(r, ast, scope)
       [] OTHER -> missing

-----------------------------------------------------------------------------
(* Definitions and assignments of several values.                           *)

(* The values of a vector of n > 0 elements; none when the value is not one. *)
ValuesOf(r, a, n) ==
  IF a # None /\ Type(r.vm, a) = "vector" /\ Len(Val(r.vm, a)) = n
  THEN [i \in 1..n |-> VectorValue(r.vm, a, i - 1)] ELSE <<>>
HoldAll(r, as) == [r EXCEPT !.vm = AddAll(@, as)]

DefineEach(r, names, exprs, scope) ==
  LET f[n \in 0..Len(names)] ==
        IF n = 0 THEN r
        ELSE LET x == eval(f[n - 1], exprs[n], scope) IN Define(x, scope, names[n].v, x.addr)
  IN f[Len(names)]
DefineValues(r, names, values, scope) ==
  LET f[n \in 0..Len(names)] ==
        IF n = 0 THEN HoldAll(r, values) ELSE Define(f[n - 1], scope, names[n].v, values[n])
  IN IF values = <<>> THEN Died(r) ELSE Release(f[Len(names)], <<r.addr>>)
definition(r, ast, scope) ==
  LET names == ast.c[1].c
      e == eval(r, ast.c[2], scope)
  IN CASE ast.c[1].t = "identifier" ->
            IF e.addr = None THEN e ELSE Define(e, scope, ast.c[1].v, e.addr)
       [] ast.c[1].t = "multi_identifier" /\ ast.c[2].t = "multi_scalar" ->
            DefineEach(r, names, ast.c[2].c, scope)
       [] OTHER -> DefineValues(e, names, ValuesOf(e, e.addr, Len(names)), scope)

(* All places are found, then all values, before any is assigned.           *)
Places(r, nodes, scope) ==
  LET Find1(s, node) == Then(s, call_scalar_mem(s.r, node, scope))
  IN FoldLeft(Find1, [r |-> r, addrs |-> <<>>], nodes)
ChangeAll(r, cells, as) ==
  LET f[i \in 0..Len(cells)] == IF i = 0 THEN r ELSE Change(f[i - 1], cells[i], as[i])
  IN f[Len(cells)]
ChangeValues(r, cells, values) ==
  IF values = <<>> THEN Died(r)
  ELSE Release(ChangeAll(HoldAll(r, values), cells, values), <<r.addr>>)
multi_assignment(r, ast, scope) ==
  LET Each1(cells, each) == ChangeAll(each.r, cells, each.addrs)
      All1(cells, e) == ChangeValues(e, cells, ValuesOf(e, e.addr, Len(cells)))
      Assign(places) ==
        IF ast.c[2].t = "multi_scalar"
        THEN Each1(places.addrs, Each(places.r, ast.c[2].c, scope))
        ELSE All1(places.addrs, eval(places.r, ast.c[2], scope))
  IN Assign(Places(r, ast.c[1].c, scope))

-----------------------------------------------------------------------------
(* Statements.                                                              *)

Stopped(r) == r.error \/ Broken(r)
LoopTypes == {"while", "for", "forindex", "foreach"}

(* The value of an expression is released.  There is no case for and, or.   *)
Skipped == {"null", "nil", "number", "string", "function", "and", "or"}
Expression(r, ast, scope) == LET e == eval(r, ast, scope) IN Release(e, <<e.addr>>)

return_statement(r, ast, scope) ==
  LET e == IF ast.c = <<>> THEN New(r, "nil", 0) ELSE eval(r, ast.c[1], scope)
  IN Ends([e EXCEPT !.returned = e.addr], "return")

statement(r, ast, scope) ==
  CASE ast.t \in {"definition", "multi_assign"} -> Ends(eval(r, ast, scope), "exit")
    [] ast.t \in {"conditional"} \cup LoopTypes -> eval(r, ast, scope)
    [] ast.t \in Skipped -> Ends(r, "exit")
    [] ast.t \in {"break", "continue"} -> Ends(r, ast.t)
    [] ast.t = "return" -> return_statement(r, ast, scope)
    [] OTHER -> Ends(Expression(r, ast, scope), "exit")

(* The first statement runs also when an error stands: it is looked at      *)
(* after each statement.                                                    *)
block_progress(r, ast, scope) ==
  LET f[n \in 0..Len(ast.c)] ==
        IF n = 0 THEN Ends(r, "exit")
        ELSE LET g == f[n - 1]
             IN IF Broken(g) \/ (n > 1 /\ (g.error \/ g.state # "exit")) THEN g
                ELSE statement(g, ast.c[n], scope)
  IN f[Len(ast.c)]

(* The first and the third part of for.  A bare name is skipped as well.    *)
for_part(r, ast, scope) ==
  CASE ast.t \in {"definition", "multi_assign"} -> eval(r, ast, scope)
    [] ast.t \in Skipped \cup {"identifier"} -> r
    [] OTHER -> Expression(r, ast, scope)

(* What a loop returns; its own break and continue end with it.             *)
LeavesLoop(r) == Stopped(r) \/ r.state \in {"break", "return"}
LoopEnds(r) == Ends(r, IF r.state \in {"break", "continue"} THEN "exit" ELSE r.state)

(* One iteration, and the loop again.                                       *)
Tested(cond) == Release(cond, <<cond.addr>>)
while_loop(r, ast, scope) ==
  LET cond == eval(r, ast.c[1], scope)
      body == eval(Tested(cond), ast.c[2], scope)
  IN CASE ~Holds(cond) -> Ends(Tested(cond), "exit")
       [] Holds(cond) /\ LeavesLoop(body) -> LoopEnds(body)
       [] OTHER -> eval(body, ast, scope)

for_loop(r, ast, scope) ==
  LET cond == eval(for_part(r, ast.c[1], scope), ast.c[2], scope)
      Body(g) == IF LeavesLoop(g) THEN LoopEnds(g)
                 ELSE eval(for_part(g, ast.c[3], scope),
                           [ast EXCEPT !.c[1] = [t |-> "null", v |-> "", c |-> <<>>]], scope)
  IN IF ~Holds(cond) \/ Stopped(cond) THEN Ends(Tested(cond), "exit")
     ELSE Body(eval(Tested(cond), ast.c[4], scope))

(* The iterations of forindex and foreach from index on: the size of the    *)
(* vector is asked again for each, the cell of the iterator is the one      *)
(* found at the start.                                                      *)
Iterations(ast, cell, v, index) ==
  [t |-> "iterations", v |-> [kind |-> ast.t, cell |-> cell, vector |-> v, index |-> index],
   c |-> <<ast.c[3]>>]

iterate(r, ast, scope) ==
  LET it == ast.v
      live == Owned(r, it.vector)
      value == VectorValue(r.vm, it.vector, it.index)
      next == IF it.kind = "forindex" THEN New(live, "number", it.index) ELSE Hold(live, value)
      body == eval(Change(next, it.cell, next.addr), ast.c[1], scope)
      ends == Broken(live) \/ it.index >= Len(Val(r.vm, it.vector))
  IN CASE ends -> Ends(Release(live, <<it.vector>>), "exit")
       [] ~ends /\ LeavesLoop(body) -> LoopEnds(Release(body, <<it.vector>>))
       [] OTHER -> eval(body, [ast EXCEPT !.v.index = @ + 1], scope)

(* A new iterator is a new variable; its cell is looked up by its name.     *)
NewIterator(r, scope, name) ==
  LET Cell(g) == Gives(g, ClosureCell(g.vm, Target(r, scope), name))
  IN Cell(Define(New(r, "nil", 0), scope, name, NextUnit(r.vm)))
iterator_loop(r, ast, scope) ==
  LET v == eval(r, ast.c[2], scope)
      Iterate(place) == IF place.addr = None THEN Ends(Died(place), "error")
                        ELSE eval(place, Iterations(ast, place.addr, v.addr, 0), scope)
  IN IF v.addr = None \/ Type(v.vm, v.addr) # "vector" THEN Ends(Died(v), "error")
     ELSE Iterate(IF ast.c[1].t = "new_iter" THEN NewIterator(v, scope, ast.c[1].c[1].v)
                  ELSE call_scalar_mem(v, ast.c[1], scope))

loop_progress(r, ast, scope) ==
  CASE ast.t = "while" -> while_loop(r, ast, scope)
    [] ast.t = "for" -> for_loop(r, ast, scope)
    [] ast.t = "iterations" -> iterate(r, ast, scope)
    [] ast.t \in {"forindex", "foreach"} -> iterator_loop(r, ast, scope)

(* The first branch whose condition holds.                                  *)
conditional_progress(r, ast, scope) ==
  LET Branch(g, b) ==
        LET cond == eval(g, b.c[1], scope)
            tested == Ends(Release(cond, <<cond.addr>>), "exit")
        IN CASE b.t = "else" -> [r |-> eval(g, b.c[1], scope), done |-> TRUE]
             [] b.t # "else" /\ cond.addr = None -> [r |-> Ends(Died(cond), "error"), done |-> TRUE]
             [] OTHER -> IF Holds(cond) THEN [r |-> eval(tested, b.c[2], scope), done |-> TRUE]
                         ELSE [r |-> tested, done |-> Stopped(tested)]
      f[n \in 0..Len(ast.c)] ==
        IF n = 0 THEN [r |-> Ends(r, "exit"), done |-> FALSE]
        ELSE LET s == f[n - 1] IN IF s.done THEN s ELSE Branch(s.r, ast.c[n])
  IN f[Len(ast.c)].r

eval(r, ast, scope) ==
  CASE ast.t = "block" -> block_progress(r, ast, scope)
    [] ast.t = "conditional" -> conditional_progress(r, ast, scope)
    [] ast.t \in LoopTypes \cup {"iterations"} -> loop_progress(r, ast, scope)
    [] ast.t = "definition" -> definition(r, ast, scope)
    [] ast.t = "multi_assign" -> multi_assignment(r, ast, scope)
    [] OTHER -> calculation(r, ast, scope)

-----------------------------------------------------------------------------
(* The main program: one step is one statement.                             *)

Running == root # <<>>
More == expr < Len(root) /\ ~Stopped(rt)

(* run(): builtin_die_state is reset here, unlike by exec.                  *)
Run(program) ==
  /\ ~Running
  /\ root' = program.c
  /\ expr' = 0
  /\ rt' = [Idle EXCEPT !.vm = gc_alloc(EmptyStore, "closure"), !.global = NextUnit(EmptyStore)]
  /\ builtin_die_state' = 0

main_progress ==
  /\ Running /\ More
  /\ \E done \in {eval([rt EXCEPT !.die = builtin_die_state],
                       [t |-> "block", v |-> "", c |-> <<root[expr + 1]>>], None)} :
       /\ rt' = [done EXCEPT !.addr = None, !.die = 0]
       /\ builtin_die_state' = done.die
  /\ expr' = expr + 1
  /\ UNCHANGED root

(* The closure of the main program is released, and then everything else.   *)
Clear ==
  /\ Running /\ ~More
  /\ root' = <<>> /\ expr' = 0
  /\ rt' = Idle
  /\ UNCHANGED builtin_die_state

Init ==
  /\ root = <<>> /\ expr = 0 /\ rt = Idle /\ builtin_die_state = 0

-----------------------------------------------------------------------------
(* Properties, of the states between two statements: no expression is under *)
(* way, so that the cells and functions and the main program hold whatever  *)
(* is held.  After an error the machine stops and everything is released.   *)

Between == Running /\ ~Stopped(rt)

(* Every value has exactly as many references as it has holders, and one    *)
(* more for each time its reference was dropped without being given back:   *)
(* the key of x["k"], the arguments evaluated before one that is -1, and a  *)
(* member whose key the hash has already.  Each method accounts for all     *)
(* other temporaries it makes, whatever the calls in between did.           *)
Held(a) == HeldInside(rt.vm, a) + (IF a = rt.global THEN 1 ELSE 0)
ReferencesExact ==
  Between => \A a \in DOMAIN rt.vm.unit : rt.vm.unit[a].cnt = Held(a) + Count(rt.lost, a)

(* What a method owns a reference to is there as long as it goes on: the    *)
(* vector of a loop, the value that is called or indexed, the closure of a  *)
(* running call, although calls in between assign, cut or clear the         *)
(* variables that held it.  And between two statements no cell and no       *)
(* function holds a value that has been given back.                         *)
AddressesValid ==
  /\ Running => rt.broken \in {"", "found"}
  /\ Between => AllHeldInside(rt.vm) \subseteq DOMAIN rt.vm.unit \cup {None}

(* "be careful! this process doesn't check if this mem_space is in use"     *)
(* (nasal_gc.h:811): nor does the interpreter, which finds the place of an  *)
(* assignment before it computes the value; then also the place is still    *)
(* there when it is written, and so is any value found without a reference. *)
PlacesValid == Running => ~Broken(rt)

(* A statement closes every scope it opens, in whichever closure, after any *)
(* calls, returns out of loops and recursion, except for the calls that     *)
(* returned without an error because an argument or a default is -1: each   *)
(* of these, and nothing else, leaves one scope of its function open.       *)
Scopes(r, a) == Len(Val(r.vm, a))
ClosesScopes ==
  Between /\ Running' /\ ~Stopped(rt)' =>
    \A a \in DOMAIN rt.vm.unit :
      Type(rt.vm, a) = "closure" /\ Live(rt'.vm, a) =>
        Scopes(rt', a) = Scopes(rt, a) + Count(rt'.left, a) - Count(rt.left, a)
=============================================================================
