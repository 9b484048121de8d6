----------------------------- MODULE NasalPrograms -----------------------------
(***************************************************************************)
(* Programs, as syntax trees: a family is a sequence of programs.          *)
(***************************************************************************)
EXTENDS NasalCodegen, NasalBuiltin

MCBuiltin == BuiltinName

(* Writing trees.                                                           *)
Nil == Node("nil", "", <<>>)
Num(n) == Node("number", n, <<>>)
Str(s) == Node("string", s, <<>>)
Id(s) == Node("identifier", s, <<>>)
Vec(es) == Node("vector", "", es)
Member(k, e) == Node("hashmember", "", <<Id(k), e>>)
HashOf(ms) == Node("hash", "", ms)
Block(ss) == Node("block", "", ss)
Fn(ps, ss) == Node("function", "", <<Node("args", "", ps), Block(ss)>>)
Default(k, e) == Node("default_arg", "", <<Id(k), e>>)
Dynamic(k) == Node("dynamic_id", k, <<>>)
CallOf(e, cs) == Node("call", "", <<e>> \o cs)
F(es) == Node("call_func", "", es)
V(es) == Node("call_vec", "", es)
H(k) == Node("call_hash", k, <<>>)
Sub(a, b) == Node("subvec", "", <<a, b>>)
Def(k, e) == Node("definition", "", <<Id(k), e>>)
Multi(es) == Node("multi_scalar", "", es)
DefMulti(ks, e) == Node("definition", "", <<Node("multi_identifier", "", ks), e>>)
SetMulti(ls, e) == Node("multi_assign", "", <<Multi(ls), e>>)
Apply(t, a, b) == Node(t, "", <<a, b>>)
Set(l, e) == Apply("equal", l, e)
If(c, ss) == Node("if", "", <<c, Block(ss)>>)
Elsif(c, ss) == Node("elsif", "", <<c, Block(ss)>>)
Else(ss) == Node("else", "", <<Block(ss)>>)
Conditional(bs) == Node("conditional", "", bs)
If2(c, ss) == Conditional(<<If(c, ss)>>)
While(c, ss) == Node("while", "", <<c, Block(ss)>>)
For(i, c, s, ss) == Node("for", "", <<i, c, s, Block(ss)>>)
NewIter(k) == Node("new_iter", "", <<Id(k)>>)
Forindex(it, v, ss) == Node("forindex", "", <<it, v, Block(ss)>>)
Foreach(it, v, ss) == Node("foreach", "", <<it, v, Block(ss)>>)
Absent == Node("null", "", <<>>)
Break == Node("break", "", <<>>)
Again == Node("continue", "", <<>>)
Return(es) == Node("return", "", es)
Program(ss) == Node("root", "", ss)

(* Every combination of the elements of two sequences.                      *)
Cross(Of(_, _), as, bs) ==
  [n \in 1..(Len(as) * Len(bs)) |->
     Of(as[((n - 1) \div Len(bs)) + 1], bs[((n - 1) % Len(bs)) + 1])]
Each(Of(_), as) == [n \in DOMAIN as |-> Of(as[n])]
Pairs(as, bs) == Cross(LAMBDA a, b : <<a, b>>, as, bs)

-----------------------------------------------------------------------------
(* Operators on operands of every type.                                     *)
Operands == <<Nil, Num(0), Num(2), Str(""), Str("a"), Str("2"), Vec(<<Num(1)>>),
              HashOf(<<Member("k", Num(1))>>), Fn(<<>>, <<>>)>>
BinaryNodes == <<"add", "sub", "mult", "div", "link", "cmp_equal", "cmp_not_equal",
                 "less_equal", "less_than", "greater_equal", "greater_than">>
AssignmentNodes == <<"equal", "add_equal", "sub_equal", "mult_equal", "div_equal",
                     "link_equal">>
TwoOperands == Pairs(Operands, Operands)

Operators ==
  Cross(LAMBDA t, p : Program(<<Def("x", Apply(t, p[1], p[2])), Id("x")>>),
        BinaryNodes, TwoOperands)
  \o Cross(LAMBDA t, p : Program(<<Def("x", p[1]), Apply(t, Id("x"), p[2]), Id("x")>>),
           AssignmentNodes, TwoOperands)
  \o Cross(LAMBDA t, a : Program(<<Node(t, "", <<a>>), Nil>>),
           <<"unary_sub", "unary_not">>, Operands)
  \o Cross(LAMBDA t, p : Program(<<Def("x", Node("trinocular", "", <<Apply(t, p[1], p[2]), p[2], Nil>>)),
                                   Num(1)>>),
           <<"and", "or">>, TwoOperands)

-----------------------------------------------------------------------------
(* One loop in another, of every kind, with a break or a continue in each.  *)
(* A break or continue of the outer loop stands behind the inner one, and   *)
(* the loops over a vector have no break: see EarlyJump and Leaving.        *)
Count1(n) == Apply("add_equal", Id(n), Num(1))
WhileLoop(n, body) == <<Def(n, Num(0)), While(Apply("less_than", Id(n), Num(2)),
                                              <<Count1(n)>> \o body)>>
ForLoop(n, body) == <<For(Def(n, Num(0)), Apply("less_than", Id(n), Num(2)), Count1(n), body)>>
EndlessFor(n, body) == <<Def(n, Num(0)), For(Absent, Absent, Count1(n),
    body \o <<If2(Apply("cmp_equal", Id(n), Num(2)), <<Break>>)>>)>>
ForindexLoop(n, body) == <<Forindex(NewIter(n), Vec(<<Num(2), Num(3)>>), body)>>
ForeachLoop(n, body) == <<Foreach(NewIter(n), Vec(<<Num(0), Num(1)>>), body)>>
LoopOf(kind, n, body) ==
  CASE kind = "while" -> WhileLoop(n, body)
    [] kind = "for" -> ForLoop(n, body)
    [] kind = "endless" -> EndlessFor(n, body)
    [] kind = "forindex" -> ForindexLoop(n, body)
    [] kind = "foreach" -> ForeachLoop(n, body)
LoopKinds == <<"while", "for", "endless", "forindex", "foreach">>

At(n, jump) == If2(Apply("cmp_equal", Id(n), Num(1)), jump)
Exits(kind) == IF kind \in {"while", "for", "endless"} THEN <<<<>>, <<Again>>, <<Break>>>>
               ELSE <<<<>>, <<Again>>>>
Inner(kind) ==
  Each(LAMBDA jump : LoopOf(kind, "j", <<At("j", jump), Apply("add_equal", Id("x"), Id("j"))>>),
       Exits(kind))
Nested(kind, inner) ==
  Cross(LAMBDA loop, jump :
          Program(<<Def("x", Num(0))>>
                  \o LoopOf(kind, "i", loop \o <<At("i", jump), Count1("x")>>) \o <<Id("x")>>),
        Inner(inner), Exits(kind))
Loops == FlattenSeq(Cross(Nested, LoopKinds, LoopKinds))

-----------------------------------------------------------------------------
(* Functions of every parameter list, called with every kind of arguments,  *)
(* but no list of arguments for no parameters: see NoParameters.            *)
Exec1(f, args) == CallOf(Id(f), <<F(args)>>)
Keyed(k, e) == <<Member(k, e)>>
ParameterLists ==
  << <<>>, <<Id("a")>>, <<Id("a"), Default("b", Num(7))>>, <<Default("b", Vec(<<>>))>>,
     <<Dynamic("r")>>, <<Id("a"), Dynamic("r")>> >>
ArgumentLists ==
  << <<>>, <<Num(1)>>, <<Num(1), Vec(<<Num(2)>>)>>, <<Num(1), Num(2), Str("a")>>,
     Keyed("a", Num(1)), Keyed("b", Num(1)), Keyed("a", Num(1)) \o Keyed("b", Id("x")) >>
Last1(ps) == IF ps = <<>> THEN Id("x")
             ELSE LET p == ps[Len(ps)] IN Id(IF p.t = "default_arg" THEN p.c[1].v ELSE p.v)
Bodies(ps) ==
  << <<>>, <<Return(<<>>)>>, <<Return(<<Last1(ps)>>)>>,
     <<Set(Id("x"), Last1(ps)), Return(<<Fn(<<>>, <<Return(<<Last1(ps)>>)>>)>>)>>,
     <<Def("y", Last1(ps)), If2(Id("x"), <<Return(<<Id("x")>>)>>), Id("y")>> >>
Fitting(ps) ==
  SelectSeq(ArgumentLists, LAMBDA args : ps = <<>> => args = <<>> \/ args[1].t = "hashmember")
Calls ==
  FlattenSeq(Each(LAMBDA ps :
    Cross(LAMBDA body, args :
            Program(<<Def("x", Num(0)), Def("f", Fn(ps, body)), Def("z", Exec1("f", args)),
                      Exec1("f", args)>>),
          Bodies(ps), Fitting(ps)), ParameterLists))

(* Recursion, functions made by functions, methods, calls of what is none.  *)
Counting == Fn(<<Id("n")>>, <<If2(Id("n"), <<Exec1("f", <<Apply("sub", Id("n"), Num(1))>>)>>),
                              Return(<<Id("n")>>)>>)
MakeCounter == Fn(<<>>, <<Def("n", Num(0)),
                          Return(<<Fn(<<>>, <<Count1("n"), Return(<<Id("n")>>)>>)>>)>>)
Method == HashOf(<<Member("k", Num(1)),
                   Member("get", Fn(<<>>, <<Return(<<CallOf(Id("me"), <<H("k")>>)>>)>>)),
                   Member("inc", Fn(<<>>, <<Set(CallOf(Id("me"), <<H("k")>>), Num(2))>>))>>)
Child == HashOf(<<Member("parents", Vec(<<Id("h")>>)), Member("a", Num(3))>>)
Procedures == <<
  Program(<<Def("f", Counting), Exec1("f", <<Num(2)>>)>>),
  Program(<<Def("m", MakeCounter), Def("c", Exec1("m", <<>>)), Def("d", Exec1("m", <<>>)),
            Exec1("c", <<>>), Exec1("d", <<>>), Exec1("c", <<>>)>>),
  Program(<<Def("h", Method), CallOf(Id("h"), <<H("inc"), F(<<>>)>>),
            CallOf(Id("h"), <<H("get"), F(<<>>)>>)>>),
  Program(<<Def("h", Method), CallOf(Id("h"), <<V(<<Str("get")>>), F(<<>>)>>)>>),
  Program(<<Def("h", Method), Def("c", Child), CallOf(Id("c"), <<H("get"), F(<<>>)>>),
            CallOf(Id("c"), <<H("inc"), F(<<>>)>>), CallOf(Id("h"), <<H("k")>>)>>),
  Program(<<Def("f", Num(1)), Exec1("f", <<>>)>>),
  Program(<<Exec1("f", <<>>)>>),
  Program(<<Def("f", Fn(<<Id("g")>>, <<Return(<<Exec1("g", <<Num(1)>>)>>)>>)),
            Exec1("f", <<Fn(<<Id("a")>>, <<Return(<<Id("a")>>)>>)>>)>>),
  Program(<<Def("f", Fn(<<>>, <<Conditional(<<If(Num(0), <<Return(<<>>)>>),
      Elsif(Num(0), <<Return(<<Num(1)>>)>>), Else(<<Return(<<Num(2)>>)>>)>>)>>)), Exec1("f", <<>>)>>),
  Program(<<Def("f", Fn(<<>>, <<While(Num(1), <<Return(<<Num(1)>>)>>)>>)), Exec1("f", <<>>)>>),
  Program(<<Def("x", Num(1)), While(Id("x"), <<Break>>), While(Id("x"), <<Set(Id("x"), Nil), Again>>),
            While(Id("x"), <<Id("x")>>)>>),
  Program(<<Def("f", Fn(<<>>, <<While(Num(1), <<Break>>)>>)), Exec1("f", <<>>),
            Def("x", Num(1)), While(Id("x"), <<Set(Id("x"), Exec1("f", <<>>))>>)>>) >>

(* The functions of lib.nas around the builtins, on values of every type.   *)
Wrapper(name, ps, builtin) ==
  Def(name, Fn(ps, <<Return(<<CallOf(Id(builtin), <<F(<<>>)>>)>>)>>))
Procedure(name, ps, builtin) ==
  Def(name, Fn(ps, <<CallOf(Id(builtin), <<F(<<>>)>>), Return(<<Nil>>)>>))
OneArgument == <<
  Procedure("f", <<Dynamic("elements")>>, "nasal_call_builtin_std_cout"),
  Wrapper("f", <<Id("vector")>>, "nasal_call_builtin_pop_back"),
  Wrapper("f", <<Id("object")>>, "nasal_call_builtin_size"),
  Wrapper("f", <<Id("hash")>>, "nasal_call_builtin_get_keys"),
  Wrapper("f", <<Id("object")>>, "nasal_call_builtin_type"),
  Wrapper("f", <<Id("value")>>, "nasal_call_builtin_trans_num"),
  Wrapper("f", <<Id("value")>>, "nasal_call_builtin_trans_int"),
  Wrapper("f", <<Id("a")>>, "nasal_call_builtin_not"),
  Procedure("f", <<Id("thing")>>, "nasal_call_builtin_get_id"),
  Wrapper("f", <<Id("str")>>, "nasal_call_builtin_system"),
  Procedure("f", <<Id("duration")>>, "nasal_call_builtin_sleep"),
  Procedure("f", <<Id("str")>>, "nasal_call_builtin_die") >>
TwoArguments == <<
  Procedure("f", <<Id("vector"), Dynamic("elements")>>, "nasal_call_builtin_push_back"),
  Procedure("f", <<Id("vector"), Id("size")>>, "nasal_call_builtin_set_size"),
  Wrapper("f", <<Id("hash"), Id("key")>>, "nasal_call_builtin_contains"),
  Procedure("f", <<Id("hash"), Id("key")>>, "nasal_call_builtin_delete"),
  Procedure("f", <<Id("filename"), Id("str")>>, "nasal_call_builtin_foutput") >>
Objects == <<Nil, Num(6), Str("a"), Str("2"), Vec(<<>>), Vec(<<Num(1), Vec(<<Num(2)>>)>>),
             HashOf(<<Member("a", Num(1)), Member("k", Vec(<<>>))>>), Fn(<<>>, <<>>)>>
Seconds == <<Num(1), Num(3), Str("a"), Str("1")>>
Substrings == Cross(LAMBDA b, n :
    Program(<<Wrapper("f", <<Id("str"), Id("begin"), Id("length")>>, "nasal_call_builtin_substr"),
              Exec1("f", <<Str("abc"), b, n>>)>>),
  <<Num(-1), Num(0), Num(2), Num(3), Nil>>, <<Num(-1), Num(0), Num(1), Num(3), Str("1")>>)
Bits == Cross(LAMBDA name, p :
    Program(<<Wrapper("f", <<Id("a"), Id("b")>>, name), Def("x", Exec1("f", p)), Id("x")>>),
  <<"nasal_call_builtin_xor", "nasal_call_builtin_and", "nasal_call_builtin_or",
    "nasal_call_builtin_nand">>,
  Pairs(<<Num(0), Num(5), Num(-3), Str("5")>>, <<Num(6), Num(-1), Nil>>))
Splits == Cross(LAMBDA d, str :
    Program(<<Wrapper("f", <<Id("delimeter"), Id("string")>>, "nasal_call_builtin_split"),
              Def("x", Exec1("f", <<d, str>>)), Id("x")>>),
  <<Str(""), Str("a"), Str("ab"), Num(1)>>,
  <<Str(""), Str("b"), Str("aab"), Str("cabab"), Vec(<<>>)>>)
Builtins ==
  Cross(LAMBDA def, e : Program(<<def, Def("x", e), Def("y", Exec1("f", <<Id("x")>>)), Id("x")>>),
        OneArgument, Objects)
  \o Cross(LAMBDA def, p : Program(<<def, Def("x", p[1]), Def("y", Exec1("f", <<Id("x"), p[2]>>)),
                                     Id("x")>>),
           TwoArguments, Pairs(Objects, Seconds))
  \o <<Program(<<CallOf(Id("nasal_call_builtin_size"), <<F(<<>>)>>), Num(1)>>)>>
  \o Substrings \o Bits \o Splits

Functions == Calls \o Procedures \o Builtins

-----------------------------------------------------------------------------
(* Elements and members, read and assigned, of values of every type.        *)
Holders == <<Nil, Str("ab"), Vec(<<>>), Vec(<<Num(1), Vec(<<Num(2), Num(3)>>)>>),
             HashOf(<<Member("a", Num(1)), Member("k", Vec(<<Num(4)>>))>>),
             HashOf(<<Member("parents", Vec(<<Id("p"), Nil>>)), Member("b", Num(5))>>),
             HashOf(<<Member("parents", Num(0))>>)>>
Parent == HashOf(<<Member("a", Num(6)), Member("k", Str("b"))>>)
Places == <<V(<<Num(0)>>), V(<<Num(-1)>>), V(<<Num(2)>>), V(<<Str("1")>>), V(<<Str("a")>>),
            V(<<Vec(<<>>)>>), V(<<Nil>>), H("a"), H("k"), H("b")>>
Paths == Each(LAMBDA c : <<c>>, Places)
         \o << <<V(<<Num(1)>>), V(<<Num(0)>>)>>, <<H("k"), V(<<Num(0)>>)>>, <<H("a"), H("a")>> >>
HolderPaths ==   \* without elements of nil or of a number: see LeftBehind
  SelectSeq(Pairs(Holders, Paths),
            LAMBDA p : CASE p[1].t = "nil" -> p[2][1].t # "call_vec"
                         [] p[1].t = "string" -> Len(p[2]) = 1
                         [] OTHER -> TRUE)
Read(p) == Program(<<Def("p", Parent), Def("x", p[1]), Def("y", CallOf(Id("x"), p[2])), Id("y")>>)
Assign(p) == Program(<<Def("p", Parent), Def("x", p[1]), Set(CallOf(Id("x"), p[2]), Id("x")),
                       Set(Id("x"), Num(0))>>)
Update(t, p) == Program(<<Def("p", Parent), Def("x", p[1]), Def("y", CallOf(Id("x"), p[2])),
                          Apply(t, CallOf(Id("x"), p[2]), Str("1")), Id("y"), Id("x")>>)

(* Values bound, moved and exchanged.                                       *)
Exchanges == <<
  Program(<<Def("x", Vec(<<Num(1)>>)), Def("y", Id("x")), Set(Id("x"), Id("y")),
            Set(Id("y"), Nil), Set(Id("x"), Id("x"))>>),
  Program(<<DefMulti(<<Id("x"), Id("y")>>, Multi(<<Num(1), Vec(<<>>)>>)),
            SetMulti(<<Id("x"), Id("y")>>, Multi(<<Id("y"), Id("x")>>)),
            If2(Id("x"), <<Id("z")>>), Id("y")>>),
  Program(<<Def("x", Vec(<<Num(1), Num(2)>>)),
            SetMulti(<<CallOf(Id("x"), <<V(<<Num(0)>>)>>), CallOf(Id("x"), <<V(<<Num(1)>>)>>)>>,
                     Multi(<<CallOf(Id("x"), <<V(<<Num(1)>>)>>),
                             CallOf(Id("x"), <<V(<<Num(0)>>)>>)>>)), Id("x")>>),
  Program(<<Def("x", Vec(<<>>)), Def("h", HashOf(<<Member("a", Id("x"))>>)),
            Set(Id("h"), CallOf(Id("h"), <<H("a")>>)), Set(Id("x"), Id("h"))>>),
  Program(<<Set(Id("x"), Num(1))>>),
  Program(<<Foreach(NewIter("e"), Num(1), <<>>)>>),
  Program(<<Def("x", Vec(<<Num(1)>>)), Foreach(NewIter("e"), Id("x"), <<Set(Id("x"), Id("e"))>>)>>)
>>
Containers == Each(Read, HolderPaths) \o Each(Assign, HolderPaths)
              \o Cross(Update, <<"add_equal", "link_equal">>, HolderPaths) \o Exchanges


-----------------------------------------------------------------------------
(* Statements that leave the vector they work on behind.                    *)
Sliced == Vec(<<Num(1), Num(2), Num(3)>>)
Bounds == <<Nil, Num(0), Num(2), Num(-1), Num(-3), Num(5), Str("1"), Str("a")>>
Slices == Cross(LAMBDA a, b : Program(<<Def("x", Sliced), CallOf(Id("x"), <<V(<<Sub(a, b)>>)>>)>>),
                Bounds, Bounds)
LeftBehind == <<
  Program(<<CallOf(Sliced, <<V(<<Num(0), Num(-1), Sub(Num(0), Num(2))>>)>>), Num(1)>>),
  Program(<<CallOf(Sliced, <<V(<<Num(0), Num(3)>>)>>)>>),
  Program(<<CallOf(Str("a"), <<V(<<Num(0), Num(1)>>)>>)>>),
  Program(<<DefMulti(<<Id("x"), Id("y")>>, Vec(<<Num(1), Num(2)>>)), Id("x")>>),
  Program(<<DefMulti(<<Id("x"), Id("y")>>, Vec(<<Num(1)>>))>>),
  Program(<<DefMulti(<<Id("x"), Id("y")>>, Num(1))>>),
  Program(<<Def("x", Num(1)), Def("y", Vec(<<Num(1)>>)),
            SetMulti(<<Id("x"), CallOf(Id("y"), <<V(<<Num(0)>>)>>)>>, Vec(<<Num(3), Id("y")>>))>>),
  Program(<<DefMulti(<<Id("x")>>, Vec(<<Num(1)>>)), CallOf(Id("x"), <<V(<<Num(0)>>)>>)>>) >>
Leftovers == Slices \o LeftBehind

-----------------------------------------------------------------------------
(* Calls that take a variable's value, or elements of it, away while it is  *)
(* in use, and loops over the vector in which that happens.                 *)
PushBack == Def("f", Fn(<<Id("vector"), Dynamic("elements")>>,
                        <<CallOf(Id("nasal_call_builtin_push_back"), <<F(<<>>)>>)>>))
PopBack == Def("f", Fn(<<Id("vector")>>,
                       <<Return(<<CallOf(Id("nasal_call_builtin_pop_back"), <<F(<<>>)>>)>>)>>))
Away == << <<Set(Id("x"), Nil)>>, <<Set(CallOf(Id("x"), <<V(<<Num(0)>>)>>), Nil)>>, <<Def("x", Nil)>>,
           <<Exec1("f", <<Id("x")>>)>> >>
Using(away, use) ==
  Program(<<PopBack, Def("x", Vec(<<Vec(<<Num(1)>>), Num(2)>>)),
            Def("g", Fn(<<>>, away \o <<Return(<<Num(0)>>)>>)), use, Def("z", Num(3))>>)
InUse ==
  Cross(Using, Away, <<Foreach(NewIter("e"), Id("x"), <<Exec1("g", <<>>), Id("e")>>),
                       Forindex(NewIter("i"), Id("x"), <<Exec1("g", <<>>), Id("i")>>)>>)
  \o <<Program(<<PushBack, Def("x", Vec(<<Num(0), Num(1)>>)),
                  Foreach(NewIter("e"), Id("x"), <<At("e", <<Exec1("f", <<Id("x"), Num(2)>>)>>)>>), Id("x")>>),
        Program(<<PopBack, Def("x", Vec(<<Num(0), Num(1)>>)),
                  Forindex(NewIter("i"), Id("x"), <<Exec1("f", <<Id("x")>>)>>), Id("x")>>)>>

Programs == Operators \o Loops \o Functions \o Containers \o Leftovers \o InUse

-----------------------------------------------------------------------------
(* Programs of the kind that the repository's tests contain.                *)

(* neo4j.nas:120-150: a loop with a break, and a loop in it behind that.    *)
EarlyJump == Each(LAMBDA kind :
    Program(<<Def("i", Num(0)), While(Num(1), <<At("i", <<Break>>), Count1("i")>>
                                              \o LoopOf(kind, "j", <<Id("j")>>))>>),
  LoopKinds)

(* props.nas:280-288: a function that looks for something in a loop.        *)
Leaving == Each(LAMBDA v :
    Program(<<Def("f", Fn(<<>>, <<Foreach(NewIter("c"), v, <<If2(Id("c"), <<Return(<<Num(0)>>)>>)>>),
                                  Return(<<Num(1)>>)>>)),
              Exec1("f", <<>>), Exec1("f", <<>>)>>),
  <<Vec(<<>>), Vec(<<Num(0)>>), Vec(<<Num(0), Num(1)>>)>>)

(* props.nas:145: a loop whose iterator is a variable that exists.          *)
OldIterator == Cross(LAMBDA v, body :
    Program(<<Def("c", Nil), Foreach(CallOf(Id("c"), <<>>), v, body), Id("c")>>),
  <<Vec(<<>>), Vec(<<Num(0)>>), Vec(<<Num(0), Num(1)>>)>>, <<<<>>, <<Id("c")>>>>)

(* A place in a vector that the call for the index takes out of use.        *)
Releasing == Each(LAMBDA place :
    Program(<<Def("x", Vec(<<Vec(<<Num(1)>>)>>)),
              Def("g", Fn(<<>>, <<Set(Id("x"), Nil), Return(<<Num(0)>>)>>)),
              Set(CallOf(Id("x"), place), Num(2))>>),
  << <<V(<<Num(0)>>), V(<<Num(0)>>)>>, <<V(<<Num(0)>>), V(<<Exec1("g", <<>>)>>)>> >>)

(* special.nas:18-22: a statement that is an or of two calls.               *)
OrStatement == Each(LAMBDA t :
    Program(<<Def("x", Num(0)),
              Def("f", Fn(<<>>, <<Count1("x"), Return(<<Num(1)>>)>>)),
              Apply(t, Exec1("f", <<>>), Exec1("f", <<>>)), Id("x")>>),
  <<"add", "or">>)

(* Arguments for a function without parameters.                             *)
NoParameters == <<
  Program(<<Def("f", Fn(<<>>, <<>>)), Exec1("f", <<Num(1)>>)>>) >>

-----------------------------------------------------------------------------
(* Programs for run alone: break and return out of every loop; a break of   *)
(* the outer loop before the inner one; loops with an iterator that exists. *)
Jumps == << <<>>, <<Again>>, <<Break>>, <<Return(<<Id("x")>>)>> >>
AnyInner(kind) ==
  Each(LAMBDA jump : LoopOf(kind, "j", <<At("j", jump), Apply("add_equal", Id("x"), Id("j"))>>),
       Jumps)
AnyNested(kind, inner) ==
  Cross(LAMBDA loop, jump :
          Program(<<Def("x", Num(0)),
                    Def("f", Fn(<<>>, LoopOf(kind, "i", <<At("i", jump)>> \o loop \o <<Count1("x")>>))),
                    Def("z", Exec1("f", <<>>)), Def("z", Exec1("f", <<>>))>>),
        AnyInner(inner), Jumps)
TreeLoops == FlattenSeq(Cross(AnyNested, LoopKinds, LoopKinds))

(* Slices that are kept, and an iterator that is the vector's variable.     *)
KeptSlices == Cross(LAMBDA a, b :
    Program(<<Def("x", Sliced), Def("y", CallOf(Id("x"), <<V(<<Sub(a, b), Num(0)>>)>>)), Id("y")>>),
  Bounds, Bounds)
SelfIterating ==
  <<Program(<<Def("x", Vec(<<Num(0), Num(1)>>)), Foreach(CallOf(Id("x"), <<>>), Id("x"), <<Id("x")>>), Id("x")>>)>>

(* Special values as operands, arguments that use those before them.        *)
Bindings == <<
  Program(<<Def("b", Num(1)),
            Def("f", Fn(<<Id("a"), Default("b", Id("a"))>>, <<Return(<<Id("b")>>)>>)),
            Def("y", CallOf(Id("f"), <<F(Keyed("a", Num(3)))>>))>>),
  Program(<<Def("f", Fn(<<Id("n"), Dynamic("r")>>,
              <<If2(Id("n"), <<Return(<<Exec1("f", <<Apply("sub", Id("n"), Num(1)), Id("r")>>)>>)>>),
                Return(<<Id("r")>>)>>)),
            Def("y", Exec1("f", <<Num(2), Str("a")>>))>>),
  Program(<<Def("h", Method), Def("g", CallOf(Id("h"), <<H("get")>>)), Set(Id("h"), Num(1)),
            Exec1("g", <<>>)>>),
  Program(<<Def("h", Method), Set(CallOf(Id("h"), <<H("self")>>), Id("h")),
            CallOf(Id("h"), <<H("self"), H("get"), F(<<>>)>>)>>),
  Program(<<Apply("or", Nil, Num(0)), Node("null", "", <<>>), Def("x", Apply("and", Num(1), Num(0))),
            Def("y", Apply("or", Nil, Num(0)))>>),
  Program(<<For(Set(Id("x"), Num(0)), Num(1), Absent, <<Break>>), Num(1)>>),
  Program(<<Def("x", Num(0)), For(Id("x"), Id("x"), Num(1), <<Break>>), If2(Num(1), <<Id("z")>>)>>) >>

(* A break in a function inside a loop, elements of nil.                    *)
Misplaced == <<
  Program(<<Def("x", Num(0)),
            While(Apply("less_than", Id("x"), Num(2)),
                  <<Count1("x"), Def("f", Fn(<<>>, <<Break>>)), Def("y", Exec1("f", <<>>))>>)>>),
  Program(<<Def("x", Nil), CallOf(Id("x"), <<V(<<Num(0)>>)>>)>>),
  Program(<<Def("x", Nil), Set(CallOf(Id("x"), <<V(<<Num(0)>>)>>), Num(1))>>) >>

(* Elements that are not there: -1, as a value, an argument, a default.     *)
Gone == CallOf(Id("x"), <<V(<<Num(5)>>)>>)
Missing ==
  Each(LAMBDA e : Program(<<Def("x", Vec(<<Num(1)>>)), Def("y", Vec(<<e, Num(2)>>)), Set(Id("x"), Id("y"))>>),
       <<CallOf(Id("x"), <<V(<<Num(0)>>)>>), Gone, CallOf(Id("x"), <<V(<<Num(5), Num(0)>>)>>)>>)
  \o Cross(LAMBDA ps, args :
        Program(<<Def("x", Vec(<<Num(1)>>)), Def("f", Fn(ps, <<Return(<<Last1(ps)>>)>>)),
                  Exec1("f", args), Exec1("f", args), Exec1("f", <<Str("a"), Vec(<<>>)>>), Id("x")>>),
      << <<Id("a"), Id("b")>>, <<Id("a"), Default("b", Gone)>>, <<Default("a", Nil), Default("b", Gone)>>,
         <<Id("a"), Dynamic("b")>> >>,
      << <<>>, <<Gone>>, <<Vec(<<>>)>>, <<Vec(<<>>), Gone>>, <<Gone, Vec(<<>>)>>,
         Keyed("a", Vec(<<>>)), Keyed("a", Vec(<<>>)) \o Keyed("b", Gone), Keyed("b", Gone) >>)
  \o <<Program(<<Def("x", Vec(<<>>)), Def("g", Fn(<<Id("a")>>, <<Return(<<Id("a")>>)>>)),
                  Def("f", Fn(<<Id("n")>>, <<Exec1("g", <<Gone>>),
                    If2(Id("n"), <<Exec1("f", <<Apply("sub", Id("n"), Num(1))>>), Exec1("g", <<Id("n")>>)>>),
                    Return(<<Exec1("g", <<Id("n")>>)>>)>>)),
                  Exec1("f", <<Num(1)>>), Def("y", Exec1("f", <<Num(0)>>))>>),
       Program(<<Def("h", Method), Def("x", Vec(<<>>)), CallOf(Id("h"), <<H("get"), F(<<Gone>>)>>),
                 CallOf(Id("h"), <<H("get"), F(<<>>)>>)>>)>>

(* Such calls while something else than a loop uses the value: an index, an *)
(* operator, the call itself, an assignment to a variable of that value.    *)
TakenAway == Cross(Using,
  Away,
  << CallOf(Id("x"), <<V(<<Exec1("g", <<>>)>>)>>),
     CallOf(Id("x"), <<V(<<Exec1("g", <<>>), Exec1("g", <<>>)>>)>>),
     CallOf(Id("x"), <<V(<<Sub(Exec1("g", <<>>), Num(0))>>)>>),
     Apply("cmp_equal", Id("x"), Exec1("g", <<>>)),
     Def("y", Vec(<<Id("x"), Exec1("g", <<>>), Id("x")>>)),
     Set(Id("x"), Exec1("g", <<>>)),
     SetMulti(<<Id("x"), Id("g")>>, Multi(<<Exec1("g", <<>>), Id("x")>>)),
     CallOf(Fn(<<Id("a"), Id("b")>>, <<Return(<<Id("a")>>)>>), <<F(<<Id("x"), Exec1("g", <<>>)>>)>>) >>)
Retired == <<
  Program(<<Def("f", Fn(<<>>, <<Set(Id("f"), Nil), Return(<<Num(1)>>)>>)), Exec1("f", <<>>)>>),
  Program(<<Def("f", Fn(<<Id("a")>>, <<Return(<<Id("a")>>)>>)),
            Exec1("f", <<Set(Id("f"), Nil)>>), Id("f")>>),
  Program(<<Def("h", HashOf(<<Member("f", Fn(<<>>, <<Set(Id("h"), Nil), Return(<<Id("me")>>)>>))>>)),
            Def("y", CallOf(Id("h"), <<H("f"), F(<<>>)>>))>>),
  Program(<<Def("h", Method), Def("g", Fn(<<>>, <<Return(<<Id("h")>>)>>)),
            CallOf(Id("g"), <<F(<<>>), H("get"), F(<<>>)>>)>>),
  Program(<<Def("x", Vec(<<Num(1)>>)), Def("y", Id("x")),
            Def("g", Fn(<<>>, <<Set(Id("y"), Nil), Return(<<Num(2)>>)>>)),
            Set(CallOf(Id("y"), <<V(<<Num(0)>>)>>), Exec1("g", <<>>)),
            Apply("add_equal", CallOf(Id("x"), <<V(<<Num(0)>>)>>), Num(1))>>),
  Program(<<Def("h", HashOf(<<Member("a", Vec(<<Num(1)>>)), Member("a", Vec(<<Num(2)>>))>>)),
            Def("y", CallOf(Id("h"), <<V(<<Str("a")>>), V(<<Num(0)>>)>>)), Set(Id("h"), Nil)>>) >>

(* A place, a value or a hash found without a reference, which a call takes *)
(* out of use before it is used.                                            *)
Unowned ==
  Each(LAMBDA use : Program(<<Def("x", Vec(<<Vec(<<Num(1)>>)>>)),
                              Def("g", Fn(<<>>, <<Set(Id("x"), Nil), Return(<<Num(0)>>)>>)), use>>),
       << Set(CallOf(Id("x"), <<V(<<Num(0)>>)>>), Exec1("g", <<>>)),
          Apply("add_equal", CallOf(Id("x"), <<V(<<Num(0)>>)>>), Exec1("g", <<>>)),
          Set(CallOf(Id("x"), <<V(<<Exec1("g", <<>>)>>)>>), Num(2)),
          SetMulti(<<Id("x"), CallOf(Id("x"), <<V(<<Num(0)>>)>>)>>, Multi(<<Nil, Num(2)>>)),
          CallOf(HashOf(<<Member("f", Fn(<<>>, <<Return(<<Id("me")>>)>>))>>), <<H("f"), F(<<>>)>>) >>)

TreePrograms == TreeLoops \o KeptSlices \o SelfIterating \o Bindings \o EarlyJump \o Leaving
                \o OldIterator \o Misplaced \o Missing \o TakenAway \o Retired \o Unowned
=============================================================================
