------------------------------- MODULE NasalParse -------------------------------
(***************************************************************************)
(* The parser (nasal_parse.h): tokens to a syntax tree.                    *)
(*                                                                         *)
(* Each method of the source is an operator from the state of the parser   *)
(* to the state after it, in which node is the tree that it returns.       *)
(* Where an operator ends, ptr is at the last token of what it has read.   *)
(* Trees are the records of NasalCodegen; lines are left out, and errors   *)
(* are told apart from none only.                                          *)
(***************************************************************************)
EXTENDS NasalScalar, SequencesExt

Node(t, v, c) == [t |-> t, v |-> v, c |-> c]
Null == Node("null", "", <<>>)
NilNode == Node("nil", "", <<>>)

(* The parser.  node is its root between two texts; over: a token or a      *)
(* child was read that is not there.                                        *)
NoParser == [toks |-> <<>>, ptr |-> 1, error |-> FALSE, in_loop |-> 0, in_function |-> 0,
             over |-> FALSE, node |-> Null]
clear(p) == NoParser
set_toklist(p, toks) == [p EXCEPT !.toks = toks]

(* Mutant: the error of the last text stays. *)
ResetKeepsError(p) ==
  [p EXCEPT !.ptr = 1, !.in_function = 0, !.in_loop = 0, !.over = FALSE, !.node = Null]

reset(p) ==
  [p EXCEPT !.ptr = 1, !.in_function = 0, !.in_loop = 0, !.error = FALSE,
            !.over = FALSE, !.node = Null]

Ends(s) == s.ptr > Len(s.toks)
Is(s, types) == ~Ends(s) /\ s.toks[s.ptr].type \in types
NextIs(s, types) == s.ptr < Len(s.toks) /\ s.toks[s.ptr + 1].type \in types
Kind(s) == s.toks[s.ptr].type
Word(s) == s.toks[s.ptr].str

Skip(s) == [s EXCEPT !.ptr = @ + 1]
Back(s) == [s EXCEPT !.ptr = @ - 1]
die(s) == [s EXCEPT !.error = TRUE]
Expect(s, types) == IF Is(s, types) THEN s ELSE die(s)
DieUnless(s, cond) == IF cond THEN s ELSE die(s)
Over(s) == [s EXCEPT !.over = TRUE]
Gives(s, node) == [s EXCEPT !.node = node]
Begin(s, t) == Gives(s, Node(t, "", <<>>))

(* The state after one more child of the node of s.                         *)
Adds(s, one) == [one EXCEPT !.node = [s.node EXCEPT !.c = Append(@, one.node)]]

(* What is parsed is a rule, with what it needs to know behind it.          *)
RECURSIVE parse(_, _)
Parse(s, rule) == parse(s, <<rule>>)
Child(s, rule) == Adds(s, Parse(s, rule))

-----------------------------------------------------------------------------
(* Looking ahead.                                                           *)

check_multi_definition(s) == NextIs(s, {"var"})

(* The tokens behind the open parenthesis at ptr, inside it and in nothing  *)
(* else, up to where it is closed.                                          *)
Inside(s) ==
  LET Step(type, open, close) == IF type = open THEN 1 ELSE IF type = close THEN -1 ELSE 0
      f[i \in s.ptr..Len(s.toks)] ==
        IF i = s.ptr THEN [open |-> TRUE, curve |-> 1, bracket |-> 0, brace |-> 0]
        ELSE LET d == f[i - 1]
                 type == s.toks[i].type
             IN [open |-> d.open /\ d.curve # 0,
                 curve |-> d.curve + Step(type, "(", ")"),
                 bracket |-> d.bracket + Step(type, "[", "]"),
                 brace |-> d.brace + Step(type, "{", "}")]
  IN {i \in (s.ptr + 1)..Len(s.toks) :
        f[i] = [open |-> TRUE, curve |-> 1, bracket |-> 0, brace |-> 0]}

check_multi_scalar(s) == \E i \in Inside(s) : s.toks[i].type = ","

(* f(a:1), but not f(m ? 1 : 0).                                            *)
check_special_call(s) ==
  LET inside == Inside(s)
  IN \E i \in inside : /\ s.toks[i].type = ":"
                       /\ \A j \in inside : j < i => s.toks[j].type # "?"

AssignmentOf == ("=" :> "equal") @@ ("+=" :> "add_equal") @@ ("-=" :> "sub_equal")
                @@ ("*=" :> "mult_equal") @@ ("/=" :> "div_equal") @@ ("~=" :> "link_equal")
Assignments == {AssignmentOf[op] : op \in DOMAIN AssignmentOf}

RECURSIVE check_function_end(_)
check_function_end(node) ==
  \/ node.t = "function"
  \/ /\ node.t \in Assignments \cup {"definition"}
     /\ node.c # <<>>
     /\ check_function_end(Last(node.c))

need_semi_check(node) ==
  /\ node.t \notin {"for", "foreach", "forindex", "while", "conditional"}
  /\ ~check_function_end(node)

-----------------------------------------------------------------------------
(* Lists between brackets.  What is behind an item and no comma ends them.  *)

items(s, item, close) ==
  LET one == Skip(Child(s, item))
  IN CASE Ends(s) \/ Is(s, {close}) -> s
       [] ~(Ends(s) \/ Is(s, {close})) /\ Is(one, {","}) ->
            parse(Skip(one), <<"items", item, close>>)
       [] OTHER -> one
list(s, t, item, close) == Expect(items(Skip(Begin(s, t)), item, close), {close})

vector_gen(s) == list(s, "vector", "calculation", "]")
hash_gen(s) == list(s, "hash", "hash_member_gen", "}")

id_gen(s) == Gives(s, Node("identifier", Word(s), <<>>))
string_gen(s) == Gives(s, Node("string", Word(s), <<>>))
number_gen(s) == Gives(s, Node("number", StringNumber(Word(s)), <<>>))

hash_member_gen(s) ==
  LET key == Adds(Begin(s, "hashmember"), IF Is(s, {"string"}) THEN string_gen(s) ELSE id_gen(s))
      colon == Skip(key)
  IN CASE ~Is(s, {"identifier", "string"}) -> die(Gives(s, Null))
       [] Is(s, {"identifier", "string"}) /\ ~Is(colon, {":"}) -> die(colon)
       [] OTHER -> IF Ends(Skip(colon)) THEN die(Skip(colon)) ELSE Child(Skip(colon), "calculation")

-----------------------------------------------------------------------------
(* Functions.                                                               *)

func_gen(s) ==
  LET at == Skip(Begin(s, "function"))
      args == IF Is(at, {"("}) THEN Skip(Child(at, "args_list_gen")) ELSE Adds(at, Gives(at, Null))
  IN CASE ~Is(at, {"(", "{"}) -> die(at)
       [] Is(at, {"(", "{"}) /\ Ends(args) -> die(args)
       [] OTHER -> Child(args, "exprs_gen")

(* a, a = scalar or a... ; the scalar is read without asking for the end.   *)
parameter(s) ==
  LET id == id_gen(s)
      next == Skip(id)
      default == Skip(Gives(next, Node("default_arg", "", <<id.node>>)))
  IN CASE Is(next, {"="}) -> IF Ends(default) THEN Over(die(default)) ELSE Child(default, "scalar")
       [] Is(next, {"..."}) -> Gives(next, Node("dynamic_id", Word(s), <<>>))
       [] OTHER -> id

ParameterName(p) == IF p.t = "default_arg" THEN p.c[1].v ELSE p.v
ParametersAllowed(ps) ==
  /\ \A i, j \in DOMAIN ps : i < j /\ ps[i].t = "default_arg" => ps[j].t = "default_arg"
  /\ \A i \in DOMAIN ps : ps[i].t = "dynamic_id" => i = Len(ps)
  /\ \A i, j \in DOMAIN ps : ParameterName(ps[i]) = ParameterName(ps[j]) => i = j
check_parameters(s) == IF Is(s, {")"}) THEN DieUnless(s, ParametersAllowed(s.node.c)) ELSE die(s)

parameters(s) ==
  LET one == Skip(Adds(s, parameter(s)))
  IN CASE Ends(s) \/ Is(s, {")"}) -> check_parameters(s)
       [] ~(Ends(s) \/ Is(s, {")"})) /\ ~Is(s, {"identifier"}) -> die(s)
       [] OTHER -> IF Is(one, {","}) THEN Parse(Skip(one), "parameters") ELSE check_parameters(one)
args_list_gen(s) == parameters(Skip(Begin(s, "args")))

-----------------------------------------------------------------------------
(* Statements.                                                              *)

Operands == {"nil", "number", "string", "identifier", "func", "[", "{", "-", "!"}
Loops == {"while", "for", "forindex", "foreach"}

(* What a parenthesis at the start of a statement opens.                    *)
Opening(s) ==
  CASE check_multi_definition(s) -> "definition"
    [] ~check_multi_definition(s) /\ check_multi_scalar(s) -> "multi_assgin"
    [] OTHER -> "calculation"

(* An empty statement is null, and ptr stays before its semicolon.          *)
jump(s) == IF s.in_loop = 0 THEN die(Gives(s, Null)) ELSE Begin(s, Kind(s))
return(s) == IF s.in_function = 0 THEN die(Gives(s, Null)) ELSE Parse(s, "return_expr")
expr(s) ==
  LET kind == Kind(s)
  IN CASE kind \in {"break", "continue"} -> jump(s)
       [] kind = "return" -> return(s)
       [] kind \in Operands -> Parse(s, "calculation")
       [] kind = "var" -> Parse(s, "definition")
       [] kind = "(" -> Parse(s, Opening(s))
       [] kind \in Loops -> Parse(s, "loop")
       [] kind = "if" -> Parse(s, "conditional")
       [] kind = ";" -> Back(Gives(s, Null))
       [] OTHER -> die(Gives(s, Null))

statements(s) ==
  LET one == Skip(Child(s, "expr"))
  IN CASE Ends(s) \/ Is(s, {"}"}) -> s
       [] ~(Ends(s) \/ Is(s, {"}"})) /\ Ends(one) -> one
       [] ~(Ends(s) \/ Is(s, {"}"})) /\ Is(one, {";"}) -> Parse(Skip(one), "statements")
       [] OTHER -> IF need_semi_check(Last(one.node.c)) /\ ~Is(one, {"}"})
                   THEN die(one) ELSE Parse(one, "statements")

(* A block of one statement takes the semicolon behind it.                  *)
exprs_gen(s) ==
  LET one == Skip(Child(Begin(s, "block"), "expr"))
  IN CASE Ends(s) -> die(Gives(s, Null))
       [] Is(s, {"{"}) -> Expect(statements(Skip(Begin(s, "block"))), {"}"})
       [] OTHER -> IF Is(one, {";"}) THEN one ELSE Back(one)

program(s) ==
  LET one == Skip(Child(s, "expr"))
      last == Last(one.node.c)
      ended == IF Is(one, {";"}) THEN Skip(one) ELSE DieUnless(one, ~need_semi_check(last))
  IN CASE Ends(s) -> s
       [] ~Ends(s) /\ Ends(one) -> one
       [] OTHER -> Parse(DieUnless(ended, last.t \notin {"continue", "break", "return"}), "program")
main_process(p) == program(Begin(reset(p), "root"))

-----------------------------------------------------------------------------
(* Expressions.                                                             *)

trinocular(s) ==
  LET yes == Skip(Gives(s, Node("trinocular", "", <<s.node>>)))
      colon == Skip(Child(yes, "calculation"))
      no == Skip(colon)
  IN CASE Ends(yes) -> die(Gives(yes, s.node))
       [] ~Ends(yes) /\ ~Is(colon, {":"}) -> die(Gives(colon, s.node))
       [] OTHER -> IF Ends(no) THEN die(no) ELSE Child(no, "calculation")

(* What is assigned to is a variable, or an element or a member of one.     *)
(* The check for a slice reads the first index of every [].                 *)
ReachesMemory(node) ==
  CASE node.t = "identifier" -> TRUE
    [] node.t = "call" ->
         /\ node.c[1].t = "identifier"
         /\ \A i \in DOMAIN node.c :
              /\ node.c[i].t # "call_func"
              /\ node.c[i].t = "call_vec" =>
                   Len(node.c[i].c) <= 1 /\ \A j \in DOMAIN node.c[i].c : node.c[i].c[j].t # "subvec"
    [] OTHER -> FALSE
HasEmptyIndex(node) ==
  node.t = "call" /\ \E i \in DOMAIN node.c : node.c[i].t = "call_vec" /\ node.c[i].c = <<>>

assignment(s) ==
  LET checked == DieUnless(IF HasEmptyIndex(s.node) THEN Over(s) ELSE s, ReachesMemory(s.node))
      value == Skip(Gives(checked, Node(AssignmentOf[Kind(s)], "", <<s.node>>)))
  IN IF Ends(value) THEN die(value) ELSE Child(value, "calculation")

calculation(s) ==
  LET left == Parse(s, "or_expr")
      next == Skip(left)
  IN CASE Ends(s) -> die(Gives(s, Null))
       [] ~Ends(s) /\ Is(next, {"?"}) -> trinocular(next)
       [] ~Ends(s) /\ Is(next, DOMAIN AssignmentOf) -> assignment(next)
       [] OTHER -> left

(* The binary operators, the weakest first, each with the rule of its       *)
(* operands.                                                                *)
OperatorOf == ("or" :> "or") @@ ("and" :> "and") @@ ("==" :> "cmp_equal") @@ ("!=" :> "cmp_not_equal")
  @@ ("<" :> "less_than") @@ ("<=" :> "less_equal") @@ (">" :> "greater_than")
  @@ (">=" :> "greater_equal") @@ ("+" :> "add") @@ ("-" :> "sub") @@ ("~" :> "link")
  @@ ("*" :> "mult") @@ ("/" :> "div")
Level == [
  or_expr |-> [ops |-> {"or"}, below |-> "and_expr"],
  and_expr |-> [ops |-> {"and"}, below |-> "cmp_expr"],
  cmp_expr |-> [ops |-> {"==", "!=", "<", "<=", ">", ">="}, below |-> "additive_expr"],
  additive_expr |-> [ops |-> {"+", "-", "~"}, below |-> "multive_expr"],
  multive_expr |-> [ops |-> {"*", "/"}, below |-> "operand"] ]

(* What a literal is worth.                                                 *)
IsLiteral(node) == node.t \in {"number", "string"}
NumberOf(node) == IF node.t = "number" THEN node.v ELSE StringNumber(node.v)
TextOf(node) == IF node.t = "number" THEN NumberString(node.v) ELSE node.v
IsZero(node) ==
  node.t = "nil" \/ (IsLiteral(node) /\ (NumberOf(node) = 0 \/ TextOf(node) = ""))
IsText(node) == node.t = "string" /\ NumberOf(node) = NaN
Constant(n) == Node("number", n, <<>>)

Comparisons == {OperatorOf[op] : op \in Level.cmp_expr.ops}
Calculations == {"add", "sub", "mult", "div"}
NumberOrder(x, y) ==
  [less |-> NumberLess(x, y), equal |-> NumberEqual(x, y), greater |-> NumberLess(y, x)]
StringOrder(x, y) == [less |-> StringLess(x, y), equal |-> x = y, greater |-> StringLess(y, x)]

(* Mutant: strings that are numbers are compared as numbers. *)
NumericOrder(x, y) ==
  CASE "nil" \in {x.t, y.t} -> [less |-> FALSE, equal |-> x.t = y.t, greater |-> FALSE]
    [] "nil" \notin {x.t, y.t} /\ {IsText(x), IsText(y)} = {TRUE} -> StringOrder(x.v, y.v)
    [] OTHER -> NumberOrder(NumberOf(x), NumberOf(y))

OrderOf(x, y) ==
  CASE "nil" \in {x.t, y.t} -> [less |-> FALSE, equal |-> x.t = y.t, greater |-> FALSE]
    [] x.t = "string" /\ y.t = "string" -> StringOrder(x.v, y.v)
    [] OTHER -> NumberOrder(NumberOf(x), NumberOf(y))
Compares(op, order) ==
  CASE op = "cmp_equal" -> order.equal
    [] op = "cmp_not_equal" -> ~order.equal
    [] op = "less_than" -> order.less
    [] op = "less_equal" -> order.less \/ order.equal
    [] op = "greater_than" -> order.greater
    [] op = "greater_equal" -> order.greater \/ order.equal

(* Literals are calculated while they are parsed.                           *)
Folded(op, x, y) ==
  CASE op = "and" /\ (IsZero(x) \/ IsZero(y)) -> Constant(0)
    [] op \in Comparisons /\ {x.t, y.t} \subseteq {"nil", "number", "string"} ->
         Constant(Bool(Compares(op, OrderOf(x, y))))
    [] op \in Calculations /\ IsLiteral(x) /\ IsLiteral(y) ->
         Constant(Arithmetic(IF op = "mult" THEN "mul" ELSE op, NumberOf(x), NumberOf(y)))
    [] op = "link" /\ IsLiteral(x) /\ IsLiteral(y) -> Node("string", TextOf(x) \o TextOf(y), <<>>)
    [] OTHER -> Node(op, "", <<x, y>>)

(* A string that is no number cannot be calculated with; in a comparison    *)
(* only the right operand is looked at.                                     *)
FoldFails(op, x, y) ==
  \/ op \in Calculations /\ IsLiteral(x) /\ IsLiteral(y) /\ (IsText(x) \/ IsText(y))
  \/ op \in {"less_than", "greater_than"} /\ x.t = "nil" /\ y.t = "nil"
  \/ op \in Comparisons /\ {x.t, y.t} = {"number", "string"} /\ NumberOf(y) = NaN

FoldedUnary(op, x) ==
  CASE ~IsLiteral(x) \/ (op = "unary_sub" /\ IsText(x)) -> Node(op, "", <<x>>)
    [] op = "unary_sub" /\ IsLiteral(x) /\ ~IsText(x) -> Constant(Negative(NumberOf(x)))
    [] op = "unary_not" /\ IsText(x) -> Constant(Bool(x.v = ""))
    [] OTHER -> Constant(Bool(NumberOf(x) = 0))

(* Mutant: a text may end behind a sign. *)
UnaryOfNothing(s) ==
  LET op == IF Is(s, {"-"}) THEN "unary_sub" ELSE "unary_not"
      of == Parse(Skip(s), "operand")
  IN IF Ends(Skip(s)) THEN Over(Skip(s))
     ELSE DieUnless(Gives(of, FoldedUnary(op, of.node)), ~(op = "unary_sub" /\ IsText(of.node)))

unary(s) ==
  LET op == IF Is(s, {"-"}) THEN "unary_sub" ELSE "unary_not"
      of == Parse(Skip(s), "operand")
  IN IF Ends(Skip(s)) THEN Over(die(Skip(s)))
     ELSE DieUnless(Gives(of, FoldedUnary(op, of.node)), ~(op = "unary_sub" /\ IsText(of.node)))

(* With no operand behind an operator at the end of the text, all but the   *)
(* methods for or and for * and / look at it all the same.                  *)
operand_missing(s, level, left) ==
  CASE level = "or_expr" -> die(Gives(s, Node("or", "", <<left>>)))
    [] level = "multive_expr" -> die(Back(s))
    [] OTHER -> Over(die(s))

(* Mutant: operators of a level are grouped from the right. *)
RightToLeft(s, level) ==
  LET at == Skip(s)
      op == OperatorOf[Kind(s)]
      right == Parse(at, level)
  IN CASE ~Is(s, Level[level].ops) -> Back(s)
       [] Is(s, Level[level].ops) /\ Ends(at) -> operand_missing(at, level, s.node)
       [] OTHER -> DieUnless(Gives(right, Folded(op, s.node, right.node)),
                             ~FoldFails(op, s.node, right.node))

operators(s, level) ==
  LET at == Skip(s)
      op == OperatorOf[Kind(s)]
      right == Parse(at, Level[level].below)
      both == Gives(right, Folded(op, s.node, right.node))
  IN CASE ~Is(s, Level[level].ops) -> Back(s)
       [] Is(s, Level[level].ops) /\ Ends(at) -> operand_missing(at, level, s.node)
       [] OTHER -> parse(Skip(DieUnless(both, ~FoldFails(op, s.node, right.node))),
                         <<"operators", level>>)
binary(s, level) == operators(Skip(Parse(s, Level[level].below)), level)

-----------------------------------------------------------------------------
(* Scalars and what is called of them.                                      *)

CallTokens == {"(", "[", "."}

call_hash(s) ==
  LET name == Skip(s)
  IN IF Is(name, {"identifier"}) THEN Gives(name, Node("call_hash", Word(name), <<>>))
     ELSE die(Begin(name, "call_hash"))
call_vector(s) == list(s, "call_vec", "subvec", "]")
call_func(s) ==
  list(s, "call_func", IF check_special_call(s) THEN "hash_member_gen" ELSE "calculation", ")")
call_scalar(s) ==
  CASE Is(s, {"("}) -> call_func(s) [] Is(s, {"["}) -> call_vector(s) [] Is(s, {"."}) -> call_hash(s)

calls(s) == IF Is(s, CallTokens) THEN Parse(Skip(Adds(s, call_scalar(s))), "calls") ELSE Back(s)

(* An end that is left out is nil, and its token is looked at again.        *)
subvec_end(s, absent) ==
  IF Is(s, absent) THEN Back(Gives(s, NilNode)) ELSE Parse(s, "calculation")
subvec(s) ==
  LET begin == Skip(subvec_end(s, {":"}))
      end == subvec_end(Skip(begin), {",", "]"})
  IN CASE ~Is(begin, {":"}) -> Back(begin)
       [] Is(begin, {":"}) /\ Ends(Skip(begin)) -> Skip(begin)
       [] OTHER -> Gives(end, Node("subvec", "", <<begin.node, end.node>>))

curve(s) ==
  Expect(Skip(IF Ends(Skip(s)) THEN die(Gives(Skip(s), Null)) ELSE Parse(Skip(s), "calculation")),
         {")"})
function(s) ==
  LET func == func_gen([s EXCEPT !.in_function = @ + 1])
  IN [func EXCEPT !.in_function = @ - 1]

(* func before an identifier is left out.                                   *)
first_scalar(s) ==
  LET kind == Kind(s)
  IN CASE kind = "nil" -> Gives(s, NilNode)
       [] kind = "number" -> number_gen(s)
       [] kind = "string" -> string_gen(s)
       [] kind = "identifier" -> id_gen(s)
       [] kind = "func" -> IF NextIs(s, {"identifier"}) THEN id_gen(Skip(s)) ELSE function(s)
       [] kind = "[" -> vector_gen(s)
       [] kind = "{" -> hash_gen(s)
       [] kind = "(" -> curve(s)

scalar(s) ==
  LET first == Skip(first_scalar(s))
      called == Gives(first, Node("call", "", <<first.node>>))
  IN IF ~Is(s, {"nil", "number", "string", "identifier", "func", "[", "{", "("})
     THEN die(Gives(s, Null))
     ELSE calls(IF Is(first, CallTokens) THEN called ELSE first)

-----------------------------------------------------------------------------
(* Definitions and assignments of several values.                           *)

(* Any token behind a comma is taken for an identifier.                     *)
multi_id(s) ==
  LET one == Skip(Adds(s, id_gen(s)))
  IN CASE ~Is(one, {","}) -> Back(one)
       [] Is(one, {","}) /\ Ends(Skip(one)) -> Skip(one)
       [] OTHER -> Parse(Skip(one), "multi_id")
var_curve_def(s) ==
  IF Is(s, {"identifier"}) THEN Expect(Skip(multi_id(Begin(s, "multi_identifier"))), {")"})
  ELSE die(Gives(s, Null))

defined(s) ==
  LET name == Skip(s)
  IN CASE Is(s, {"("}) -> Adds(s, var_curve_def(Skip(Skip(s))))
       [] Is(s, {"var"}) /\ Is(name, {"identifier"}) -> Adds(name, id_gen(name))
       [] Is(s, {"var"}) /\ Is(name, {"("}) -> Adds(name, var_curve_def(Skip(name)))
       [] OTHER -> die(IF Ends(name) THEN Over(name) ELSE name)

multi_scalar(s) == list(s, "multi_scalar", "calculation", ")")
SameSize(node) ==
  node.c[2].t = "multi_scalar" /\ node.c[1].t \in {"multi_identifier", "multi_scalar"} =>
    Len(node.c[1].c) = Len(node.c[2].c)
OneForOne(node) == ~(node.c[1].t = "identifier" /\ node.c[2].t = "multi_scalar")

(* The = and what is behind it.                                             *)
values(s) ==
  LET equal == Skip(s)
      value == Skip(equal)
      both == Adds(value, IF Is(value, {"("}) /\ check_multi_scalar(value) THEN multi_scalar(value)
                          ELSE Parse(value, "calculation"))
  IN CASE ~Is(equal, {"="}) -> die(equal)
       [] Is(equal, {"="}) /\ Ends(value) -> die(value)
       [] OTHER -> DieUnless(both, SameSize(both.node) /\ OneForOne(both.node))

definition(s) ==
  LET names == defined(Begin(s, "definition"))
  IN IF names.node.c = <<>> THEN names ELSE values(names)

multi_assgin(s) ==
  LET left == multi_scalar(s)
      reach == \A i \in DOMAIN left.node.c : left.node.c[i].t \in {"call", "identifier"}
  IN values(Adds(Begin(s, "multi_assign"), DieUnless(left, reach)))

-----------------------------------------------------------------------------
(* Loops and conditions.                                                    *)

(* A condition between parentheses and a block: two children, if nothing is *)
(* missing before the block.                                                *)
guarded(s) ==
  LET open == Skip(s)
      close == Skip(Child(Skip(open), "calculation"))
  IN CASE ~Is(open, {"("}) -> die(open)
       [] Is(open, {"("}) /\ ~Is(close, {")"}) -> die(close)
       [] OTHER -> Child(Skip(close), "exprs_gen")

while_loop(s) == guarded(Begin(s, "while"))

(* Mutant: a part that is left out is no child. *)
PartLeftOut(s, rule, close) ==
  CASE Ends(s) -> die(s)
    [] Is(s, {close}) -> s
    [] OTHER -> Expect(Skip(Child(s, rule)), {close})

for_part(s, rule, close) ==
  CASE Ends(s) -> die(s)
    [] Is(s, {close}) -> Adds(s, Gives(s, Null))
    [] OTHER -> Expect(Skip(Child(s, rule)), {close})
for_first(s) ==
  Parse(s, CASE Is(s, {"var"}) -> "definition" [] Is(s, {"("}) -> Opening(s) [] OTHER -> "calculation")
for_loop(s) ==
  LET open == Skip(Begin(s, "for"))
      first == for_part(Skip(open), "for_first", ";")
      second == for_part(Skip(first), "calculation", ";")
      third == for_part(Skip(second), "calculation", ")")
  IN IF ~Is(open, {"("}) THEN die(open)
     ELSE IF ~Is(first, {";"}) THEN first
     ELSE IF ~Is(second, {";"}) THEN second
     ELSE IF ~Is(third, {")"}) THEN third
     ELSE Child(Skip(third), "exprs_gen")

new_iter_gen(s) ==
  LET id == Skip(Begin(s, "new_iter"))
  IN CASE Is(s, {"var"}) /\ Is(id, {"identifier"}) -> Adds(id, id_gen(id))
       [] Is(s, {"var"}) /\ ~Is(id, {"identifier"}) -> die(id)
       [] OTHER -> calls(Skip(Gives(s, Node("call", "", <<id_gen(s).node>>))))
forei_loop(s) ==
  LET open == Skip(Begin(s, Kind(s)))
      at == Skip(open)
      semi == Skip(Adds(at, new_iter_gen(at)))
      close == Skip(Child(Skip(semi), "calculation"))
  IN IF ~Is(open, {"("}) THEN die(open)
     ELSE IF ~Is(at, {"var", "identifier"}) THEN die(at)
     ELSE IF ~Is(semi, {";"}) THEN die(semi)
     ELSE IF Ends(Skip(semi)) THEN die(Skip(semi))
     ELSE IF ~Is(close, {")"}) THEN die(close)
     ELSE Child(Skip(close), "exprs_gen")

loop(s) ==
  LET inside == [s EXCEPT !.in_loop = @ + 1]
      after == CASE Is(s, {"while"}) -> while_loop(inside)
                 [] Is(s, {"for"}) -> for_loop(inside)
                 [] OTHER -> forei_loop(inside)
  IN [after EXCEPT !.in_loop = @ - 1]

(* The node of s is the conditional, and each branch one more child.        *)
branch(s, t) ==
  LET one == guarded(Begin(s, t))
  IN IF Len(one.node.c) = 2 THEN Parse(Skip(Adds(s, one)), "branches") ELSE Gives(one, s.node)
branches(s) ==
  CASE Is(s, {"elsif"}) -> branch(s, "elsif")
    [] Is(s, {"else"}) /\ NextIs(s, {"if"}) -> branch(Skip(s), "elsif")
    [] Is(s, {"else"}) /\ ~NextIs(s, {"if"}) ->
         Adds(s, Child(Skip(Begin(s, "else")), "exprs_gen"))
    [] OTHER -> Back(s)
conditional(s) == branch(Begin(s, "conditional"), "if")

return_expr(s) ==
  LET at == Skip(Begin(s, "return"))
  IN CASE Ends(at) -> at
       [] Is(at, Operands \cup {"("}) -> Child(at, "calculation")
       [] OTHER -> Back(at)

-----------------------------------------------------------------------------
parse(s, rule) ==
  CASE rule[1] = "program" -> program(s)
    [] rule[1] = "statements" -> statements(s)
    [] rule[1] = "expr" -> expr(s)
    [] rule[1] = "exprs_gen" -> exprs_gen(s)
    [] rule[1] = "calculation" -> calculation(s)
    [] rule[1] \in DOMAIN Level -> binary(s, rule[1])
    [] rule[1] = "operators" -> operators(s, rule[2])
    [] rule[1] = "operand" -> IF Is(s, {"-", "!"}) THEN unary(s) ELSE scalar(s)
    [] rule[1] = "scalar" -> scalar(s)
    [] rule[1] = "calls" -> calls(s)
    [] rule[1] = "items" -> items(s, rule[2], rule[3])
    [] rule[1] = "subvec" -> subvec(s)
    [] rule[1] = "hash_member_gen" -> hash_member_gen(s)
    [] rule[1] = "args_list_gen" -> args_list_gen(s)
    [] rule[1] = "parameters" -> parameters(s)
    [] rule[1] = "definition" -> definition(s)
    [] rule[1] = "multi_id" -> multi_id(s)
    [] rule[1] = "multi_assgin" -> multi_assgin(s)
    [] rule[1] = "loop" -> loop(s)
    [] rule[1] = "for_first" -> for_first(s)
    [] rule[1] = "conditional" -> conditional(s)
    [] rule[1] = "branches" -> branches(s)
    [] rule[1] = "return_expr" -> return_expr(s)
=============================================================================
