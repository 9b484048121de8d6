------------------------------ MODULE MCNasalFront ------------------------------
(***************************************************************************)
(* The texts of programs: those of NasalPrograms written out, and the same *)
(* with a token lost, doubled, moved or with everything behind it cut off. *)
(***************************************************************************)
EXTENDS NasalFront

Families == INSTANCE NasalPrograms WITH Builtin <- {}

(* How tightly an operator binds: an operand that binds less needs          *)
(* parentheses.                                                             *)
Sign == [or |-> "or", and |-> "and", cmp_equal |-> "==", cmp_not_equal |-> "!=",
         less_than |-> "<", less_equal |-> "<=", greater_than |-> ">", greater_equal |-> ">=",
         add |-> "+", sub |-> "-", link |-> "~", mult |-> "*", div |-> "/",
         equal |-> "=", add_equal |-> "+=", sub_equal |-> "-=", mult_equal |-> "*=",
         div_equal |-> "/=", link_equal |-> "~="]
Tightness(t) ==
  CASE t \in Assignments \cup {"trinocular"} -> 0
    [] t = "or" -> 1
    [] t = "and" -> 2
    [] t \in Comparisons -> 3
    [] t \in {"add", "sub", "link"} -> 4
    [] t \in {"mult", "div"} -> 5
    [] t \in {"unary_sub", "unary_not"} -> 6
    [] OTHER -> 7

RECURSIVE tokens(_)
Curved(toks) == <<"(">> \o toks \o <<")">>
Operand(node, tightness) ==
  LET negative == node.t = "number" /\ node.v # NaN /\ node.v < 0
  IN IF Tightness(node.t) < tightness \/ (negative /\ tightness = 7)
     THEN Curved(tokens(node)) ELSE tokens(node)
Joined(nodes, between) ==
  LET f[n \in 0..Len(nodes)] ==
        CASE n = 0 -> <<>> [] n = 1 -> tokens(nodes[1])
          [] OTHER -> f[n - 1] \o between \o tokens(nodes[n])
  IN f[Len(nodes)]
Numeral(n) == IF n < 0 THEN <<"-", ToString(-n)>> ELSE <<ToString(n)>>
Closed(node) == node.t \in Loops \cup {"conditional"}
Statements(nodes) ==
  LET f[n \in 0..Len(nodes)] ==
        IF n = 0 THEN <<>>
        ELSE f[n - 1] \o tokens(nodes[n]) \o (IF Closed(nodes[n]) THEN <<>> ELSE <<";">>)
  IN f[Len(nodes)]
Body(block) ==
  IF Len(block.c) = 1 /\ block.c[1].t \in {"break", "continue", "return"}
  THEN Statements(block.c) ELSE <<"{">> \o Statements(block.c) \o <<"}">>
Condition(node, word) == <<word>> \o Curved(tokens(node.c[1])) \o Body(node.c[2])

tokens(node) ==
  CASE node.t = "null" -> <<>>
    [] node.t \in {"nil", "break", "continue"} -> <<node.t>>
    [] node.t = "number" -> Numeral(node.v)
    [] node.t = "string" -> <<"\"" \o node.v \o "\"">>
    [] node.t = "identifier" -> <<node.v>>
    [] node.t = "dynamic_id" -> <<node.v, "...">>
    [] node.t = "default_arg" -> tokens(node.c[1]) \o <<"=">> \o Operand(node.c[2], 7)
    [] node.t = "vector" -> <<"[">> \o Joined(node.c, <<",">>) \o <<"]">>
    [] node.t = "hash" -> <<"{">> \o Joined(node.c, <<",">>) \o <<"}">>
    [] node.t = "hashmember" -> tokens(node.c[1]) \o <<":">> \o tokens(node.c[2])
    [] node.t = "function" -> <<"func">> \o tokens(node.c[1])
                              \o <<"{">> \o Statements(node.c[2].c) \o <<"}">>
    [] node.t \in {"args", "call_func", "multi_identifier", "multi_scalar"} ->
         Curved(Joined(node.c, <<",">>))
    [] node.t = "call" ->
         Operand(node.c[1], 7) \o Joined(Tail(node.c), <<>>)
    [] node.t = "call_vec" -> <<"[">> \o Joined(node.c, <<",">>) \o <<"]">>
    [] node.t = "call_hash" -> <<".", node.v>>
    [] node.t = "subvec" -> Joined(node.c, <<":">>)
    [] node.t = "definition" -> <<"var">> \o Joined(node.c, <<"=">>)
    [] node.t = "multi_assign" -> Joined(node.c, <<"=">>)
    [] node.t \in Assignments -> Joined(node.c, <<Sign[node.t]>>)
    [] node.t = "trinocular" ->
         Operand(node.c[1], 1) \o <<"?">> \o tokens(node.c[2]) \o <<":">> \o tokens(node.c[3])
    [] node.t = "unary_sub" -> <<"-">> \o Operand(node.c[1], 6)
    [] node.t = "unary_not" -> <<"!">> \o Operand(node.c[1], 6)
    [] node.t \in Comparisons \cup Calculations \cup {"or", "and", "link"} ->
         Operand(node.c[1], Tightness(node.t)) \o <<Sign[node.t]>>
         \o Operand(node.c[2], Tightness(node.t) + 1)
    [] node.t = "if" -> Condition(node, "if")
    [] node.t = "elsif" -> Condition(node, "elsif")
    [] node.t = "while" -> Condition(node, "while")
    [] node.t = "else" -> <<"else">> \o Body(node.c[1])
    [] node.t = "conditional" -> Joined(node.c, <<>>)
    [] node.t = "for" -> <<"for", "(">> \o Joined(SubSeq(node.c, 1, 3), <<";">>) \o <<")">> \o Body(node.c[4])
    [] node.t = "new_iter" -> <<"var">> \o tokens(node.c[1])
    [] node.t \in {"forindex", "foreach"} ->
         <<node.t>> \o Curved(Joined(SubSeq(node.c, 1, 2), <<";">>)) \o Body(node.c[3])
    [] node.t = "return" -> <<"return">> \o Joined(node.c, <<>>)
    [] node.t = "root" -> Statements(node.c)

(* A space between words and operators.                                     *)
Brackets == {"(", ")", "[", "]", "{", "}", ",", ";"}
Space(left, right) == IF {left, right} \cap Brackets = {} THEN " " ELSE ""
TextFrom(toks) ==
  LET f[n \in 0..Len(toks)] ==
        CASE n = 0 -> "" [] n = 1 -> toks[1]
          [] OTHER -> f[n - 1] \o Space(toks[n - 1], toks[n]) \o toks[n]
  IN f[Len(toks)]

-----------------------------------------------------------------------------
CONSTANT Source  \* the programs whose texts are the last files, in their order

(* Texts on their own: those that a session mixes, and numerals.            *)
Sessions == <<"x = [1, 2];", "'x", "func(){for(;;){while(x", "break; return;">>
Numerals == Families!Each(LAMBDA str : "x = " \o str \o ";",
  <<"0", "007", "10", "1.5", "2.", ".5", "1..2", "1e2", "1E2", "1e", "1e+1", "1e-1", "1e+", "2.5e1",
    "1.e2", "1e1.5", "0x", "0xaF", "0x1g", "0X1", "0o", "0o17", "0o8", "12ab", "1x">>)
Characters == <<"", " \t\n", "# x", "x # y\n = 1", "'a\"b'", "\"a\\n\"", "'a\\", "'\\''",
                "x...", "x..", "a.b", "x=-1", "x!=!y", "a<=b==c", "x ^ 1", "{a:1}", "a = \\ b",
                "var f = func(a){return a;} f(2);">>

(* Texts with one token lost, doubled or moved before the one in front of   *)
(* it, or cut off there.                                                    *)
Without(toks, n) == SubSeq(toks, 1, n - 1) \o SubSeq(toks, n + 1, Len(toks))
Doubled(toks, n) == SubSeq(toks, 1, n) \o SubSeq(toks, n, Len(toks))
Swapped(toks, n) ==
  SubSeq(toks, 1, n - 2) \o <<toks[n], toks[n - 1]>> \o SubSeq(toks, n + 1, Len(toks))
Before(toks, n) == SubSeq(toks, 1, n - 1)
DamagedAt(toks, n) ==
  <<TextFrom(Without(toks, n)), TextFrom(Doubled(toks, n)), TextFrom(Before(toks, n)),
    TextFrom(IF n = 1 THEN <<>> ELSE Swapped(toks, n))>>
RECURSIVE DamagedFrom(_, _)
DamagedFrom(toks, n) ==
  IF n > Len(toks) THEN <<>> ELSE DamagedAt(toks, n) \o DamagedFrom(toks, n + 1)
RECURSIVE DamagedTexts(_, _)
DamagedTexts(programs, n) ==
  IF n > Len(programs) THEN <<>>
  ELSE DamagedFrom(tokens(programs[n]), 1) \o DamagedTexts(programs, n + 1)

Id(n) == Families!Id(n)
One == Families!Num(1)
Called(n, es) == Families!CallOf(Id(n), <<Families!F(es)>>)
Of(n, es) == Families!CallOf(Id(n), <<Families!V(es)>>)
Samples == <<
  Families!Program(<<
    Families!Def("f", Families!Fn(<<Id("a"), Families!Default("b", One)>>,
      <<Families!Conditional(<<Families!If(Id("a"), <<Families!Return(<<Id("b")>>)>>),
          Families!Elsif(Id("b"), <<Families!Set(Id("a"), Id("c"))>>),
          Families!Else(<<Families!Return(<<>>)>>)>>)>>)),
    Families!Fn(<<Id("a"), Families!Dynamic("c")>>, <<Families!Return(<<Id("c")>>)>>),
    Called("f", <<Id("x"), Families!Nil>>)>>),
  Families!Program(<<
    Families!For(Families!Def("i", One), Families!Apply("less_than", Id("i"), Id("n")),
                 Families!Count1("i"),
      <<Families!If2(Id("i"), <<Families!Again>>),
        Families!Forindex(Families!NewIter("j"), Id("v"), <<Families!Break>>)>>),
    Families!Foreach(Of("x", <<One>>), Called("f", <<>>),
                     <<Families!While(Id("x"), <<Id("y"), Families!Absent>>)>>)>>),
  Families!Program(<<
    Families!DefMulti(<<Id("x"), Id("y")>>, Families!Multi(<<One, Families!Vec(<<One>>)>>)),
    Families!SetMulti(<<Id("x"), Of("y", <<One>>)>>, Families!Multi(<<Id("y"), Id("x")>>)),
    Families!Def("z", Of("x", <<Families!Sub(One, Families!Nil), Id("y")>>))>>),
  Families!Program(<<
    Families!Def("h", Families!HashOf(<<Families!Member("a", One),
      Families!Member("b", Families!Fn(<<>>, <<Families!Return(<<Id("me")>>)>>))>>)),
    Families!CallOf(Id("h"), <<Families!H("b"), Families!F(<<Families!Member("c", One)>>)>>),
    Families!Apply("add_equal", Families!CallOf(Id("h"), <<Families!H("a"), Families!V(<<One>>)>>),
      Families!Node("trinocular", "", <<Id("x"), One, Families!Str("s")>>))>>),
  Families!Program(<<
    Families!Set(Id("x"), Families!Apply("or",
      Families!Apply("and", Id("a"), Families!Node("unary_not", "", <<Id("b")>>)),
      Families!Apply("link",
        Families!Apply("mult", Id("c"),
                       Families!Apply("sub", Families!Apply("sub", Id("d"), One), Id("a"))),
        Families!Node("unary_sub", "", <<Id("e")>>)))),
    Families!For(Families!Absent, Families!Absent, Families!Absent, <<Families!Break>>)>>) >>

AllPrograms == Families!Programs \o Families!TreePrograms \o Samples
AloneTexts == Sessions \o Numerals \o Characters
AllTexts ==
  LET source == AllPrograms
  IN AloneTexts \o DamagedTexts(Samples, 1)
     \o [i \in DOMAIN source |-> TextFrom(tokens(source[i]))]
MCSource == AllPrograms
MCText == AllTexts
MCMixed == DOMAIN Sessions

(* A literal that is an operand, or that is calculated before it is run.    *)
Run == INSTANCE NasalValue
RECURSIVE HasFolding(_)
HasFolding(node) ==
  \/ node.t \in Binary \ {"or"} /\ Folded(node.t, node.c[1], node.c[2]).t # node.t
  \/ node.t \in {"unary_sub", "unary_not"} /\ IsLiteral(node.c[1])
  \/ \E i \in DOMAIN node.c : HasFolding(node.c[i])

(* The program whose text was parsed.                                       *)
Written == inputfile - (Len(Text) - Len(Source))
IsWritten == outcome # Nothing /\ Written \in DOMAIN Source

(* A text that is written from a tree is accepted and parsed to that tree:  *)
(* operators bind as tightly as parentheses are left out, statements end    *)
(* where they should, and every call and branch is where it was.            *)
ReadBack ==
  [][ IsWritten' /\ ~HasFolding(Source[Written']) =>
        outcome' = HandsOver(Source[Written']) ]_front

(* What the parser calculates beforehand is what run would calculate, but   *)
(* that nil <= nil and nil >= nil hold only for the parser.                 *)
First(tree) == LET s == tree.c[1] IN IF s.t = "definition" THEN s.c[2] ELSE s
NilWithNil(node) == node.t \in {"less_equal", "greater_equal"} /\ node.c[1].t = "nil" /\ node.c[2].t = "nil"
FoldingAgrees ==
  [][ (IsWritten /\ HandedOver)' /\ HasFolding(Source[Written']) =>
        \/ NilWithNil(First(Source[Written']))
        \/ Cardinality(Run!Values({First(Source[Written']), First(outcome'.root)})) = 1 ]_front
=============================================================================
