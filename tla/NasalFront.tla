------------------------------- MODULE NasalFront -------------------------------
(***************************************************************************)
(* The first stages of the commands of main.cpp: a file is opened, cut     *)
(* into tokens and parsed, and its tree goes on to the linker.  The lexer  *)
(* and the parser are objects that all the commands of a session share.    *)
(***************************************************************************)
EXTENDS NasalParse

CONSTANTS
  Text,   \* the texts of the files: their names are 1..Len(Text)
  Mixed   \* bound: the files that a session opens one after the other

VARIABLES
  inputfile,  \* the name that was input last
  lexer,
  parser,
  outcome     \* of the last command: the stage that failed, or the tree

Lexer == INSTANCE NasalLexer

front == <<inputfile, lexer, parser, outcome>>

NoFile == 0  \* the name "null", which no file has
Ended(stage) == [stage |-> stage, root |-> Null]
HandsOver(root) == [stage |-> "linker", root |-> root]
Nothing == Ended("none")

Found(file) == file \in DOMAIN Text
Content(file) == IF Found(file) THEN Text[file] ELSE ""

(* Every file can be the first of a session, and only those of Mixed come   *)
(* after others, or have commands that do not parse them.                   *)
Fresh == front = <<NoFile, Lexer!NoLexer, NoParser, Nothing>>
Going == inputfile \in Mixed \cup {NoFile}
Input ==
  /\ \E file \in DOMAIN Text \cup {NoFile} :
       /\ Fresh \/ {file, inputfile} \subseteq Mixed \cup {NoFile}
       /\ inputfile' = file
  /\ outcome' = Nothing
  /\ UNCHANGED <<lexer, parser>>

del_func ==
  /\ Going
  /\ lexer' = Lexer!clear(lexer)
  /\ parser' = clear(parser)
  /\ inputfile' = NoFile
  /\ outcome' = Nothing

Scans == lexer' = Lexer!scanner(Lexer!openfile(lexer, Found(inputfile), Content(inputfile)))

lex_func ==
  /\ Going
  /\ Scans
  /\ outcome' = IF lexer'.error THEN Ended("lexer") ELSE Nothing
  /\ UNCHANGED <<inputfile, parser>>

(* The commands ast, run, code and exec begin in the same way.              *)
Parses == parser' = main_process(set_toklist(parser, lexer'.token_list))
execute ==
  /\ Scans
  /\ \/ /\ lexer'.error
        /\ outcome' = Ended("lexer")
        /\ UNCHANGED parser
     \/ /\ ~lexer'.error
        /\ Parses
        /\ outcome' = IF parser'.error THEN Ended("parse") ELSE HandsOver(parser'.node)
  /\ UNCHANGED inputfile

Init ==
  /\ inputfile = NoFile
  /\ lexer = Lexer!NoLexer
  /\ parser = NoParser
  /\ outcome = Nothing
Next == Input \/ del_func \/ lex_func \/ execute
Spec == Init /\ [][Next]_front

-----------------------------------------------------------------------------
(* What a text is to objects that have read no other before.                *)
ScannedAlone(file) == Lexer!scanner(Lexer!openfile(Lexer!NoLexer, Found(file), Content(file)))
ParsedAlone(toks) == main_process(set_toklist(NoParser, toks))
Alone(first, then) ==
  CASE first.error -> Ended("lexer")
    [] ~first.error /\ then.error -> Ended("parse")
    [] OTHER -> HandsOver(then.node)

(* A command fails, or hands a tree over, as it would if the file were the  *)
(* first of the session: nothing of the files before it is left in the      *)
(* lexer and the parser, whose errors and tokens stay until the next file.  *)
NothingLeft ==
  [][ outcome' # Nothing /\ inputfile' \in Mixed =>
        \E first \in {ScannedAlone(inputfile')} : \E then \in {ParsedAlone(first.token_list)} :
          outcome' = Alone(first, then) ]_front

(* The shape of trees: the types of the children that each method of the    *)
(* code generator and of the tree interpreter takes for granted.            *)
Scalars == {"nil", "number", "string", "identifier", "function", "vector", "hash", "call"}
Binary == Comparisons \cup Calculations \cup {"or", "and", "link"}
Calculated == Scalars \cup Binary \cup Assignments \cup {"unary_sub", "unary_not", "trinocular"}
Defines == {"definition", "multi_assign"}
Statement == Calculated \cup Defines \cup Loops \cup {"null", "conditional", "break", "continue", "return"}
Optional == Calculated \cup {"null"}

Typed(c, types) == Len(c) = Len(types) /\ \A i \in DOMAIN c : c[i].t \in types[i]
All(c, types) == \A i \in DOMAIN c : c[i].t \in types

(* What is assigned to can be reached without calling a function; x[] = 1   *)
(* is the exception that the parser makes.                                  *)
IsPlace(node) ==
  \/ node.t = "identifier"
  \/ /\ Len(node.c) > 1 /\ node.c[1].t = "identifier"
     /\ All(Tail(node.c), {"call_vec", "call_hash"})
     /\ \A i \in DOMAIN node.c : node.c[i].t = "call_vec" => Len(node.c[i].c) <= 1 /\ All(node.c[i].c, Calculated)
IsFor(c) == Typed(c, <<Optional \cup Defines, Optional, Optional, {"block"}>>)
IsIteration(c) == Typed(c, <<{"new_iter", "call"}, Calculated, {"block"}>>)
IsConditional(c) ==
  /\ c # <<>> /\ c[1].t = "if"
  /\ \A i \in DOMAIN c : /\ c[i].t \in {"if", "elsif", "else"}
                         /\ c[i].t = "if" <=> i = 1
                         /\ c[i].t = "else" => i = Len(c)
IsDefinition(c) ==
  \/ Typed(c, <<{"identifier", "multi_identifier"}, Calculated>>)
  \/ Typed(c, <<{"multi_identifier"}, {"multi_scalar"}>>) /\ Len(c[1].c) = Len(c[2].c)
IsMultiAssignment(c) ==
  /\ Typed(c, <<{"multi_scalar"}, Calculated \cup {"multi_scalar"}>>)
  /\ All(c[1].c, {"identifier", "call"})
  /\ c[2].t = "multi_scalar" => Len(c[1].c) = Len(c[2].c)

Fits(node) ==
  LET c == node.c
      t == node.t
  IN CASE t \in {"null", "nil", "number", "string", "identifier", "dynamic_id", "call_hash",
                 "break", "continue"} -> c = <<>>
       [] t \in Binary -> Typed(c, <<Calculated, Calculated>>)
       [] t \in Assignments -> Typed(c, <<{"identifier", "call"}, Calculated>>) /\ IsPlace(c[1])
       [] t \in {"unary_sub", "unary_not"} -> Typed(c, <<Calculated>>)
       [] t = "trinocular" -> Typed(c, <<Calculated, Calculated, Calculated>>)
       [] t = "vector" -> All(c, Calculated)
       [] t = "hash" -> All(c, {"hashmember"})
       [] t = "hashmember" -> Typed(c, <<{"identifier", "string"}, Calculated>>)
       [] t = "function" -> Typed(c, <<{"args", "null"}, {"block"}>>)
       [] t = "args" -> All(c, {"identifier", "default_arg", "dynamic_id"}) /\ ParametersAllowed(c)
       [] t = "default_arg" -> Typed(c, <<{"identifier"}, Calculated>>)
       [] t = "call" -> c # <<>> /\ c[1].t \in Calculated
                        /\ All(Tail(c), {"call_vec", "call_hash", "call_func"})
       [] t = "call_vec" -> All(c, Calculated \cup {"subvec"})
       [] t = "call_func" -> All(c, {"hashmember"}) \/ All(c, Calculated)
       [] t = "subvec" -> Typed(c, <<Calculated, Calculated>>)
       [] t = "definition" -> IsDefinition(c)
       [] t = "multi_identifier" -> c # <<>> /\ All(c, {"identifier"})
       [] t = "multi_scalar" -> All(c, Calculated)
       [] t = "multi_assign" -> IsMultiAssignment(c)
       [] t = "while" -> Typed(c, <<Calculated, {"block"}>>)
       [] t = "for" -> IsFor(c)
       [] t \in {"forindex", "foreach"} -> IsIteration(c)
       [] t = "new_iter" -> Typed(c, <<{"identifier"}>>)
       [] t = "conditional" -> IsConditional(c)
       [] t \in {"if", "elsif"} -> Typed(c, <<Calculated, {"block"}>>)
       [] t = "else" -> Typed(c, <<{"block"}>>)
       [] t = "return" -> Len(c) <= 1 /\ All(c, Calculated)
       [] t \in {"block", "root"} -> All(c, Statement)

(* A jump stands in what it leaves.  A break in a function in a loop counts *)
(* as one in the loop, as it does in the parser.                            *)
Placed(node, looped, inside) ==
  /\ node.t \in {"break", "continue"} => looped
  /\ node.t = "return" => inside

RECURSIVE Shaped(_, _, _)
Shaped(node, looped, inside) ==
  /\ Fits(node) /\ Placed(node, looped, inside)
  /\ \A i \in DOMAIN node.c :
       Shaped(node.c[i], looped \/ node.t \in Loops, inside \/ node.t = "function")

(* A tree that is handed over has the shape that the stages behind the      *)
(* parser rely on without looking: every error that leaves a node without a *)
(* child was counted.                                                       *)
HandedOver == outcome.stage = "linker"
WellShaped == HandedOver => Shaped(outcome.root, FALSE, FALSE)

(* No text is accepted while a token or a child that is not there was read, *)
(* but for an assignment to x[].                                            *)
RECURSIVE AssignsToNothing(_)
AssignsToNothing(node) ==
  \/ node.t \in Assignments /\ HasEmptyIndex(node.c[1])
  \/ \E i \in DOMAIN node.c : AssignsToNothing(node.c[i])
ReadsInside == HandedOver => ~lexer.over /\ (parser.over => AssignsToNothing(outcome.root))

(* The numerals that the lexer accepts are those that the conversion of     *)
(* strings understands: none becomes the number that is none.               *)
NumeralsConvert ==
  ~lexer.error =>
    \A i \in DOMAIN lexer.token_list :
      lexer.token_list[i].type = "number" =>
        trans_string_to_number(lexer.token_list[i].str) # NaN
=============================================================================
