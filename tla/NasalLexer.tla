------------------------------ MODULE NasalLexer ------------------------------
(***************************************************************************)
(* The lexer (nasal_lexer.h): the text of a file to a sequence of tokens.  *)
(*                                                                         *)
(* A token is [type, str].  The type of a keyword or an operator is its    *)
(* text in token_table; the others are "number", "string", "identifier"    *)
(* and, for a character that is no operator by itself, "none" (-1).  Lines *)
(* and columns are left out, and errors are told apart from none only.     *)
(***************************************************************************)
EXTENDS NasalScalar

Letters == Chars("abcdefghijklmnopqrstuvwxyzABCDEFGHIJKLMNOPQRSTUVWXYZ_")
(* The third quote, the back quote, has no notation in TLA+.                 *)
Quotes == {"'", "\""}
SingleOperators ==
  {"(", ")", "[", "]", "{", "}", ",", ";", "|", ":", "?", "&", "@", "%", "$", "^", "\\"}
CalcOperators == {"=", "+", "-", "*", "!", "/", "<", ">", "~"}
Blanks == {" ", "\n", "\t", "\r"}
OctDigit == Chars("01234567")

token_table ==
  {"for", "forindex", "foreach", "while", "var", "func", "break", "continue", "return", "if",
   "elsif", "else", "nil", "(", ")", "[", "]", "{", "}", ";", "and", "or", ",", ".", "...", "?",
   ":", "+", "-", "*", "/", "~", "!", "=", "+=", "-=", "*=", "/=", "~=", "==", "!=", "<", ">",
   "<=", ">="}

(* The text is res.  What is read at a place: the tokens (one or none), the *)
(* place after it, and whether that is an error.                            *)
Reads(tokens, next, error) == [tokens |-> tokens, next |-> next, error |-> error]
Token(type, str) == <<[type |-> type, str |-> str]>>
At(res, i, chars) == i <= Len(res) /\ Char(res, i) \in chars

identifier_gen(res, i) ==
  LET end == EndOf(res, i, Letters \cup Digits)
      word == SubSeq(res, i, end - 1)
  IN Reads(Token(IF word \in token_table THEN word ELSE "identifier", word), end, FALSE)

(* A number that is not right is an error, and a token all the same.        *)
Numeral(res, i, end, wrong) ==
  Reads(Token("number", IF wrong THEN "0" ELSE SubSeq(res, i, end - 1)), end, wrong)
based_number(res, i, digits) ==
  LET end == EndOf(res, i + 2, digits) IN Numeral(res, i, end, end = i + 2)

(* The number from i on has been read up to part.                           *)
with_exponent(res, i, part) ==
  LET from == IF At(res, part + 1, {"+", "-"}) THEN part + 2 ELSE part + 1
      end == EndOf(res, from, Digits)
  IN IF At(res, part, {"e", "E"}) THEN Numeral(res, i, end, end = from)
     ELSE Numeral(res, i, part, FALSE)

(* Mutant: there need be no digit behind a point. *)
WithPoint(res, i, point) ==
  IF At(res, point, {"."}) THEN with_exponent(res, i, EndOf(res, point + 1, Digits))
  ELSE with_exponent(res, i, point)

with_part(res, i, point) ==
  LET part == EndOf(res, point + 1, Digits)
  IN CASE ~At(res, point, {"."}) -> with_exponent(res, i, point)
       [] At(res, point, {"."}) /\ part = point + 1 -> Numeral(res, i, part, TRUE)
       [] OTHER -> with_exponent(res, i, part)
dec_number(res, i) == with_part(res, i, EndOf(res, i, Digits))

number_gen(res, i) ==
  CASE At(res, i, {"0"}) /\ At(res, i + 1, {"x"}) -> based_number(res, i, HexDigits)
    [] At(res, i, {"0"}) /\ At(res, i + 1, {"o"}) -> based_number(res, i, OctDigit)
    [] OTHER -> dec_number(res, i)

(* What a character stands for behind a backslash.  Bell, backspace,        *)
(* vertical tab and the zero byte have no notation in TLA+: no text of the  *)
(* model asks for one.                                                      *)
Escape == [f |-> "\f", n |-> "\n", r |-> "\r", t |-> "\t"]
Escaped(c) == IF c \in DOMAIN Escape THEN Escape[c] ELSE c

(* Up to the same quote, or to the end of the text, which is an error.  A   *)
(* backslash that is the last character of the text stands for itself.      *)
string_gen(res, i) ==
  LET quote == Char(res, i)
      f[j \in (i + 1)..(Len(res) + 1)] ==
        CASE j > Len(res) -> [str |-> "", next |-> j + 1, error |-> TRUE]
          [] j <= Len(res) /\ Char(res, j) = quote -> [str |-> "", next |-> j + 1, error |-> FALSE]
          [] OTHER ->
               LET escaped == Char(res, j) = "\\" /\ j < Len(res)
                   c == IF escaped THEN Escaped(Char(res, j + 1)) ELSE Char(res, j)
                   rest == f[IF escaped THEN j + 2 ELSE j + 1]
               IN [rest EXCEPT !.str = c \o @]
  IN Reads(Token("string", f[i + 1].str), f[i + 1].next, f[i + 1].error)

single_operator(res, i) ==
  LET known == Char(res, i) \in token_table
  IN Reads(Token(IF known THEN Char(res, i) ELSE "none", Char(res, i)), i + 1, ~known)

dot(res, i) ==
  LET str == IF At(res, i + 1, {"."}) /\ At(res, i + 2, {"."}) THEN "..." ELSE "."
  IN Reads(Token(str, str), i + Len(str), FALSE)

calc_operator(res, i) ==
  LET str == SubSeq(res, i, IF At(res, i + 1, {"="}) THEN i + 1 ELSE i)
  IN Reads(Token(str, str), i + Len(str), FALSE)

EndOfLine(res, i) ==
  CHOOSE j \in i..(Len(res) + 1) :
    /\ \A k \in i..(j - 1) : Char(res, k) # "\n"
    /\ j = Len(res) + 1 \/ Char(res, j) = "\n"

next_token(res, i) ==
  LET c == Char(res, i)
  IN CASE c \in Blanks -> Reads(<<>>, EndOf(res, i, Blanks), FALSE)
       [] c \in Letters -> identifier_gen(res, i)
       [] c \in Digits -> number_gen(res, i)
       [] c \in Quotes -> string_gen(res, i)
       [] c \in SingleOperators -> single_operator(res, i)
       [] c = "." -> dot(res, i)
       [] c \in CalcOperators -> calc_operator(res, i)
       [] c = "#" -> Reads(<<>>, EndOfLine(res, i), FALSE)
       [] OTHER -> Reads(<<>>, i + 1, TRUE)

-----------------------------------------------------------------------------
(* The lexer itself: res_size is not always the size of res, and then the   *)
(* scanner reads what is not there (over).                                  *)
NoLexer == [res |-> "", res_size |-> 0, token_list |-> <<>>, error |-> FALSE, over |-> FALSE]
clear(lexer) == NoLexer

(* A file that is missing leaves res_size as it was.                        *)
openfile(lexer, found, text) ==
  [lexer EXCEPT !.res = IF found THEN text ELSE "",
                !.res_size = IF found THEN Len(text) ELSE @,
                !.error = ~found]

(* Tokens are put in the order of the text; errors add up with openfile's.  *)
Joined(lexer, one) ==
  [lexer EXCEPT !.token_list = @ \o one.tokens, !.error = @ \/ one.error]
RECURSIVE tokens_from(_, _)
tokens_from(lexer, i) ==
  IF i > Len(lexer.res) THEN lexer
  ELSE LET one == next_token(lexer.res, i) IN tokens_from(Joined(lexer, one), one.next)
scanner(lexer) ==
  tokens_from([lexer EXCEPT !.token_list = <<>>, !.over = lexer.res_size > Len(lexer.res)], 1)
=============================================================================
