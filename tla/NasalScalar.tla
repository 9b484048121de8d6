------------------------------ MODULE NasalScalar ------------------------------
(***************************************************************************)
(* Numbers and strings as values: the conversions of nasal_misc.h and the  *)
(* arithmetic and comparisons that the parser and both machines share.     *)
(*                                                                         *)
(* The conversions work on decimals [m, e], which stand for m * 10^e, and  *)
(* NaN; the parser and the machines calculate with integers and NaN.  The  *)
(* rounding of doubles is abstracted, and the texts have at most eight     *)
(* digits after the point: trans_number_to_string drops what is left when  *)
(* that is 0.000000001 or less.                                            *)
(***************************************************************************)
EXTENDS Integers, Sequences, FiniteSetsExt, TLC

CONSTANT NaN  \* the number that is none

ASSUME NumberAssumption == NaN \notin Int

Bool(b) == IF b THEN 1 ELSE 0
Char(str, i) == SubSeq(str, i, i)
Rest(str, i) == SubSeq(str, i, Len(str))

-----------------------------------------------------------------------------
(* The code of a character.  A backquote cannot be written in TLA+: the     *)
(* model has no text with one.                                              *)
FromSpace == " !\"#$%&'()*+,-./0123456789:;<=>?@ABCDEFGHIJKLMNOPQRSTUVWXYZ[\\]^_"
FromA == "abcdefghijklmnopqrstuvwxyz{|}~"
Place(chars, c) == CHOOSE i \in 1..Len(chars) : Char(chars, i) = c
Chars(str) == {Char(str, i) : i \in 1..Len(str)}
CharCode(c) ==
  CASE c = "\t" -> 9 [] c = "\n" -> 10 [] c = "\f" -> 12 [] c = "\r" -> 13
    [] c \in Chars(FromSpace) -> 31 + Place(FromSpace, c)
    [] c \in Chars(FromA) -> 96 + Place(FromA, c)
Digits == Chars("0123456789")
HexDigits == Chars("0123456789abcdefABCDEF")
OctDigits == Chars("012345678")   \* as the source has it
DigitValue(c) ==
  LET Value(i) == IF i > 16 THEN i - 7 ELSE i - 1
  IN Value(Place("0123456789abcdefABCDEF", c))

(* The first place at or after from where str leaves the set of characters. *)
EndOf(str, from, chars) ==
  CHOOSE j \in from..(Len(str) + 1) :
    /\ \A k \in from..(j - 1) : Char(str, k) \in chars
    /\ j = Len(str) + 1 \/ Char(str, j) \notin chars

(* The order of std::string.                                                *)
StringLess(s, t) ==
  \E n \in 0..Len(s) :
    /\ n < Len(t)
    /\ SubSeq(s, 1, n) = SubSeq(t, 1, n)
    /\ n = Len(s) \/ CharCode(Char(s, n + 1)) < CharCode(Char(t, n + 1))

-----------------------------------------------------------------------------
(* Strings to numbers and back.                                             *)

(* m * 10^e, for m that is not negative, with the least e < 0 or e = 0.     *)
Decimal(m, e) ==
  CASE m = 0 -> [m |-> 0, e |-> 0]
    [] m # 0 /\ e >= 0 -> [m |-> m * 10^e, e |-> 0]
    [] OTHER -> LET Without(zeros) == [m |-> m \div 10^zeros, e |-> e + zeros]
                IN Without(CHOOSE k \in 0..(-e) : m % 10^k = 0 /\ (k = -e \/ m % 10^(k + 1) # 0))

(* The digits of a string in a base.                                        *)
ValueOf(digits, base) ==
  LET f[n \in 0..Len(digits)] ==
        IF n = 0 THEN 0 ELSE base * f[n - 1] + DigitValue(Char(digits, n))
  IN f[Len(digits)]
Based(digits, chars, base) ==
  IF EndOf(digits, 1, chars) > Len(digits) THEN [m |-> ValueOf(digits, base), e |-> 0] ELSE NaN
hex_to_double(str) == Based(Rest(str, 3), HexDigits, 16)
oct_to_double(str) == Based(Rest(str, 3), OctDigits, 8)

(* Digits, a point and digits, an exponent; any of them may have no digit   *)
(* before it: "e5" is 0.  m and exp are what the digits so far stand for    *)
(* and places how many of them are behind the point.                        *)
NextPart(at, c) ==
  CASE c \in Digits -> CASE at = "point" -> "part" [] at \in {"e", "sign"} -> "power" [] OTHER -> at
    [] c = "." /\ at = "whole" -> "point"
    [] c \in {"e", "E"} /\ at \in {"whole", "point", "part"} -> "e"
    [] c \in {"+", "-"} /\ at = "e" -> "sign"
    [] OTHER -> "wrong"
ReadDigit(n, c, digit) ==
  CASE n.at = "whole" -> [n EXCEPT !.m = 10 * @ + digit]
    [] n.at = "part" -> [n EXCEPT !.m = 10 * @ + digit, !.places = @ + 1]
    [] n.at = "power" -> [n EXCEPT !.exp = 10 * @ + digit]
    [] n.at = "sign" -> [n EXCEPT !.sign = IF c = "-" THEN -1 ELSE 1]
    [] OTHER -> n
ReadCharacter(n, c) == ReadDigit([n EXCEPT !.at = NextPart(@, c)], c, DigitValue(c))
ReadNumber(n) ==
  IF n.at \in {"whole", "part", "power"} THEN Decimal(n.m, n.sign * n.exp - n.places) ELSE NaN
dec_to_double(str) ==
  LET f[i \in 0..Len(str)] ==
        IF i = 0 THEN [at |-> "whole", m |-> 0, places |-> 0, sign |-> 1, exp |-> 0]
        ELSE ReadCharacter(f[i - 1], Char(str, i))
  IN ReadNumber(f[Len(str)])

Unsigned(str) ==
  CASE str = "" -> NaN
    [] Len(str) > 2 /\ SubSeq(str, 1, 2) = "0x" -> hex_to_double(str)
    [] Len(str) > 2 /\ SubSeq(str, 1, 2) = "0o" -> oct_to_double(str)
    [] OTHER -> dec_to_double(str)
IsSigned(str) == str # "" /\ Char(str, 1) \in {"+", "-"}
WithSign(n, str) ==
  IF n # NaN /\ IsSigned(str) /\ Char(str, 1) = "-" THEN [n EXCEPT !.m = -@] ELSE n
trans_string_to_number(str) ==
  WithSign(Unsigned(IF IsSigned(str) THEN Rest(str, 2) ELSE str), str)

(* NaN and 0 give "0".                                                      *)
DecimalText(m, places) ==
  LET part == ToString(m % 10^places)
  IN ToString(m \div 10^places)
     \o (IF places > 0 THEN "." \o SubSeq("00000000", 1, places - Len(part)) \o part ELSE "")
trans_number_to_string(n) ==
  CASE n = NaN -> "0"
    [] n # NaN /\ n.m < 0 -> "-" \o DecimalText(-n.m, -n.e)
    [] OTHER -> DecimalText(n.m, -n.e)

(* The same for integers and NaN.  A fraction stays a decimal, which        *)
(* nothing is calculated with.                                              *)
Integral(n) == IF n = NaN THEN NaN ELSE IF n.e = 0 THEN n.m ELSE n
StringNumber(str) == Integral(trans_string_to_number(str))
NumberString(n) == IF n = NaN THEN "0" ELSE ToString(n)
Negative(n) == IF n = NaN THEN NaN ELSE -n

-----------------------------------------------------------------------------
(* Calculation with integers and NaN.  Division is exact or gives NaN: the  *)
(* families divide only where the quotient is an integer or not used.       *)
Quotient(x, y) ==
  IF y = 0 THEN NaN
  ELSE LET d == IF y < 0 THEN -y ELSE y
           n == IF y < 0 THEN -x ELSE x
       IN IF n % d = 0 THEN n \div d ELSE NaN
Arithmetic(op, x, y) ==
  CASE NaN \in {x, y} -> NaN
    [] NaN \notin {x, y} /\ op = "add" -> x + y
    [] NaN \notin {x, y} /\ op = "sub" -> x - y
    [] NaN \notin {x, y} /\ op = "mul" -> x * y
    [] NaN \notin {x, y} /\ op = "div" -> Quotient(x, y)
NumberLess(x, y) == IF NaN \in {x, y} THEN FALSE ELSE x < y
NumberEqual(x, y) == x # NaN /\ x = y
=============================================================================
