------------------------------ MODULE PrintfC ------------------------------
(***************************************************************************)
(* What the C standard says a directive of printf prints, for the          *)
(* directives that src/src/libc/printf.c knows, and for which directives   *)
(* the code prints something else.  Module Printf is the code.             *)
(*                                                                         *)
(* A directive is a record [conv, flags, width, prec, size, arg].  A       *)
(* negative width or precision is one given by `*'.  Texts are sequences   *)
(* of characters; the argument of %f is a number of 2^-FracBits.           *)
(***************************************************************************)
EXTENDS Integers, SequencesExt

CONSTANTS
  Bits,        \* widths of the integer types: a record hh, h, int, l
  NtoaSize,    \* PRINTF_NTOA_BUFFER_SIZE and PRINTF_FTOA_BUFFER_SIZE, 32
  FracBits,    \* arguments of %f have up to this many bits behind the point
  Mantissa,    \* bits of a double's mantissa, 53
  MaxFloatPrec,      \* largest index of the table of powers of 10, 9
  DefaultFloatPrec   \* PRINTF_DEFAULT_FLOAT_PRECISION, 6

ASSUME PrintfAssumption ==
  /\ Bits \in [{"hh", "h", "int", "l"} -> Nat \ {0}]
  /\ {NtoaSize, Mantissa} \subseteq Nat \ {0}
  /\ {FracBits, MaxFloatPrec, DefaultFloatPrec} \subseteq Nat
  /\ DefaultFloatPrec <= MaxFloatPrec

NoPrec == 1000      \* the directive has no precision
NUL == "NUL"        \* the character 0

Chars(n, ch) == IF n > 0 THEN [k \in 1..n |-> ch] ELSE <<>>
Least(x, y) == IF x < y THEN x ELSE y
Abs(x) == IF x < 0 THEN -x ELSE x

HexDigits == <<"0", "1", "2", "3", "4", "5", "6", "7", "8", "9", "a", "b", "c", "d", "e", "f">>
UpperHexDigits == <<"0", "1", "2", "3", "4", "5", "6", "7", "8", "9", "A", "B", "C", "D", "E", "F">>

IntConv == {"d", "u", "x", "X", "o", "b"}
Base(conv) == CASE conv \in {"x", "X", "p"} -> 16 [] conv = "o" -> 8 [] conv = "b" -> 2 [] OTHER -> 10

\* The digits of a number that is not negative and has at most Bits.l bits, the last one first.
DigitsRev(n, base, upper) ==
  LET count == IF n = 0 THEN 1 ELSE Cardinality({k \in 1..Bits.l : base^(k - 1) <= n})
  IN [k \in 1..count |-> (IF upper THEN UpperHexDigits ELSE HexDigits)[((n \div base^(k - 1)) % base) + 1]]
Digits(n, base, upper) == Reverse(DigitsRev(n, base, upper))

-----------------------------------------------------------------------------
(* Reading a directive.                                                    *)

HasPrec(d) == d.prec # NoPrec
Prec(d) == IF HasPrec(d) THEN d.prec ELSE 0
Left(d) == "-" \in d.flags \/ d.width < 0
Width(d) == Abs(d.width)

\* The argument converted to the type that the size names.
Value(d) ==
  LET m == d.arg % 2^Bits[d.size]
  IN IF d.conv = "d" /\ m >= 2^(Bits[d.size] - 1) THEN m - 2^Bits[d.size] ELSE m

-----------------------------------------------------------------------------
(* What C says.                                                            *)

\* sign and num in a field: zeros go behind the sign, spaces in front of it.
Field(d, sign, num, zeros) ==
  LET fill == Width(d) - Len(sign) - Len(num)
  IN IF Left(d) THEN sign \o num \o Chars(fill, " ")
     ELSE IF zeros THEN sign \o Chars(fill, "0") \o num
     ELSE Chars(fill, " ") \o sign \o num

SignOf(d, negative) ==
  IF negative THEN <<"-">> ELSE IF "+" \in d.flags THEN <<"+">> ELSE IF " " \in d.flags THEN <<" ">> ELSE <<>>

\* %b is not C's; its prefix is taken to be 0b.
CPrefix(d) ==
  CASE d.conv = "d" -> SignOf(d, Value(d) < 0)
    [] d.conv \in {"x", "X", "b"} /\ "#" \in d.flags /\ Value(d) # 0 -> <<"0", d.conv>>
    [] OTHER -> <<>>

CDigits(d) ==
  LET v == Abs(Value(d))
      digits == IF HasPrec(d) /\ d.prec = 0 /\ v = 0 THEN <<>> ELSE Digits(v, Base(d.conv), d.conv = "X")
      num == Chars(Prec(d) - Len(digits), "0") \o digits
  IN IF d.conv = "o" /\ "#" \in d.flags /\ (num = <<>> \/ num[1] # "0") THEN <<"0">> \o num ELSE num

Nan == <<"n", "a", "n">>
Inf == <<"i", "n", "f">>

FloatPrec(d) == IF HasPrec(d) THEN Least(IF d.prec > 0 THEN d.prec ELSE 0, MaxFloatPrec) ELSE DefaultFloatPrec

\* How far the nearest double may be from twice a product with 10^prec.
Slack(prec) == (2 * 10^prec * 2^FracBits) \div 2^Mantissa

\* The texts C allows for a directive: one, but for %f, where the arithmetic of doubles may
\* take either neighbour of a number that is near the middle.
CTexts(d) ==
  CASE d.conv \in IntConv -> {Field(d, CPrefix(d), CDigits(d), "0" \in d.flags /\ ~HasPrec(d))}
    [] d.conv = "p" -> {Field([d EXCEPT !.width = Bits.l \div 4], <<>>, Digits(d.arg, 16, TRUE), TRUE)}
    [] d.conv = "c" -> {Field(d, <<>>, <<d.arg>>, FALSE)}
    [] d.conv = "s" ->
         {Field(d, <<>>, IF HasPrec(d) THEN SubSeq(d.arg, 1, Least(d.prec, Len(d.arg))) ELSE d.arg, FALSE)}
    [] d.conv = "f" ->
         LET prec == FloatPrec(d)
             v == Abs(d.arg) * 10^prec
             near == {n \in {v \div 2^FracBits, v \div 2^FracBits + 1} :
                        2 * Abs(n * 2^FracBits - v) <= 2^FracBits + Slack(prec)}
             digits(n) == Digits(n % 10^prec, 10, FALSE)
             point(n) == IF prec = 0 THEN <<>> ELSE <<".">> \o Chars(prec - Len(digits(n)), "0") \o digits(n)
         IN {Field(d, SignOf(d, d.arg < 0), Digits(n \div 10^prec, 10, FALSE) \o point(n), "0" \in d.flags) :
               n \in near}
    [] d.conv = "special" -> {Field(d, SignOf(d, d.arg = "-inf"), IF d.arg = "nan" THEN Nan ELSE Inf, FALSE)}
    [] OTHER -> {<<d.arg>>}

-----------------------------------------------------------------------------
(* Where the code departs from C, and why.                                 *)

\* What the conversion's buffer has to hold: all but the spaces, and a space that stands for
\* a sign.  Where spaces in front of the number would hide its loss, it need not be held.
Content(d) == CHOOSE n \in {Len(SelectSeq(t, LAMBDA ch : ch # " ")) : t \in CTexts(d)} : TRUE
SpaceShows(d) ==
  /\ IF d.conv = "f" THEN SignOf(d, d.arg < 0) = <<" ">> ELSE CPrefix(d) = <<" ">>
  /\ Left(d) \/ Width(d) <= Content(d) \/ ("0" \in d.flags /\ (d.conv = "f" \/ ~HasPrec(d)))
TooLong(d) ==
  d.conv \in IntConv \cup {"f"} /\ Content(d) + (IF SpaceShows(d) THEN 1 ELSE 0) > NtoaSize

\* Left-justified numbers get no leading zeros, but the one of %#o; 0 has no digit at all.
LeftPrec(d) ==
  /\ d.conv \in IntConv /\ Left(d)
  /\ Prec(d) > (IF Value(d) = 0 THEN 0 ELSE Len(Digits(Abs(Value(d)), Base(d.conv), FALSE)))
               + (IF d.conv = "o" /\ "#" \in d.flags /\ Value(d) # 0 THEN 1 ELSE 0)

\* A number that fills its field is taken to be padded with zeros, and its first one or two
\* digits make room for the prefix.
HashFills(d) ==
  /\ d.conv \in IntConv \ {"d", "u"} /\ "#" \in d.flags /\ Value(d) # 0 /\ ~HasPrec(d)
  /\ LET more == Width(d) - Len(Digits(Value(d), Base(d.conv), FALSE))
     IN \/ more = 0
        \/ "0" \in d.flags /\ ~Left(d) /\ (IF d.conv = "b" THEN more > 1 ELSE d.conv # "o" /\ more = 1)

\* %#o prints a 0 before the digits of the precision, if there is room for it, and no 0 for
\* %#.0o of 0.
OctalPrec(d) ==
  /\ d.conv = "o" /\ "#" \in d.flags
  /\ \/ Value(d) # 0 /\ ~Left(d) /\ Prec(d) > Len(Digits(Value(d), 8, FALSE)) /\ Prec(d) < NtoaSize
     \/ Value(d) = 0 /\ HasPrec(d) /\ Prec(d) = 0

\* The nearest double, the even one if two are equally near.
Rounded(x) ==
  LET cut[k \in Nat] == IF x < 2^(Mantissa + k) THEN 2^k ELSE cut[k + 1]
      unit == cut[0]
      twice == 2 * (x % unit)
      down == x \div unit
  IN unit * (IF twice > unit \/ (twice = unit /\ down % 2 = 1) THEN down + 1 ELSE down)

\* A fraction of 99.. that the product puts exactly in the middle is rounded up, but the
\* carry into the whole part is not handled.
HalfwayCarry(d) ==
  /\ d.conv = "f" /\ FloatPrec(d) > 0
  /\ 2 * Rounded((Abs(d.arg) % 2^FracBits) * 10^FloatPrec(d)) = (2 * 10^FloatPrec(d) - 1) * 2^FracBits

\* nan and inf: the flag 0 leaves the field short, and only a + before inf is printed.
SpecialFlags(d) ==
  /\ d.conv = "special"
  /\ \/ "0" \in d.flags /\ ~Left(d) /\ Width(d) > 3
     \/ "+" \in d.flags /\ d.arg = "nan"
     \/ " " \in d.flags /\ "+" \notin d.flags /\ d.arg # "-inf" /\ (Left(d) \/ Width(d) <= 3)

\* These never print what C promises ...
Departs(d) == TooLong(d) \/ LeftPrec(d) \/ HashFills(d) \/ OctalPrec(d) \/ HalfwayCarry(d) \/ SpecialFlags(d)

\* ... and these need not: the smallest int is negated in an int, which is undefined; a negative
\* precision counts as 0 and not as none; digits of a fraction behind the ninth are zeros; C
\* gives %p no meaning with a flag.
MayDepart(d) ==
  \/ d.conv = "d" /\ d.size = "int" /\ Value(d) = -(2^(Bits.int - 1))
  \/ Prec(d) < 0
  \/ d.conv = "f" /\ Prec(d) > MaxFloatPrec
  \/ d.conv = "p" /\ d.flags # {}

=============================================================================
