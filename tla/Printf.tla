------------------------------- MODULE Printf -------------------------------
(***************************************************************************)
(* _vsnprintf of src/src/libc/printf.c and the conversions it calls: one   *)
(* action for each kind of directive, with the conversion of a number in   *)
(* three (the digits in a local buffer, padding and prefix, output in      *)
(* reverse).  Module PrintfC says what C promises.                         *)
(*                                                                         *)
(* A double is a fraction with Mantissa significant bits; %e, %g and       *)
(* numbers above PRINTF_MAX_FLOAT are left out.                            *)
(***************************************************************************)
EXTENDS PrintfC

CONSTANTS
  Call,        \* the calls: records [kind, maxlen, format]
  MaxBuffer    \* bound: characters behind a caller's buffer

Kinds == {"buffer", "char", "null"}
IsSeq(s) == s \in Seq(ToSet(s))
\* (An unsigned value is not negative: the provers lack the powers of 2 that say so.)
IsDirective(x) ==
  /\ x.width \in Int /\ x.prec \in Int
  /\ x.conv = "s" => IsSeq(x.arg)
  /\ x.conv \in IntConv => Value(x) \in IF x.conv = "d" THEN Int ELSE Nat

ASSUME CallAssumption ==
  /\ MaxBuffer \in Nat
  /\ \A c \in Call : /\ c.kind \in Kinds /\ c.maxlen \in Nat
                    /\ IsSeq(c.format) /\ \A i \in DOMAIN c.format : IsDirective(c.format[i])

VARIABLES
  kind,        \* the output function: "buffer", "char" (_out_char, _out_fct) or "null"
  maxlen,
  format,      \* directives that are left
  idx,
  buffer,
  stream,      \* the characters given to _putchar or the caller's function
  cv,          \* arguments and buffer of _ntoa_format and _out_rev
  pc,
  given, texts, text   \* history: all directives, the text of each that has been evaluated,
                       \* and these texts in a row

vars == <<kind, maxlen, format, idx, buffer, stream, cv, pc, given, texts, text>>

Untouched == "?"
Idle == [buf |-> <<>>, negative |-> FALSE, base |-> 0, prec |-> 0, width |-> 0, flags |-> {}]

\* printf_, sprintf_, snprintf_, vprintf_, vsnprintf_, fctprintf
Init ==
  /\ \E c \in Call : kind = c.kind /\ maxlen = c.maxlen /\ format = c.format
  /\ given = format
  /\ idx = 0
  /\ buffer = [k \in 0..MaxBuffer - 1 |-> Untouched]
  /\ stream = <<>> /\ texts = <<>> /\ text = <<>>
  /\ cv = Idle
  /\ pc = "next"

d == Head(format)
Reads(convs) == pc = "next" /\ format # <<>> /\ d.conv \in convs

BufferWith(pos, s) ==
  IF kind = "buffer"
    THEN [k \in DOMAIN buffer |->
            IF k < maxlen /\ k - pos + 1 \in DOMAIN s THEN s[k - pos + 1] ELSE buffer[k]]
    ELSE buffer

\* Faulty variant: the character functions print NUL, too.
WriteNul(pos, s) ==
  /\ buffer' = BufferWith(pos, s)
  /\ stream' = IF kind = "char" THEN stream \o s ELSE stream

\* The characters of s that _out_char and _out_fct hand on, one after the other.  (SelectSeq
\* says the same, but nothing can be proved of it.)
Kept(s) ==
  LET kept[n \in 0..Len(s)] ==
        IF n = 0 THEN <<>>
        ELSE IF s[n] = NUL THEN kept[n - 1] ELSE Append(kept[n - 1], s[n])
  IN  kept[Len(s)]

\* The output functions, for the characters of s.
Write(pos, s) ==
  /\ buffer' = BufferWith(pos, s)
  /\ stream' = IF kind = "char" THEN stream \o Kept(s) ELSE stream

\* The directive is done; s is its output.
Out(s) ==
  /\ Write(idx, s)
  /\ idx' = idx + Len(s)
  /\ texts' = Append(texts, s)
  /\ text' = text \o s
  /\ format' = Tail(format)
  /\ cv' = Idle
  /\ pc' = "next"
  /\ UNCHANGED <<kind, maxlen, given>>

Convert(c, to) ==
  /\ cv' = c /\ pc' = to
  /\ UNCHANGED <<kind, maxlen, format, idx, buffer, stream, given, texts, text>>

\* As much of s as a local buffer still has room for.
Put(buf, s) == buf \o SubSeq(s, 1, Least(Len(s), NtoaSize - Len(buf)))

\* Flags, width and precision: a negative width sets the flag, a negative precision is 0.
Flags == d.flags \cup (IF Left(d) THEN {"-"} ELSE {}) \cup (IF HasPrec(d) THEN {"prec"} ELSE {})
Precision == IF Prec(d) > 0 THEN Prec(d) ELSE 0
AskedPrec == IF HasPrec(d) THEN Precision ELSE DefaultFloatPrec   \* for fractions

-----------------------------------------------------------------------------
(* Faulty variants, see the properties.                                    *)

\* The sign is written without looking at the room that is left.
SignOfUnlimited(c) ==
  IF c.negative THEN <<"-">> ELSE IF "+" \in c.flags THEN <<"+">> ELSE IF " " \in c.flags THEN <<" ">> ELSE <<>>
PutSignUnlimited(buf, c) == buf \o SignOfUnlimited(c)

\* No room is kept for the sign when zeros are added.
ZeroWidthFull(c) == c.width

\* A place is kept for the point when zeros stand for digits of a fraction.
ZerosBeyondRoom ==
  LET zeros == Put(<<>>, Chars(AskedPrec - MaxFloatPrec, "0"))
  IN SubSeq(zeros, 1, Least(Len(zeros), NtoaSize - 1))

\* The end is marked behind the last character, wherever that is.
TerminateAtIdx ==
  /\ pc = "next" /\ format = <<>>
  /\ Write(idx, <<NUL>>)
  /\ pc' = "end"
  /\ UNCHANGED <<kind, maxlen, format, idx, cv, given, texts, text>>

-----------------------------------------------------------------------------
(* Numbers                                                                 *)

\* 0 - value in an int, or short or char promoted to one; the compiler may take the result
\* for a number that is not negative, and extend its sign.
Magnitudes == {Abs(Value(d))}
              \cup (IF Value(d) = -(2^(Bits.int - 1)) /\ d.size = "int" THEN {2^Bits.l - Abs(Value(d))} ELSE {})

IntFlags ==
  LET cleared == (IF d.conv \in {"d", "u"} \/ Value(d) = 0 THEN {"#"} ELSE {})
                 \cup (IF d.conv # "d" THEN {"+", " "} ELSE {})
                 \cup (IF HasPrec(d) THEN {"0"} ELSE {})
  IN (Flags \ cleared) \cup (IF d.conv = "X" THEN {"upper"} ELSE {})

\* _ntoa_long, _ntoa_long_long: the digits, the last one first; none for 0 with a precision.
NtoaDigits(value, base, flags) ==
  IF "prec" \in flags /\ value = 0 THEN <<>> ELSE Put(<<>>, DigitsRev(value, base, "upper" \in flags))

Integer ==
  /\ Reads(IntConv)
  /\ \E m \in Magnitudes :
       Convert([buf |-> NtoaDigits(m, Base(d.conv), IntFlags), negative |-> Value(d) < 0,
                base |-> Base(d.conv), prec |-> Precision, width |-> Width(d), flags |-> IntFlags], "format")

Pointer ==
  /\ Reads({"p"})
  /\ LET flags == (Flags \cup {"0", "upper"}) \ (IF d.arg = 0 THEN {"#"} ELSE {})
     IN Convert([buf |-> NtoaDigits(d.arg, 16, flags), negative |-> FALSE, base |-> 16,
                 prec |-> Precision, width |-> Bits.l \div 4, flags |-> flags], "format")

\* The width zeros are added up to: one is left for a sign.
ZeroWidth(c) ==
  IF c.width > 0 /\ "0" \in c.flags /\ (c.negative \/ c.flags \cap {"+", " "} # {})
    THEN c.width - 1 ELSE c.width

PutSign(buf, c) ==
  Put(buf, IF c.negative THEN <<"-">>
           ELSE IF "+" \in c.flags THEN <<"+">> ELSE IF " " \in c.flags THEN <<" ">> ELSE <<>>)

\* _ntoa_format: leading zeros, prefix, sign
NtoaFormat ==
  /\ pc = "format"
  /\ LET left == "-" \in cv.flags
         width == IF left THEN cv.width ELSE ZeroWidth(cv)
         precise == IF left THEN cv.buf ELSE Put(cv.buf, Chars(cv.prec - Len(cv.buf), "0"))
         zeros == IF left \/ "0" \notin cv.flags THEN precise ELSE Put(precise, Chars(width - Len(precise), "0"))
         full == "prec" \notin cv.flags /\ zeros # <<>> /\ Len(zeros) \in {cv.prec, width}
         room == SubSeq(zeros, 1, Len(zeros) - (IF ~full THEN 0 ELSE IF cv.base = 16 /\ Len(zeros) > 1 THEN 2 ELSE 1))
         letter == CASE cv.base = 16 -> <<IF "upper" \in cv.flags THEN "X" ELSE "x">>
                     [] cv.base = 2 -> <<"b">>
                     [] OTHER -> <<>>
         hashed == IF "#" \in cv.flags THEN Put(Put(room, letter), <<"0">>) ELSE zeros
     IN Convert([cv EXCEPT !.buf = PutSign(hashed, cv), !.width = width], "rev")

\* _out_rev
OutRev ==
  /\ pc = "rev"
  /\ LET fill == Chars(cv.width - Len(cv.buf), " ")
     IN Out((IF cv.flags \cap {"-", "0"} = {} THEN fill ELSE <<>>) \o Reverse(cv.buf)
            \o (IF "-" \in cv.flags THEN fill ELSE <<>>))

-----------------------------------------------------------------------------
(* Fractions: natural numbers of units of 2^-FracBits                      *)

\* Whole part and prec digits of the fraction of x; the carry of the exact middle is not
\* handled.
Decimal(x, prec) ==
  LET one == 2^FracBits
      tmp == Rounded((x % one) * 10^prec)
      frac == tmp \div one
      diff == 2 * (tmp % one)
      whole == x \div one
      carry == frac + 1 >= 10^prec
  IN CASE diff > one -> IF carry THEN <<whole + 1, 0>> ELSE <<whole, frac + 1>>
       [] diff = one /\ (frac = 0 \/ frac % 2 = 1) -> <<whole, frac + 1>>
       [] OTHER -> <<whole, frac>>

\* Zeros for the digits that the table of powers does not reach, as many as there is room
\* for, and the digits that are left: more than the table has if the buffer is full.
ZerosBeyond == Put(<<>>, Chars(AskedPrec - MaxFloatPrec, "0"))
PrecLeft == AskedPrec - Len(ZerosBeyond)

\* The parts of x.  Behind the table the power may be any number, and so may be the digits.
Parts(x) ==
  IF PrecLeft <= MaxFloatPrec THEN {Decimal(x, PrecLeft)}
  ELSE {x \div 2^FracBits, x \div 2^FracBits + 1} \X (0..2^Bits.l - 1)

\* _ftoa of x, whose parts these are: the zeros beyond, the digits of the fraction, zeros up
\* to prec of them (a count that falls below 0 wraps, and zeros fill the buffer), the point,
\* the whole part, leading zeros and the sign.
FtoaOf(x, parts) ==
  LET prec == PrecLeft
      whole == IF prec = 0 /\ 2 * (x - parts[1] * 2^FracBits) >= 2^FracBits /\ parts[1] % 2 = 1
                 THEN parts[1] + 1 ELSE parts[1]
      digits == DigitsRev(parts[2], 10, FALSE)
      extra == IF Len(digits) > prec THEN NtoaSize ELSE prec - Len(digits)
      fraction == IF prec = 0 THEN ZerosBeyond
                  ELSE Put(Put(Put(ZerosBeyond, digits), Chars(extra, "0")), <<".">>)
      number == Put(fraction, DigitsRev(whole, 10, FALSE))
      c == [buf |-> number, negative |-> d.arg < 0, base |-> 10, prec |-> prec,
            width |-> Width(d), flags |-> Flags]
      zeros == "0" \in Flags /\ "-" \notin Flags
      width == IF zeros THEN ZeroWidth(c) ELSE c.width
      padded == IF zeros THEN Put(number, Chars(width - Len(number), "0")) ELSE number
  IN Convert([c EXCEPT !.buf = PutSign(padded, c), !.width = width], "rev")

Ftoa == Reads({"f"}) /\ \E parts \in Parts(Abs(d.arg)) : FtoaOf(Abs(d.arg), parts)

\* A power far behind the table may be in a page that is not mapped: the call ends there.
PowerFault ==
  /\ Reads({"f"}) /\ PrecLeft > MaxFloatPrec
  /\ pc' = "fault"
  /\ UNCHANGED <<kind, maxlen, format, idx, buffer, stream, cv, given, texts, text>>

\* _ftoa of nan and the infinities, kept as the reversed texts
FtoaSpecial ==
  /\ Reads({"special"})
  /\ LET sign == IF d.arg = "-inf" THEN <<"-">>
                 ELSE IF d.arg = "inf" /\ "+" \in Flags THEN <<"+">> ELSE <<>>
     IN Convert([Idle EXCEPT !.buf = Reverse(IF d.arg = "nan" THEN Nan ELSE Inf) \o sign,
                             !.width = Width(d), !.flags = Flags], "rev")

-----------------------------------------------------------------------------
(* Characters and strings                                                  *)

\* s in its field; the flag 0 does not count
Padded(s) ==
  LET fill == Chars(Width(d) - Len(s), " ")
  IN IF Left(d) THEN s \o fill ELSE fill \o s

\* An ordinary character, %% or an unknown conversion
Literal == Reads({"lit"}) /\ Out(<<d.arg>>)

Char == Reads({"c"}) /\ Out(Padded(<<d.arg>>))

String ==
  Reads({"s"}) /\ Out(Padded(IF HasPrec(d) THEN SubSeq(d.arg, 1, Least(Precision, Len(d.arg))) ELSE d.arg))

\* The 0 at the end: in the last place if the text is too long.
Terminate ==
  /\ pc = "next" /\ format = <<>>
  /\ Write(IF idx < maxlen THEN idx ELSE maxlen - 1, <<NUL>>)
  /\ pc' = "end"
  /\ UNCHANGED <<kind, maxlen, format, idx, cv, given, texts, text>>

Next ==
  \/ Integer \/ Pointer \/ NtoaFormat \/ OutRev
  \/ Ftoa \/ PowerFault \/ FtoaSpecial
  \/ Literal \/ Char \/ String
  \/ Terminate

Spec == Init /\ [][Next]_vars

-----------------------------------------------------------------------------
(* Properties                                                              *)

\* The variables keep their types; no conversion writes behind its local buffer of
\* NtoaSize characters, whatever width and precision ask for (printf.c:231-331, 343-467).
\* What _ftoa reads is another matter: see OutsideNotPrinted.
TypeOK ==
  /\ kind \in Kinds
  /\ pc \in {"next", "format", "rev", "end", "fault"}
  /\ Len(cv.buf) <= NtoaSize
  /\ cv.width >= 0 /\ cv.prec >= 0
  /\ DOMAIN buffer = 0..MaxBuffer - 1
  /\ idx >= 0 /\ Len(texts) + Len(format) = Len(given)

\* A precision above NtoaSize + MaxFloatPrec reads a power of 10 outside the table: the loop
\* that brings it down to 9 stops when the buffer is full (printf.c:382-389).  So nothing
\* that comes of that power is printed: the buffer holds NtoaSize zeros.
OutsideNotPrinted ==
  pc = "rev" /\ d.conv = "f" /\ cv.prec > MaxFloatPrec => cv.buf = Chars(NtoaSize, "0")

\* Each directive prints what C promises, but for exactly the cases that Departs and
\* MayDepart name (printf.c:203-467, 606-854).
AsInC ==
  \A i \in DOMAIN texts :
    ~MayDepart(given[i]) => (texts[i] \in CTexts(given[i]) <=> ~Departs(given[i]))

\* What is in the caller's buffer at the end: a prefix of the text and a 0.
InBuffer ==
  LET kept == Least(Len(text), maxlen - 1)
  IN \A k \in DOMAIN buffer :
       buffer[k] = IF kind # "buffer" \/ k > kept THEN Untouched ELSE IF k < kept THEN text[k + 1] ELSE NUL

\* The caller gets a prefix of the text that fits with a 0 behind it, nothing behind that
\* is touched, and the result is the length of the whole text, also when it was cut and
\* when there is no room at all (printf.c:857-861, printf.h:73-91).
Delivered ==
  pc = "end" => idx = Len(text) /\ InBuffer

\* The console, or the caller's function, gets the whole text, whatever maxlen is, except
\* for characters 0, which count for the result all the same (printf.c:153-171).
StreamComplete == pc = "end" /\ kind = "char" => stream = Kept(text)

=============================================================================
