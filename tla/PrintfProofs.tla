---------------------------- MODULE PrintfProofs ----------------------------
(***************************************************************************)
(* Theorems about Printf for any call, any size of the local buffers and   *)
(* any integer types: no conversion writes behind its local buffer, the    *)
(* caller's buffer gets exactly the part of the text that fits and a 0     *)
(* behind it, the caller's function all of it but the characters 0, and    *)
(* strings and integers without prefix print what C says.  Fractions and   *)
(* prefixes, and so AsInC as a whole, are left to TLC.                     *)
(***************************************************************************)
EXTENDS Printf, FiniteSetTheorems, SequenceTheorems, WellFoundedInduction, TLAPS

\* Places of a text put at i: where they are in the text so far followed by it.
LEMMA Shift ==
  ASSUME NEW i \in Nat, NEW k \in Nat, NEW n \in Nat, k >= i, k < i + n
  PROVE  /\ k - i + 1 \in 1..n /\ k + 1 \in 1..i + n
         /\ k + 1 - i = k - i + 1 /\ ~(k + 1 <= i)
OBVIOUS

USE PrintfAssumption, CallAssumption

-----------------------------------------------------------------------------
(* The invariant                                                           *)

\* What is in a local buffer.
Fits(b) == IsSeq(b) /\ Len(b) <= NtoaSize

\* What a conversion hands on.
Conversion(c) ==
  /\ DOMAIN c = {"buf", "negative", "base", "prec", "width", "flags"}
  /\ Fits(c.buf) /\ c.width \in Nat /\ c.prec \in Nat

\* The caller's buffer while directives are left: what fits of the text so far.
Written == \A k \in DOMAIN buffer :
             buffer[k] = IF kind # "buffer" \/ k >= maxlen \/ k >= idx THEN Untouched ELSE text[k + 1]

PrintfInv ==
  /\ kind \in Kinds /\ maxlen \in Nat /\ pc \in {"next", "format", "rev", "end", "fault"}
  /\ IsSeq(format) /\ \A i \in DOMAIN format : IsDirective(format[i])
  /\ IsSeq(texts) /\ Len(texts) + Len(format) = Len(given)
  /\ IsSeq(text) /\ idx = Len(text)
  /\ Conversion(cv)
  /\ pc \in {"format", "rev"} => format # <<>>
  /\ buffer = [k \in 0..MaxBuffer - 1 |-> buffer[k]]
  /\ IF pc = "end" THEN InBuffer ELSE Written
  /\ IsSeq(stream) /\ (kind = "char" => stream = Kept(text))

-----------------------------------------------------------------------------
(* Texts                                                                   *)

LEMMA AnySeq ==
  ASSUME NEW S, NEW s \in Seq(S)
  PROVE  IsSeq(s)
<1>1. Len(s) \in Nat /\ s \in [1..Len(s) -> S] /\ DOMAIN s = 1..Len(s)
  BY LenProperties
<1>2. s \in [1..Len(s) -> ToSet(s)]
  BY <1>1 DEF ToSet
<1> QED
  BY <1>1, <1>2 DEF IsSeq

LEMMA SeqLen ==
  ASSUME NEW s, IsSeq(s)
  PROVE  Len(s) \in Nat /\ DOMAIN s = 1..Len(s)
  BY LenProperties DEF IsSeq

LEMMA Tuple == IsSeq(<<>>) /\ Len(<<>>) = 0 /\ \A x : IsSeq(<<x>>) /\ Len(<<x>>) = 1 /\ <<x>>[1] = x
<1>1. <<>> \in Seq({})
  OBVIOUS
<1>2. ASSUME NEW x PROVE <<x>> \in Seq({x})
  OBVIOUS
<1> QED
  BY <1>1, <1>2, AnySeq

LEMMA Concat ==
  ASSUME NEW s, NEW t, IsSeq(s), IsSeq(t)
  PROVE  /\ IsSeq(s \o t) /\ Len(s \o t) = Len(s) + Len(t)
         /\ \A i \in 1..Len(s) + Len(t) : (s \o t)[i] = IF i <= Len(s) THEN s[i] ELSE t[i - Len(s)]
<1> DEFINE S == ToSet(s) \cup ToSet(t)
<1>1. s \in Seq(S) /\ t \in Seq(S)
  BY SeqMonotonic DEF IsSeq
<1> HIDE DEF S
<1> QED
  BY <1>1, ConcatProperties, AnySeq

LEMMA Prefix ==
  ASSUME NEW s, IsSeq(s), NEW n \in Int, n <= Len(s)
  PROVE  IsSeq(SubSeq(s, 1, n)) /\ Len(SubSeq(s, 1, n)) = IF n < 0 THEN 0 ELSE n
<1>1. Len(s) \in Nat /\ DOMAIN s = 1..Len(s)
  BY SeqLen
<1>2. \A i \in 1..n : s[i] \in ToSet(s)
  <2>1. 1..n \subseteq DOMAIN s
    BY <1>1
  <2> QED
    BY <2>1, Zenon DEF ToSet
<1>3. SubSeq(s, 1, n) \in Seq(ToSet(s)) /\ Len(SubSeq(s, 1, n)) = IF 1 <= n THEN n - 1 + 1 ELSE 0
  BY <1>2, SubSeqProperties
<1>4. IsSeq(SubSeq(s, 1, n))
  BY <1>3, AnySeq
<1>5. (IF 1 <= n THEN n - 1 + 1 ELSE 0) = (IF n < 0 THEN 0 ELSE n)
  OBVIOUS
<1> QED
  BY <1>3, <1>4, <1>5

LEMMA CharsAre ==
  ASSUME NEW n \in Int, NEW ch
  PROVE  IsSeq(Chars(n, ch))
<1>1. CASE n > 0
  <2>1. Chars(n, ch) \in Seq({ch})
    BY <1>1 DEF Chars
  <2> QED
    BY <2>1, AnySeq
<1>2. CASE ~(n > 0)
  BY <1>2, Tuple DEF Chars
<1> QED
  BY <1>1, <1>2

LEMMA ReverseIs ==
  ASSUME NEW s, IsSeq(s)
  PROVE  IsSeq(Reverse(s)) /\ Len(Reverse(s)) = Len(s)
<1>1. Len(s) \in Nat /\ DOMAIN s = 1..Len(s)
  BY SeqLen
<1>2. \A i \in 1..Len(s) : s[(Len(s) - i) + 1] \in ToSet(s)
  BY SMTT(30), <1>1 DEF ToSet
<1>3. Reverse(s) \in [1..Len(s) -> ToSet(s)]
  BY <1>2 DEF Reverse
<1>4. Reverse(s) \in Seq(ToSet(s)) /\ Len(Reverse(s)) = Len(s)
  BY <1>1, <1>3
<1> QED
  BY <1>4, AnySeq

LEMMA DigitsAre ==
  ASSUME NEW n, NEW base, NEW upper
  PROVE  IsSeq(DigitsRev(n, base, upper))
<1> DEFINE pos == {k \in 1..Bits.l : base^(k - 1) <= n}
<1> DEFINE count == IF n = 0 THEN 1 ELSE Cardinality(pos)
<1>1. Bits.l \in Int
  OBVIOUS
<1>2. IsFiniteSet(1..Bits.l)
  <2>1. \A m \in Int : IsFiniteSet(1..m)
    <3> TAKE m \in Int
    <3>1. 1 \in Int
      OBVIOUS
    <3> QED
      BY <3>1, FS_Interval, Zenon
  <2> QED
    BY <1>1, <2>1
<1>3. Cardinality(pos) \in Nat
  BY <1>2, FS_Subset, FS_CardinalityType
<1>4. count \in Nat
  BY <1>3
<1> HIDE DEF count
<1> DEFINE digit(k) == (IF upper THEN UpperHexDigits ELSE HexDigits)[((n \div base^(k - 1)) % base) + 1]
<1> DEFINE f == [k \in 1..count |-> digit(k)]
<1>5. f \in [1..count -> {digit(k) : k \in 1..count}]
  OBVIOUS
<1>6. DigitsRev(n, base, upper) = f
  BY DEF DigitsRev, count
<1> HIDE DEF f
<1>7. ASSUME NEW S, f \in [1..count -> S] PROVE f \in Seq(S)
  BY <1>4, <1>7
<1>8. f \in Seq({digit(k) : k \in 1..count})
  BY <1>5, <1>7
<1> QED
  BY <1>6, <1>8, AnySeq

LEMMA SameText ==
  ASSUME NEW s, NEW t, IsSeq(s), IsSeq(t), Len(s) = Len(t), \A i \in 1..Len(s) : s[i] = t[i]
  PROVE  s = t
<1> DEFINE S == ToSet(s) \cup ToSet(t)
<1>1. s \in Seq(S) /\ t \in Seq(S)
  BY SeqMonotonic DEF IsSeq
<1> HIDE DEF S
<1> QED
  BY <1>1, SeqEqual

LEMMA NoText ==
  ASSUME NEW s, IsSeq(s)
  PROVE  s \o <<>> = s /\ <<>> \o s = s
  BY ConcatEmptySeq DEF IsSeq

LEMMA SameInterval ==
  ASSUME NEW n \in Nat, NEW k \in Nat, 1..n = 1..k
  PROVE  n = k
<1>1. n > 0 => n \in 1..k
  OBVIOUS
<1>2. k > 0 => k \in 1..n
  OBVIOUS
<1> QED
  BY <1>1, <1>2

LEMMA CharsText ==
  ASSUME NEW n \in Int, NEW ch
  PROVE  /\ IsSeq(Chars(n, ch)) /\ Len(Chars(n, ch)) = (IF n > 0 THEN n ELSE 0)
         /\ \A i \in 1..n : Chars(n, ch)[i] = ch
         /\ n <= 0 => Chars(n, ch) = <<>>
<1>1. IsSeq(Chars(n, ch))
  BY CharsAre
<1>2. CASE n > 0
  <2>1. Chars(n, ch) = [k \in 1..n |-> ch]
    BY <1>2 DEF Chars
  <2>2. DOMAIN Chars(n, ch) = 1..n /\ \A i \in 1..n : Chars(n, ch)[i] = ch
    BY <2>1
  <2>3. Len(Chars(n, ch)) \in Nat /\ DOMAIN Chars(n, ch) = 1..Len(Chars(n, ch))
    BY <1>1, SeqLen
  <2>4. n \in Nat
    BY <1>2
  <2>5. Len(Chars(n, ch)) = n
    BY <2>2, <2>3, <2>4, SameInterval
  <2> QED
    BY <1>1, <1>2, <2>2, <2>5
<1>3. CASE ~(n > 0)
  <2>1. Chars(n, ch) = <<>> /\ 1..n = {}
    BY <1>3 DEF Chars
  <2> QED
    BY <1>1, <1>3, <2>1, Tuple
<1> QED
  BY <1>2, <1>3

LEMMA PutFits ==
  ASSUME NEW b, NEW s, Fits(b), IsSeq(s)
  PROVE  Fits(Put(b, s))
<1> DEFINE n == Least(Len(s), NtoaSize - Len(b))
<1>1. Len(b) \in Nat /\ Len(s) \in Nat /\ Len(b) <= NtoaSize /\ NtoaSize \in Nat
  BY SeqLen DEF Fits
<1>2. n \in Nat /\ n <= Len(s) /\ n <= NtoaSize - Len(b)
  BY <1>1 DEF Least
<1> DEFINE t == SubSeq(s, 1, n)
<1>3. IsSeq(t) /\ Len(t) = n
  BY <1>2, Prefix
<1>4. Put(b, s) = b \o t
  BY DEF Put
<1> HIDE DEF n, t
<1>5. IsSeq(b \o t) /\ Len(b \o t) = Len(b) + Len(t)
  BY <1>3, Concat DEF Fits
<1> QED
  BY <1>1, <1>2, <1>3, <1>4, <1>5 DEF Fits

\* Nothing is put in a buffer that is full.
LEMMA PutFull ==
  ASSUME NEW b, NEW s, IsSeq(b), IsSeq(s), Len(b) = NtoaSize
  PROVE  Put(b, s) = b
<1>1. Len(s) \in Nat /\ NtoaSize \in Nat /\ Least(Len(s), NtoaSize - Len(b)) = 0
  BY SeqLen DEF Least
<1>2. SubSeq(s, 1, 0) = <<>>
  <2>1. IsSeq(SubSeq(s, 1, 0)) /\ Len(SubSeq(s, 1, 0)) = 0
    BY <1>1, Prefix
  <2> QED
    BY <2>1, Tuple, SameText
<1>3. b \o <<>> = b
  BY NoText
<1> QED
  BY <1>1, <1>2, <1>3 DEF Put

-----------------------------------------------------------------------------
(* What the character functions hand on                                    *)

LEMMA LeastNatural ==
  ASSUME NEW T \in SUBSET Nat, T # {}
  PROVE  \E n \in T : \A m \in T : n <= m
<1> DEFINE R == OpToRel(<, Nat)
<1>1. IsWellFoundedOn(R, Nat)
  BY NatLessThanWellFounded
<1>2. \A y \in T, x \in T : y < x => <<y, x>> \in R
  BY DEF OpToRel
<1> HIDE DEF R
<1>3. PICK x \in T : \A y \in T : ~(<<y, x>> \in R)
  BY <1>1, WFMin
<1>4. \A y \in T : ~(y < x)
  BY <1>2, <1>3
<1>5. T \subseteq Nat
  OBVIOUS
<1> QED
  BY <1>4, <1>5

\* Induction up to n: T is the set of the numbers the claim holds for.
LEMMA UpTo ==
  ASSUME NEW n \in Nat, NEW T, 0 \in T, \A m \in 1..n : m - 1 \in T => m \in T
  PROVE  0..n \subseteq T
<1> DEFINE rest == (0..n) \ T
<1>1. SUFFICES ASSUME rest # {} PROVE FALSE
  OBVIOUS
<1>2. PICK x \in rest : \A y \in rest : x <= y
  <2>1. rest \in SUBSET Nat
    OBVIOUS
  <2> HIDE DEF rest
  <2> QED
    BY <1>1, <2>1, LeastNatural
<1>3. x \in 1..n /\ x - 1 \in 0..n /\ ~(x <= x - 1)
  OBVIOUS
<1>4. x - 1 \in rest
  BY <1>3
<1> QED
  BY <1>2, <1>3, <1>4

\* f gives what is handed on of the first m characters, for m up to n.
HandsOn(f, s, n) ==
  f = [m \in 0..n |-> IF m = 0 THEN <<>>
                      ELSE IF s[m] = NUL THEN f[m - 1] ELSE Append(f[m - 1], s[m])]

LEMMA KeptIs ==
  ASSUME NEW s, IsSeq(s)
  PROVE  \E f : /\ HandsOn(f, s, Len(s)) /\ Kept(s) = f[Len(s)]
               /\ \A m \in 0..Len(s) : f[m] \in Seq(ToSet(s))
<1>1. Len(s) \in Nat /\ DOMAIN s = 1..Len(s)
  BY SeqLen
<1>2. \E f : HandsOn(f, s, Len(s))
  <2> DEFINE T == {n \in Nat : \E f : HandsOn(f, s, n)}
  <2>1. 0 \in T
    <3> DEFINE f == [m \in 0..0 |-> <<>>]
    <3>1. HandsOn(f, s, 0)
      BY DEF HandsOn
    <3> QED
      BY <3>1
  <2>2. ASSUME NEW n \in 1..Len(s), n - 1 \in T PROVE n \in T
    <3>1. PICK f : HandsOn(f, s, n - 1)
      BY <2>2
    <3> DEFINE g == [m \in 0..n |-> IF m = n THEN IF s[n] = NUL THEN f[n - 1] ELSE Append(f[n - 1], s[n])
                                    ELSE f[m]]
    <3>2. n \in Nat /\ n # 0 /\ n - 1 \in 0..n - 1
      BY <1>1
    <3>3. HandsOn(g, s, n)
      <4>1. ASSUME NEW m \in 0..n
            PROVE  g[m] = IF m = 0 THEN <<>> ELSE IF s[m] = NUL THEN g[m - 1] ELSE Append(g[m - 1], s[m])
        <5>1. CASE m = n
          <6>1. g[m] = IF s[n] = NUL THEN f[n - 1] ELSE Append(f[n - 1], s[n])
            BY <5>1
          <6>2. g[m - 1] = f[n - 1]
            BY <3>2, <5>1
          <6> QED
            BY <3>2, <5>1, <6>1, <6>2
        <5>2. CASE m # n
          <6>1. m \in 0..n - 1 /\ (m # 0 => m - 1 \in 0..n - 1 /\ m - 1 \in 0..n /\ m - 1 # n)
            BY <3>2, <5>2
          <6>2. f[m] = IF m = 0 THEN <<>> ELSE IF s[m] = NUL THEN f[m - 1] ELSE Append(f[m - 1], s[m])
            BY <3>1, <6>1 DEF HandsOn
          <6>3. g[m] = f[m] /\ (m # 0 => g[m - 1] = f[m - 1])
            BY <5>2, <6>1
          <6> QED
            BY <6>2, <6>3
        <5> QED
          BY <5>1, <5>2
      <4> HIDE DEF g
      <4>2. g = [m \in 0..n |-> g[m]]
        BY DEF g
      <4> QED
        BY <4>1, <4>2 DEF HandsOn
    <3> QED
      BY <3>2, <3>3
  <2> HIDE DEF T
  <2>3. 0..Len(s) \subseteq T
    BY <1>1, <2>1, <2>2, UpTo
  <2> QED
    BY <1>1, <2>3 DEF T
<1> DEFINE h == CHOOSE f : HandsOn(f, s, Len(s))
<1>3. HandsOn(h, s, Len(s))
  BY <1>2
<1>4. Kept(s) = h[Len(s)]
  BY DEF Kept, HandsOn
<1> HIDE DEF h
<1>5. \A m \in 0..Len(s) : h[m] \in Seq(ToSet(s))
  <2> DEFINE T == {m \in 0..Len(s) : h[m] \in Seq(ToSet(s))}
  <2>1. 0 \in T
    BY <1>1, <1>3 DEF HandsOn
  <2>2. ASSUME NEW m \in 1..Len(s), m - 1 \in T PROVE m \in T
    <3>1. m \in 0..Len(s) /\ m # 0 /\ h[m - 1] \in Seq(ToSet(s))
      BY <1>1, <2>2
    <3>2. h[m] = IF s[m] = NUL THEN h[m - 1] ELSE Append(h[m - 1], s[m])
      BY <1>3, <3>1 DEF HandsOn
    <3>3. s[m] \in ToSet(s)
      BY <1>1 DEF ToSet
    <3> HIDE DEF T
    <3>4. h[m] \in Seq(ToSet(s))
      BY <3>1, <3>2, <3>3
    <3> QED
      BY <3>1, <3>4 DEF T
  <2> HIDE DEF T
  <2>3. 0..Len(s) \subseteq T
    BY <1>1, <2>1, <2>2, UpTo
  <2> QED
    BY <2>3 DEF T
<1> QED
  BY <1>3, <1>4, <1>5

LEMMA HandedOn ==
  ASSUME NEW n \in Nat, NEW f, NEW s, HandsOn(f, s, n)
  PROVE  /\ f[0] = <<>>
         /\ \A k \in 1..n : f[k] = IF s[k] = NUL THEN f[k - 1] ELSE Append(f[k - 1], s[k])
<1>1. 0 \in 0..n /\ \A k \in 1..n : k \in 0..n /\ k # 0
  OBVIOUS
<1> QED
  BY <1>1 DEF HandsOn

\* A character put behind two texts in a row is one put behind the second.
AppendsToSecond(a, b, x) == Append(a \o b, x) = a \o Append(b, x)

LEMMA AppendConcat ==
  ASSUME NEW S, NEW a \in Seq(S), NEW b \in Seq(S), NEW x \in S
  PROVE  AppendsToSecond(a, b, x)
<1> DEFINE p == a \o b
           q == Append(b, x)
           m == Len(a)
           n == Len(b)
<1>1. m \in Nat /\ n \in Nat
  BY LenProperties
<1>2. /\ p \in Seq(S) /\ Len(p) = m + n
      /\ \A i \in 1..m + n : p[i] = IF i <= m THEN a[i] ELSE b[i - m]
  BY ConcatProperties
<1>3. /\ q \in Seq(S) /\ Len(q) = n + 1 /\ q[n + 1] = x
      /\ \A i \in 1..n : q[i] = b[i]
  BY AppendProperties
<1> HIDE DEF p, q
<1> DEFINE l == Append(p, x)
           r == a \o q
<1>4. /\ l \in Seq(S) /\ Len(l) = Len(p) + 1 /\ l[Len(p) + 1] = x
      /\ \A i \in 1..Len(p) : l[i] = p[i]
  <2>1. p \in Seq(S)
    BY <1>2
  <2> QED
    BY <2>1, AppendProperties
<1>5. /\ r \in Seq(S) /\ Len(r) = m + Len(q)
      /\ \A i \in 1..m + Len(q) : r[i] = IF i <= m THEN a[i] ELSE q[i - m]
  BY <1>3, ConcatProperties
<1> HIDE DEF l, r, m, n
<1>6. m + Len(q) = m + n + 1 /\ Len(p) + 1 = m + n + 1
  <2>1. Len(q) = n + 1 /\ Len(p) = m + n
    BY <1>2, <1>3, Zenon
  <2> QED
    BY <1>1, <2>1
<1>7. ASSUME NEW i \in 1..m + n + 1 PROVE l[i] = r[i]
  <2>1. r[i] = IF i <= m THEN a[i] ELSE q[i - m]
    BY <1>5, <1>6
  <2>2. CASE i = m + n + 1
    <3>1. ~(i <= m) /\ i - m = n + 1
      BY <1>1, <2>2
    <3> QED
      BY <1>3, <1>4, <1>6, <2>1, <2>2, <3>1
  <2>3. CASE i # m + n + 1
    <3>1. i \in 1..m + n /\ (~(i <= m) => i - m \in 1..n)
      BY <1>1, <2>3
    <3>2. l[i] = IF i <= m THEN a[i] ELSE b[i - m]
      BY <1>2, <1>4, <3>1
    <3> QED
      BY <1>3, <2>1, <3>1, <3>2
  <2> QED
    BY <2>2, <2>3
<1>8. Len(l) = m + n + 1 /\ Len(r) = m + n + 1
  BY <1>4, <1>5, <1>6
<1>9. l = r
  BY <1>4, <1>5, <1>7, <1>8, SeqEqual, Zenon
<1> QED
  BY <1>9 DEF AppendsToSecond, l, r, p, q

\* What is handed on of two texts in a row.
LEMMA KeptConcat ==
  ASSUME NEW s, NEW t, IsSeq(s), IsSeq(t)
  PROVE  Kept(s \o t) = Kept(s) \o Kept(t)
<1> DEFINE u == s \o t
           m == Len(s)
           n == Len(t)
<1>1. m \in Nat /\ n \in Nat
  BY SeqLen
<1>2. /\ IsSeq(u) /\ Len(u) = m + n
      /\ \A i \in 1..m + n : u[i] = IF i <= m THEN s[i] ELSE t[i - m]
  BY Concat
<1>3. PICK f : /\ HandsOn(f, s, m) /\ Kept(s) = f[m] /\ \A k \in 0..m : f[k] \in Seq(ToSet(s))
  BY KeptIs
<1>4. PICK g : /\ HandsOn(g, t, n) /\ Kept(t) = g[n] /\ \A k \in 0..n : g[k] \in Seq(ToSet(t))
  BY KeptIs
<1>5. PICK h : HandsOn(h, u, m + n) /\ Kept(u) = h[m + n]
  BY <1>2, KeptIs
<1>6. /\ f[0] = <<>>
      /\ \A k \in 1..m : f[k] = IF s[k] = NUL THEN f[k - 1] ELSE Append(f[k - 1], s[k])
  BY <1>1, <1>3, HandedOn
<1>7. /\ g[0] = <<>>
      /\ \A k \in 1..n : g[k] = IF t[k] = NUL THEN g[k - 1] ELSE Append(g[k - 1], t[k])
  BY <1>1, <1>4, HandedOn
<1>8. /\ h[0] = <<>>
      /\ \A k \in 1..m + n : h[k] = IF u[k] = NUL THEN h[k - 1] ELSE Append(h[k - 1], u[k])
  <2>1. m + n \in Nat
    BY <1>1
  <2> HIDE DEF u, m, n
  <2> QED
    BY <1>5, <2>1, HandedOn
<1> DEFINE S == ToSet(s) \cup ToSet(t)
<1>9. /\ \A k \in 1..n : t[k] \in S
      /\ \A k \in 0..m : f[k] \in Seq(S)
      /\ \A k \in 0..n : g[k] \in Seq(S)
  <2>1. \A k \in 1..n : t[k] \in S
    BY SeqLen DEF ToSet
  <2>2. Seq(ToSet(s)) \subseteq Seq(S) /\ Seq(ToSet(t)) \subseteq Seq(S)
    BY SeqMonotonic
  <2> QED
    BY <1>3, <1>4, <2>1, <2>2
<1> HIDE DEF u, m, n, S
<1>10. h[m] = f[m]
  <2> DEFINE T == {k \in 0..m : h[k] = f[k]}
  <2>1. 0 \in T
    BY <1>1, <1>6, <1>8
  <2>2. ASSUME NEW k \in 1..m, k - 1 \in T PROVE k \in T
    <3>1. k \in 0..m /\ k \in 1..m + n /\ k <= m /\ h[k - 1] = f[k - 1]
      BY <1>1, <2>2
    <3>2. u[k] = s[k]
      BY <1>2, <3>1
    <3> QED
      BY <1>6, <1>8, <3>1, <3>2
  <2> HIDE DEF T
  <2>3. 0..m \subseteq T
    BY <1>1, <2>1, <2>2, UpTo
  <2>4. m \in T
    BY <1>1, <2>3
  <2> QED
    BY <2>4 DEF T
<1>11. h[m + n] = f[m] \o g[n]
  <2> DEFINE T == {k \in 0..n : h[m + k] = f[m] \o g[k]}
  <2>1. 0 \in T
    <3>1. f[m] \o <<>> = f[m]
      <4>1. f[m] \in Seq(S)
        BY <1>1, <1>9
      <4> QED
        BY <4>1, ConcatEmptySeq
    <3>2. m + 0 = m /\ 0 \in 0..n
      BY <1>1
    <3>3. h[m + 0] = f[m] \o g[0]
      BY <1>7, <1>10, <3>1, <3>2
    <3> QED
      BY <3>2, <3>3
  <2>2. ASSUME NEW k \in 1..n, k - 1 \in T PROVE k \in T
    <3>1. /\ k \in 0..n /\ m + k \in 1..m + n /\ ~(m + k <= m) /\ (m + k) - m = k
          /\ k - 1 \in 0..n /\ m + (k - 1) = (m + k) - 1
      BY <1>1
    <3>2. h[(m + k) - 1] = f[m] \o g[k - 1]
      <4>1. h[m + (k - 1)] = f[m] \o g[k - 1]
        BY <2>2
      <4> QED
        BY <3>1, <4>1
    <3>3. u[m + k] = t[k]
      <4>1. u[m + k] = IF m + k <= m THEN s[m + k] ELSE t[(m + k) - m]
        BY <1>2, <3>1
      <4> QED
        BY <3>1, <4>1
    <3>4. f[m] \in Seq(S) /\ g[k - 1] \in Seq(S) /\ t[k] \in S
      <4>1. m \in 0..m /\ k \in 1..n
        BY <1>1
      <4> QED
        BY <1>9, <3>1, <4>1, Zenon
    <3>5. Append(f[m] \o g[k - 1], t[k]) = f[m] \o Append(g[k - 1], t[k])
      <4>1. AppendsToSecond(f[m], g[k - 1], t[k])
        BY <3>4, AppendConcat
      <4> QED
        BY <4>1 DEF AppendsToSecond
    <3>6. h[m + k] = f[m] \o g[k]
      BY <1>7, <1>8, <3>1, <3>2, <3>3, <3>5
    <3> QED
      BY <3>1, <3>6
  <2> HIDE DEF T
  <2>3. 0..n \subseteq T
    BY <1>1, <2>1, <2>2, UpTo
  <2>4. n \in T
    BY <1>1, <2>3
  <2> QED
    BY <2>4 DEF T
<1> QED
  BY <1>3, <1>4, <1>5, <1>10, <1>11 DEF u

\* Nothing is handed on of no text, and of a 0.
LEMMA KeptNothing == Kept(<<>>) = <<>> /\ Kept(<<NUL>>) = <<>>
<1>1. Kept(<<>>) = <<>>
  <2>1. IsSeq(<<>>) /\ Len(<<>>) = 0
    BY Tuple
  <2> QED
    BY <2>1, KeptIs DEF HandsOn
<1>2. Kept(<<NUL>>) = <<>>
  <2>1. IsSeq(<<NUL>>) /\ Len(<<NUL>>) = 1 /\ <<NUL>>[1] = NUL
    BY Tuple
  <2>2. PICK f : HandsOn(f, <<NUL>>, 1) /\ Kept(<<NUL>>) = f[1]
    BY <2>1, KeptIs
  <2>3. f[0] = <<>> /\ f[1] = f[0]
    BY <2>1, <2>2 DEF HandsOn
  <2> QED
    BY <2>2, <2>3
<1> QED
  BY <1>1, <1>2

-----------------------------------------------------------------------------
(* Steps                                                                   *)

\* The directive that is read
LEMMA Directive ==
  ASSUME PrintfInv, format # <<>>
  PROVE  /\ IsDirective(d) /\ Len(format) \in Nat
         /\ IsSeq(Tail(format)) /\ Len(Tail(format)) = Len(format) - 1
         /\ \A i \in DOMAIN Tail(format) : IsDirective(Tail(format)[i])
<1>1. format \in Seq(ToSet(format)) /\ Len(format) \in Nat /\ DOMAIN format = 1..Len(format)
  BY SeqLen DEF PrintfInv, IsSeq
<1>2. /\ Head(format) \in ToSet(format) /\ Tail(format) \in Seq(ToSet(format))
      /\ Len(Tail(format)) = Len(format) - 1
      /\ \A i \in 1..Len(Tail(format)) : Tail(format)[i] = format[i + 1]
  BY <1>1, HeadTailProperties
<1>3. IsSeq(Tail(format)) /\ DOMAIN Tail(format) = 1..Len(Tail(format))
  BY <1>2, AnySeq, SeqLen
<1>4. IsDirective(d)
  BY <1>2 DEF PrintfInv, ToSet, d
<1>5. ASSUME NEW i \in DOMAIN Tail(format) PROVE IsDirective(Tail(format)[i])
  <2>1. i + 1 \in DOMAIN format /\ Tail(format)[i] = format[i + 1]
    BY <1>1, <1>2, <1>3
  <2> QED
    BY <2>1 DEF PrintfInv
<1> QED
  BY <1>1, <1>2, <1>3, <1>4, <1>5

LEMMA Numbers ==
  ASSUME IsDirective(d)
  PROVE  Width(d) \in Nat /\ Precision \in Nat
  BY DEF IsDirective, Width, Abs, Precision, Prec, HasPrec

LEMMA ConvertStep ==
  ASSUME PrintfInv, NEW c, NEW to \in {"format", "rev"}, Convert(c, to), Conversion(c),
         format # <<>>, pc # "end"
  PROVE  PrintfInv'
  BY DEF PrintfInv, Convert, Written, Conversion

\* What the output functions leave in the caller's buffer.
LEMMA WriteStep ==
  ASSUME PrintfInv, NEW pos, NEW s, IsSeq(s), Write(pos, s)
  PROVE  /\ buffer' = [k \in 0..MaxBuffer - 1 |-> buffer'[k]]
         /\ \A k \in DOMAIN buffer' :
              buffer'[k] = IF kind = "buffer" /\ k < maxlen /\ k - pos + 1 \in 1..Len(s)
                             THEN s[k - pos + 1] ELSE buffer[k]
<1>1. DOMAIN s = 1..Len(s)
  BY SeqLen
<1>2. DOMAIN buffer = 0..MaxBuffer - 1
  BY DEF PrintfInv
<1>3. CASE kind = "buffer"
  BY <1>1, <1>2, <1>3 DEF Write, BufferWith
<1>4. CASE kind # "buffer"
  BY <1>4 DEF Write, BufferWith, PrintfInv
<1> QED
  BY <1>3, <1>4

\* What they hand on.
LEMMA StreamStep ==
  ASSUME PrintfInv, NEW pos, NEW s, IsSeq(s), Write(pos, s)
  PROVE  IsSeq(stream') /\ stream' = IF kind = "char" THEN stream \o Kept(s) ELSE stream
<1>1. stream' = IF kind = "char" THEN stream \o Kept(s) ELSE stream
  BY DEF Write
<1>2. IsSeq(Kept(s)) /\ IsSeq(stream)
  <2>1. Kept(s) \in Seq(ToSet(s))
    <3>1. Len(s) \in 0..Len(s)
      BY SeqLen
    <3> QED
      BY <3>1, KeptIs
  <2> QED
    BY <2>1, AnySeq DEF PrintfInv
<1> QED
  BY <1>1, <1>2, Concat

LEMMA OutStep ==
  ASSUME PrintfInv, NEW s, IsSeq(s), Out(s), format # <<>>, pc # "end"
  PROVE  PrintfInv'
<1>1. /\ Write(idx, s) /\ idx' = idx + Len(s) /\ text' = text \o s /\ texts' = Append(texts, s)
      /\ format' = Tail(format) /\ cv' = Idle /\ pc' = "next" /\ UNCHANGED <<kind, maxlen, given>>
  BY DEF Out
<1>2. /\ Len(text) \in Nat /\ Len(s) \in Nat /\ idx = Len(text) /\ maxlen \in Nat
      /\ IsSeq(text) /\ IsSeq(texts)
  BY SeqLen DEF PrintfInv
<1>3. /\ IsSeq(text \o s) /\ Len(text \o s) = Len(text) + Len(s)
      /\ \A i \in 1..Len(text) + Len(s) : (text \o s)[i] = IF i <= Len(text) THEN text[i] ELSE s[i - Len(text)]
  BY <1>2, Concat
<1>4. IsSeq(texts') /\ Len(texts') + Len(format') = Len(given')
  <2>1. Append(texts, s) = texts \o <<s>>
    BY SMTT(30), <1>2 DEF IsSeq
  <2>2. IsSeq(<<s>>) /\ Len(<<s>>) = 1
    BY Tuple
  <2>3. IsSeq(texts \o <<s>>) /\ Len(texts \o <<s>>) = Len(texts) + 1
    BY <1>2, <2>2, Concat
  <2>4. Len(Tail(format)) = Len(format) - 1 /\ Len(format) \in Nat
    BY Directive
  <2>5. Len(texts) \in Nat /\ Len(texts) + Len(format) = Len(given)
    BY SeqLen DEF PrintfInv
  <2> QED
    BY <1>1, <2>1, <2>3, <2>4, <2>5
<1>5. Conversion(Idle)
  <2>1. IsSeq(<<>>) /\ Len(<<>>) = 0
    BY Tuple
  <2> QED
    BY <2>1 DEF Idle, Conversion, Fits
<1>6. Written'
  <2>1. /\ buffer' = [k \in 0..MaxBuffer - 1 |-> buffer'[k]]
        /\ \A k \in DOMAIN buffer' :
             buffer'[k] = IF kind = "buffer" /\ k < maxlen /\ k - idx + 1 \in 1..Len(s)
                            THEN s[k - idx + 1] ELSE buffer[k]
    BY <1>1, WriteStep
  <2>2. Written /\ DOMAIN buffer = 0..MaxBuffer - 1
    BY DEF PrintfInv
  <2>3. ASSUME NEW k \in 0..MaxBuffer - 1
        PROVE  buffer'[k] = IF kind # "buffer" \/ k >= maxlen \/ k >= idx + Len(s) THEN Untouched
                            ELSE (text \o s)[k + 1]
    <3>1. buffer[k] = IF kind # "buffer" \/ k >= maxlen \/ k >= idx THEN Untouched ELSE text[k + 1]
      BY <2>2 DEF Written
    <3>2. buffer'[k] = IF kind = "buffer" /\ k < maxlen /\ k - idx + 1 \in 1..Len(s)
                         THEN s[k - idx + 1] ELSE buffer[k]
      BY <2>1
    <3>6. k \in Nat /\ idx \in Nat /\ Len(s) \in Nat /\ Len(text) = idx
      BY <1>2
    <3>3. CASE k < idx
      BY <1>2, <1>3, <3>1, <3>2, <3>3
    <3>4. CASE k >= idx /\ k < idx + Len(s)
      <4>1. k - idx + 1 \in 1..Len(s) /\ k + 1 \in 1..Len(text) + Len(s) /\ k + 1 - Len(text) = k - idx + 1
            /\ ~(k + 1 <= Len(text))
        BY <3>6, <3>4, Shift
      <4>2. (text \o s)[k + 1] = s[k - idx + 1]
        BY <1>3, <4>1
      <4> QED
        BY SMTT(30), <1>2, <3>1, <3>2, <3>4, <4>1, <4>2
    <3>5. CASE k >= idx + Len(s)
      BY <1>2, <3>1, <3>2, <3>5
    <3> QED
      BY SMTT(30), <3>6, <3>3, <3>4, <3>5
  <2> QED
    BY <1>1, <2>1, <2>3 DEF Written
<1>7. /\ IsSeq(format') /\ \A i \in DOMAIN format' : IsDirective(format'[i])
  BY <1>1, Directive
<1>8. buffer' = [k \in 0..MaxBuffer - 1 |-> buffer'[k]]
  BY <1>1, WriteStep
<1>9. IsSeq(text') /\ idx' = Len(text')
  BY <1>1, <1>2, <1>3
<1>10. IsSeq(stream') /\ (kind' = "char" => stream' = Kept(text'))
  <2>1. Kept(text \o s) = Kept(text) \o Kept(s)
    BY <1>2, KeptConcat
  <2> QED
    BY <1>1, <2>1, StreamStep DEF PrintfInv
<1> QED
  BY <1>1, <1>4, <1>5, <1>6, <1>7, <1>8, <1>9, <1>10 DEF PrintfInv

\* The last character that is written is the 0.
LEMMA TerminateStep == ASSUME PrintfInv, Terminate PROVE PrintfInv'
<1> DEFINE pos == IF idx < maxlen THEN idx ELSE maxlen - 1
<1>1. /\ Write(pos, <<NUL>>) /\ pc' = "end" /\ pc = "next"
      /\ UNCHANGED <<kind, maxlen, format, idx, cv, given, texts, text>>
  BY DEF Terminate
<1>2. idx = Len(text) /\ Len(text) \in Nat /\ maxlen \in Nat
  BY SeqLen DEF PrintfInv
<1>3. IsSeq(<<NUL>>) /\ Len(<<NUL>>) = 1 /\ <<NUL>>[1] = NUL
  BY Tuple
<1>4. /\ buffer' = [k \in 0..MaxBuffer - 1 |-> buffer'[k]]
      /\ \A k \in DOMAIN buffer' :
           buffer'[k] = IF kind = "buffer" /\ k < maxlen /\ k - pos + 1 \in 1..1
                          THEN <<NUL>>[k - pos + 1] ELSE buffer[k]
  BY <1>1, <1>3, WriteStep
<1>5. DOMAIN buffer = 0..MaxBuffer - 1 /\ Written
  BY <1>1 DEF PrintfInv
<1> DEFINE kept == Least(Len(text), maxlen - 1)
<1>6. pos = kept /\ pos \in Int /\ (idx < maxlen => pos = idx) /\ (idx >= maxlen => pos = maxlen - 1)
  BY <1>2 DEF Least
<1> HIDE DEF pos, kept
<1>7. ASSUME NEW k \in 0..MaxBuffer - 1
      PROVE  buffer'[k] = IF kind # "buffer" \/ k > pos THEN Untouched ELSE IF k < pos THEN text[k + 1] ELSE NUL
  <2>1. buffer[k] = IF kind # "buffer" \/ k >= maxlen \/ k >= idx THEN Untouched ELSE text[k + 1]
    BY <1>5 DEF Written
  <2>2. buffer'[k] = IF kind = "buffer" /\ k < maxlen /\ k = pos THEN NUL ELSE buffer[k]
    <3>1. k - pos + 1 \in 1..1 <=> k = pos
      BY <1>6
    <3>2. k = pos => k - pos + 1 = 1
      BY <1>6
    <3> QED
      BY <1>3, <1>4, <3>1, <3>2
  <2> QED
    BY SMTT(30), <1>2, <1>6, <2>1, <2>2
<1>8. InBuffer'
  BY <1>1, <1>4, <1>6, <1>7 DEF InBuffer, kept
<1>9. IsSeq(stream') /\ stream' = stream
  <2>1. stream \o <<>> = stream
    BY ConcatEmptySeq DEF PrintfInv, IsSeq
  <2> QED
    BY <1>1, <1>3, <2>1, StreamStep, KeptNothing
<1> QED
  BY <1>1, <1>4, <1>8, <1>9 DEF PrintfInv

-----------------------------------------------------------------------------
(* Conversions                                                             *)

LEMMA Empty == Fits(<<>>)
  BY Tuple DEF Fits

LEMMA SignFits ==
  ASSUME NEW b, NEW c, Fits(b)
  PROVE  Fits(PutSign(b, c)) /\ (Len(b) = NtoaSize => PutSign(b, c) = b)
<1> DEFINE sign == IF c.negative THEN <<"-">>
                   ELSE IF "+" \in c.flags THEN <<"+">> ELSE IF " " \in c.flags THEN <<" ">> ELSE <<>>
<1>1. IsSeq(sign)
  BY Tuple
<1>2. PutSign(b, c) = Put(b, sign)
  BY DEF PutSign
<1> HIDE DEF sign
<1> QED
  BY <1>1, <1>2, PutFits, PutFull DEF Fits

LEMMA WidthIs ==
  ASSUME NEW c, c.width \in Nat
  PROVE  ZeroWidth(c) \in Nat
<1>1. ZeroWidth(c) = c.width \/ (c.width > 0 /\ ZeroWidth(c) = c.width - 1)
  BY Zenon DEF ZeroWidth
<1>2. c.width > 0 => c.width - 1 \in Nat
  OBVIOUS
<1> QED
  BY <1>1, <1>2

\* A conversion may fill the buffer and change width and flags.
LEMMA Updated ==
  ASSUME NEW c, Conversion(c), NEW b, Fits(b), NEW w \in Nat, NEW F
  PROVE  Conversion([c EXCEPT !.buf = b, !.width = w]) /\ Conversion([c EXCEPT !.buf = b, !.width = w, !.flags = F])
<1> DEFINE r == [c EXCEPT !.buf = b, !.width = w]
<1> DEFINE q == [c EXCEPT !.buf = b, !.width = w, !.flags = F]
<1>1. DOMAIN r = DOMAIN c /\ DOMAIN q = DOMAIN c
  OBVIOUS
<1>2. r.buf = b /\ r.width = w /\ r.prec = c.prec /\ q.buf = b /\ q.width = w /\ q.prec = c.prec
  BY DEF Conversion
<1> HIDE DEF r, q
<1>3. Conversion(r) /\ Conversion(q)
  BY <1>1, <1>2 DEF Conversion
<1> QED
  BY <1>3 DEF r, q

LEMMA DigitsFit ==
  ASSUME NEW value, NEW base, NEW flags
  PROVE  Fits(NtoaDigits(value, base, flags))
  BY Empty, DigitsAre, PutFits DEF NtoaDigits

LEMMA IntegerStep == ASSUME PrintfInv, Integer PROVE PrintfInv'
<1>1. pc = "next" /\ format # <<>>
  BY DEF Integer, Reads
<1>2. PICK m \in Magnitudes :
        Convert([buf |-> NtoaDigits(m, Base(d.conv), IntFlags), negative |-> Value(d) < 0,
                 base |-> Base(d.conv), prec |-> Precision, width |-> Width(d), flags |-> IntFlags], "format")
  BY DEF Integer
<1>3. Width(d) \in Nat /\ Precision \in Nat
  BY <1>1, Directive, Numbers
<1>4. Fits(NtoaDigits(m, Base(d.conv), IntFlags))
  BY DigitsFit
<1>5. Conversion([buf |-> NtoaDigits(m, Base(d.conv), IntFlags), negative |-> Value(d) < 0,
                  base |-> Base(d.conv), prec |-> Precision, width |-> Width(d), flags |-> IntFlags])
  BY <1>3, <1>4 DEF Conversion
<1> QED
  BY <1>1, <1>2, <1>5, ConvertStep

LEMMA PointerStep == ASSUME PrintfInv, Pointer PROVE PrintfInv'
<1> DEFINE flags == (Flags \cup {"0", "upper"}) \ (IF d.arg = 0 THEN {"#"} ELSE {})
<1> DEFINE c == [buf |-> NtoaDigits(d.arg, 16, flags), negative |-> FALSE, base |-> 16,
                 prec |-> Precision, width |-> Bits.l \div 4, flags |-> flags]
<1>1. pc = "next" /\ format # <<>> /\ Convert(c, "format")
  BY DEF Pointer, Reads
<1>2. Precision \in Nat
  BY <1>1, Directive, Numbers
<1>3. Bits.l \div 4 \in Nat
  <2>1. Bits.l \in Nat
    OBVIOUS
  <2> QED
    BY <2>1
<1>4. Fits(NtoaDigits(d.arg, 16, flags))
  BY DigitsFit
<1>5. Conversion(c)
  BY <1>2, <1>3, <1>4 DEF Conversion
<1> HIDE DEF c
<1> QED
  BY <1>1, <1>5, ConvertStep

LEMMA NtoaFormatStep == ASSUME PrintfInv, NtoaFormat PROVE PrintfInv'
<1> DEFINE left == "-" \in cv.flags
<1> DEFINE width == IF left THEN cv.width ELSE ZeroWidth(cv)
<1> DEFINE precise == IF left THEN cv.buf ELSE Put(cv.buf, Chars(cv.prec - Len(cv.buf), "0"))
<1> DEFINE zeros == IF left \/ "0" \notin cv.flags THEN precise ELSE Put(precise, Chars(width - Len(precise), "0"))
<1> DEFINE full == "prec" \notin cv.flags /\ zeros # <<>> /\ Len(zeros) \in {cv.prec, width}
<1> DEFINE cut == IF ~full THEN 0 ELSE IF cv.base = 16 /\ Len(zeros) > 1 THEN 2 ELSE 1
<1> DEFINE room == SubSeq(zeros, 1, Len(zeros) - cut)
<1> DEFINE letter == CASE cv.base = 16 -> <<IF "upper" \in cv.flags THEN "X" ELSE "x">>
                       [] cv.base = 2 -> <<"b">>
                       [] OTHER -> <<>>
<1> DEFINE hashed == IF "#" \in cv.flags THEN Put(Put(room, letter), <<"0">>) ELSE zeros
<1> DEFINE c == [cv EXCEPT !.buf = PutSign(hashed, cv), !.width = width]
<1>1. pc = "format" /\ format # <<>> /\ Convert(c, "rev")
  BY DEF NtoaFormat, PrintfInv
<1>2. Conversion(cv) /\ Fits(cv.buf) /\ cv.width \in Nat /\ cv.prec \in Nat
  BY DEF PrintfInv, Conversion
<1>3. width \in Nat
  BY <1>2, WidthIs
<1> HIDE DEF width
<1>4. Fits(precise)
  <2>1. Len(cv.buf) \in Nat
    BY <1>2, SeqLen DEF Fits
  <2>2. IsSeq(Chars(cv.prec - Len(cv.buf), "0"))
    BY <1>2, <2>1, CharsAre
  <2> QED
    BY <1>2, <2>2, PutFits
<1> HIDE DEF precise
<1>5. Fits(zeros)
  <2>1. Len(precise) \in Nat
    BY <1>4, SeqLen DEF Fits
  <2>2. IsSeq(Chars(width - Len(precise), "0"))
    BY <1>3, <2>1, CharsAre
  <2> QED
    BY <1>4, <2>2, PutFits
<1> HIDE DEF zeros
<1>6. Fits(room)
  <2>1. Len(zeros) \in Nat /\ cut \in {0, 1, 2} /\ IsSeq(zeros) /\ Len(zeros) <= NtoaSize
    BY <1>5, SeqLen DEF Fits
  <2> HIDE DEF cut
  <2>2. Len(zeros) - cut \in Int /\ Len(zeros) - cut <= Len(zeros)
    BY <2>1
  <2>3. IsSeq(room) /\ Len(room) = IF Len(zeros) - cut < 0 THEN 0 ELSE Len(zeros) - cut
    BY <2>1, <2>2, Prefix
  <2> HIDE DEF room
  <2> QED
    BY <2>1, <2>2, <2>3 DEF Fits
<1> HIDE DEF room
<1>7. IsSeq(letter) /\ IsSeq(<<"0">>)
  BY Tuple
<1> HIDE DEF letter
<1>8. Fits(hashed)
  BY <1>5, <1>6, <1>7, PutFits
<1> HIDE DEF hashed
<1>9. Fits(PutSign(hashed, cv))
  BY <1>8, SignFits
<1>10. Conversion(c)
  BY <1>2, <1>3, <1>9, Updated
<1> HIDE DEF c
<1> QED
  BY <1>1, <1>10, ConvertStep

\* The step ends a directive.
Prints == format # <<>> /\ pc # "end" /\ \E s : IsSeq(s) /\ Out(s)

LEMMA OutRevPrints == ASSUME PrintfInv, OutRev PROVE Prints
<1> DEFINE fill == Chars(cv.width - Len(cv.buf), " ")
<1> DEFINE before == IF cv.flags \cap {"-", "0"} = {} THEN fill ELSE <<>>
<1> DEFINE after == IF "-" \in cv.flags THEN fill ELSE <<>>
<1>1. pc = "rev" /\ format # <<>> /\ Out(before \o Reverse(cv.buf) \o after)
  BY DEF OutRev, PrintfInv
<1>2. IsSeq(cv.buf) /\ cv.width \in Nat
  BY DEF PrintfInv, Conversion, Fits
<1>3. IsSeq(fill)
  <2>1. Len(cv.buf) \in Nat
    BY <1>2, SeqLen
  <2>2. cv.width - Len(cv.buf) \in Int
    BY <1>2, <2>1
  <2> QED
    BY <2>2, CharsAre
<1> HIDE DEF fill
<1>4. IsSeq(before) /\ IsSeq(after)
  BY <1>3, Tuple
<1> HIDE DEF before, after
<1>5. IsSeq(before \o Reverse(cv.buf) \o after)
  BY <1>2, <1>4, ReverseIs, Concat
<1> QED
  BY <1>1, <1>5 DEF Prints

\* The zeros in front of the digits of a fraction, and the precision that is left: one
\* behind the table only if the zeros fill the buffer.
LEMMA ZerosBeyondAre ==
  ASSUME AskedPrec \in Nat
  PROVE  /\ Fits(ZerosBeyond) /\ PrecLeft \in Nat
         /\ PrecLeft > MaxFloatPrec => ZerosBeyond = Chars(NtoaSize, "0") /\ Len(ZerosBeyond) = NtoaSize
<1> DEFINE n == AskedPrec - MaxFloatPrec
<1> DEFINE s == Chars(n, "0")
<1> DEFINE m == Least(Len(s), NtoaSize)
<1>1. /\ n \in Int /\ n <= AskedPrec /\ n = AskedPrec - MaxFloatPrec
      /\ NtoaSize \in Nat /\ NtoaSize > 0 /\ MaxFloatPrec \in Nat
  OBVIOUS
<1>2. ZerosBeyond = Put(<<>>, s)
  BY DEF ZerosBeyond
<1> HIDE DEF n
<1>3. IsSeq(s) /\ Len(s) = (IF n > 0 THEN n ELSE 0) /\ \A i \in 1..n : s[i] = "0"
  BY <1>1, CharsText
<1>4. Fits(ZerosBeyond)
  BY <1>2, <1>3, Tuple, PutFits DEF Fits
<1> HIDE DEF s
<1>5. /\ m \in Nat /\ m <= Len(s) /\ m <= AskedPrec /\ Len(s) \in Nat
      /\ n > NtoaSize => m = NtoaSize
      /\ n <= NtoaSize => m = (IF n > 0 THEN n ELSE 0)
  BY <1>1, <1>3 DEF Least
<1>6. ZerosBeyond = SubSeq(s, 1, m) /\ Len(ZerosBeyond) = m
  <2>1. IsSeq(SubSeq(s, 1, m)) /\ Len(SubSeq(s, 1, m)) = m
    BY <1>3, <1>5, Prefix
  <2>2. Put(<<>>, s) = <<>> \o SubSeq(s, 1, m)
    <3>1. Len(<<>>) = 0 /\ NtoaSize - 0 = NtoaSize
      BY <1>1, Tuple
    <3> QED
      BY <3>1 DEF Put
  <2> HIDE DEF m
  <2> QED
    BY <1>2, <2>1, <2>2, NoText
<1> HIDE DEF m
<1>7. PrecLeft = AskedPrec - m /\ PrecLeft \in Nat
  BY <1>5, <1>6 DEF PrecLeft
<1>8. ASSUME PrecLeft > MaxFloatPrec PROVE ZerosBeyond = Chars(NtoaSize, "0") /\ Len(ZerosBeyond) = NtoaSize
  <2>1. n > NtoaSize /\ m = NtoaSize
    BY <1>1, <1>5, <1>7, <1>8
  <2>2. \A i \in 1..NtoaSize : ZerosBeyond[i] = "0"
    <3> TAKE i \in 1..NtoaSize
    <3>1. i \in 1..n /\ i \in 1..m
      BY <1>1, <2>1
    <3>2. \A k \in 1..Len(s) : s[k] \in ToSet(s)
      BY <1>3, SeqLen DEF ToSet
    <3>3. SubSeq(s, 1, m)[i] = s[i]
      BY <1>5, <3>1, <3>2, SubSeqProperties
    <3> QED
      BY <1>3, <1>6, <3>1, <3>3
  <2>3. /\ IsSeq(Chars(NtoaSize, "0")) /\ Len(Chars(NtoaSize, "0")) = NtoaSize
        /\ \A i \in 1..NtoaSize : Chars(NtoaSize, "0")[i] = "0"
    BY <1>1, CharsText
  <2> QED
    BY <1>4, <1>6, <2>1, <2>2, <2>3, SameText DEF Fits
<1> QED
  BY <1>4, <1>7, <1>8

LEMMA FtoaStep ==
  ASSUME PrintfInv, Ftoa
  PROVE  /\ PrintfInv' /\ pc' = "rev" /\ format' = format
         /\ cv'.prec > MaxFloatPrec => cv'.buf = Chars(NtoaSize, "0")
<1>0. PICK parts \in Parts(Abs(d.arg)) : FtoaOf(Abs(d.arg), parts)
  BY DEF Ftoa
<1> DEFINE x == Abs(d.arg)
           prec == PrecLeft
           beyond == ZerosBeyond
           whole == IF prec = 0 /\ 2 * (x - parts[1] * 2^FracBits) >= 2^FracBits /\ parts[1] % 2 = 1
                      THEN parts[1] + 1 ELSE parts[1]
           digits == DigitsRev(parts[2], 10, FALSE)
           extra == IF Len(digits) > prec THEN NtoaSize ELSE prec - Len(digits)
           fraction == IF prec = 0 THEN beyond ELSE Put(Put(Put(beyond, digits), Chars(extra, "0")), <<".">>)
           wholes == DigitsRev(whole, 10, FALSE)
           number == Put(fraction, wholes)
           c == [buf |-> number, negative |-> d.arg < 0, base |-> 10, prec |-> prec,
                 width |-> Width(d), flags |-> Flags]
           zeros == "0" \in Flags /\ "-" \notin Flags
           width == IF zeros THEN ZeroWidth(c) ELSE c.width
           padding == Chars(width - Len(number), "0")
           padded == IF zeros THEN Put(number, padding) ELSE number
           full == [c EXCEPT !.buf = PutSign(padded, c), !.width = width]
           Behind == prec > MaxFloatPrec
           IsFull(b) == Behind => b = Chars(NtoaSize, "0") /\ Len(b) = NtoaSize
<1>1. pc = "next" /\ format # <<>> /\ Convert(full, "rev")
  BY <1>0 DEF Ftoa, FtoaOf, Reads
<1>2. Width(d) \in Nat /\ Precision \in Nat
  BY <1>1, Directive, Numbers
<1>3. AskedPrec \in Nat /\ MaxFloatPrec \in Nat /\ NtoaSize \in Nat
  BY <1>2 DEF AskedPrec
<1>4. prec \in Nat /\ Fits(beyond) /\ IsFull(beyond)
  BY <1>3, ZerosBeyondAre
<1> HIDE DEF prec, beyond
<1>5. IsSeq(digits) /\ Len(digits) \in Nat /\ IsSeq(wholes)
  BY DigitsAre, SeqLen
<1> HIDE DEF digits, wholes
<1>6. extra \in Int
  BY <1>3, <1>4, <1>5
<1> HIDE DEF extra
<1>7. Fits(fraction) /\ IsFull(fraction)
  <2>1. IsSeq(Chars(extra, "0")) /\ IsSeq(<<".">>)
    BY <1>6, CharsAre, Tuple
  <2> QED
    BY <1>4, <1>5, <2>1, PutFits, PutFull DEF Fits
<1> HIDE DEF fraction
<1>8. Fits(number) /\ IsFull(number)
  BY <1>5, <1>7, PutFits, PutFull DEF Fits
<1> HIDE DEF number
<1>9. Conversion(c) /\ c.width \in Nat /\ c.prec = prec
  BY <1>2, <1>4, <1>8 DEF Conversion
<1> HIDE DEF c
<1>10. width \in Nat
  BY <1>9, WidthIs
<1> HIDE DEF width
<1>11. IsSeq(padding)
  <2>1. Len(number) \in Nat
    BY <1>8, SeqLen DEF Fits
  <2>2. width - Len(number) \in Int
    BY <1>10, <2>1
  <2> QED
    BY <2>2, CharsAre
<1> HIDE DEF padding
<1>12. Fits(padded) /\ IsFull(padded)
  BY <1>8, <1>11, PutFits, PutFull DEF Fits
<1> HIDE DEF padded
<1>13. Fits(PutSign(padded, c)) /\ (Behind => PutSign(padded, c) = Chars(NtoaSize, "0"))
  BY <1>12, SignFits
<1>14. Conversion(full) /\ full.prec = prec /\ full.buf = PutSign(padded, c)
  BY <1>9, <1>10, <1>13, Updated DEF Conversion
<1> HIDE DEF full
<1>15. PrintfInv'
  BY <1>1, <1>14, ConvertStep
<1>16. pc' = "rev" /\ format' = format /\ cv' = full
  BY <1>1 DEF Convert
<1> QED
  BY <1>13, <1>14, <1>15, <1>16

\* The texts of nan and the infinities are short.
LEMMA FtoaSpecialStep == ASSUME PrintfInv, NtoaSize >= 4, FtoaSpecial PROVE PrintfInv'
<1> DEFINE word == IF d.arg = "nan" THEN Nan ELSE Inf
<1> DEFINE sign == IF d.arg = "-inf" THEN <<"-">>
                   ELSE IF d.arg = "inf" /\ "+" \in Flags THEN <<"+">> ELSE <<>>
<1> DEFINE c == [Idle EXCEPT !.buf = Reverse(word) \o sign, !.width = Width(d), !.flags = Flags]
<1>1. pc = "next" /\ format # <<>> /\ Convert(c, "rev")
  BY DEF FtoaSpecial, Reads
<1>2. Width(d) \in Nat
  BY <1>1, Directive, Numbers
<1>3. IsSeq(word) /\ Len(word) = 3
  <2>1. Nan \in Seq({"n", "a"}) /\ Inf \in Seq({"i", "n", "f"}) /\ Len(Nan) = 3 /\ Len(Inf) = 3
    BY DEF Nan, Inf
  <2> QED
    BY <2>1, AnySeq
<1>4. IsSeq(sign) /\ Len(sign) \in {0, 1}
  BY Tuple
<1> HIDE DEF word, sign
<1>5. IsSeq(Reverse(word)) /\ Len(Reverse(word)) = 3
  BY <1>3, ReverseIs
<1>6. IsSeq(Reverse(word) \o sign) /\ Len(Reverse(word) \o sign) = 3 + Len(sign)
  BY ZenonT(60), <1>4, <1>5, Concat
<1>7. Fits(Reverse(word) \o sign)
  <2>1. \A n \in {0, 1} : 3 + n <= NtoaSize
    OBVIOUS
  <2>2. 3 + Len(sign) <= NtoaSize
    BY <1>4, <2>1
  <2> QED
    BY <1>6, <2>2 DEF Fits
<1>8. Conversion(Idle)
  BY Empty DEF Conversion, Idle
<1>9. Conversion(c)
  BY <1>2, <1>7, <1>8, Updated
<1> HIDE DEF c
<1> QED
  BY <1>1, <1>9, ConvertStep

LEMMA PowerFaultStep == ASSUME PrintfInv, PowerFault PROVE PrintfInv'
  BY DEF PrintfInv, PowerFault, Reads, Written, Conversion

LEMMA PaddedIs ==
  ASSUME IsDirective(d), NEW s, IsSeq(s)
  PROVE  IsSeq(Padded(s))
<1> DEFINE fill == Chars(Width(d) - Len(s), " ")
<1>1. Width(d) \in Nat /\ Len(s) \in Nat
  BY Numbers, SeqLen
<1>2. IsSeq(fill)
  <2>1. Width(d) - Len(s) \in Int
    BY <1>1
  <2> QED
    BY <2>1, CharsAre
<1>3. Padded(s) = IF Left(d) THEN s \o fill ELSE fill \o s
  BY DEF Padded
<1> HIDE DEF fill
<1> QED
  BY <1>2, <1>3, Concat

LEMMA TextPrints == ASSUME PrintfInv, Literal \/ Char \/ String PROVE Prints
<1>1. pc = "next" /\ format # <<>>
  BY DEF Literal, Char, String, Reads
<1>2. IsDirective(d) /\ Precision \in Nat
  BY <1>1, Directive, Numbers
<1>3. IsSeq(<<d.arg>>)
  BY Tuple
<1>4. CASE Literal
  BY <1>1, <1>3, <1>4 DEF Literal, Prints
<1>5. CASE Char
  BY <1>1, <1>2, <1>3, <1>5, PaddedIs DEF Char, Prints
<1>6. CASE String
  <2> DEFINE s == IF HasPrec(d) THEN SubSeq(d.arg, 1, Least(Precision, Len(d.arg))) ELSE d.arg
  <2>1. Out(Padded(s))
    BY <1>6 DEF String
  <2>2. IsSeq(d.arg) /\ Len(d.arg) \in Nat
    BY <1>2, <1>6, SeqLen DEF String, Reads, IsDirective
  <2>3. Least(Precision, Len(d.arg)) \in Int /\ Least(Precision, Len(d.arg)) <= Len(d.arg)
    BY <1>2, <2>2 DEF Least
  <2>4. IsSeq(s)
    BY <2>2, <2>3, Prefix
  <2> HIDE DEF s
  <2> QED
    BY <1>1, <1>2, <2>1, <2>4, PaddedIs DEF Prints
<1> QED
  BY <1>4, <1>5, <1>6

LEMMA PrintfInvInit == Init => PrintfInv
<1> SUFFICES ASSUME Init PROVE PrintfInv
  OBVIOUS
<1>1. PICK c \in Call : kind = c.kind /\ maxlen = c.maxlen /\ format = c.format
  BY DEF Init
<1>2. IsSeq(<<>>) /\ Len(<<>>) = 0
  BY Tuple
<1>3. Conversion(Idle)
  BY <1>2 DEF Idle, Conversion, Fits
<1>4. Len(format) \in Nat
  BY <1>1, SeqLen
<1>5. Written /\ buffer = [k \in 0..MaxBuffer - 1 |-> buffer[k]]
  BY DEF Init, Written
<1>6. IsSeq(stream) /\ stream = Kept(text)
  BY <1>2, KeptNothing DEF Init
<1> QED
  BY <1>1, <1>2, <1>3, <1>4, <1>5, <1>6 DEF Init, PrintfInv

\* NtoaSize >= 4: the local buffers hold -inf.
LEMMA PrintfInvariant == NtoaSize >= 4 => (Spec => []PrintfInv)
<1> SUFFICES ASSUME NtoaSize >= 4 PROVE Spec => []PrintfInv
  OBVIOUS
<1>1. Init => PrintfInv
  BY PrintfInvInit
<1>2. PrintfInv /\ [Next]_vars => PrintfInv'
  <2>1. ASSUME PrintfInv, UNCHANGED vars PROVE PrintfInv'
    BY <2>1 DEF vars, PrintfInv, Written, InBuffer
  <2>2. PrintfInv /\ Prints => PrintfInv'
    BY OutStep DEF Prints
  <2> QED
    BY <2>1, <2>2, IntegerStep, PointerStep, NtoaFormatStep, OutRevPrints, FtoaStep, PowerFaultStep, FtoaSpecialStep,
       TextPrints, TerminateStep DEF Next
<1> QED
  BY <1>1, <1>2, PTL DEF Spec

-----------------------------------------------------------------------------
(* The texts of strings and integers                                       *)

InAnyOrder(s, t, u) == (s \o t) \o u = s \o (t \o u)

LEMMA Associative ==
  ASSUME NEW s, NEW t, NEW u, IsSeq(s), IsSeq(t), IsSeq(u)
  PROVE  InAnyOrder(s, t, u)
<1> DEFINE p == s \o t
           q == t \o u
           m == Len(s)
           n == Len(t)
           k == Len(u)
<1>1. m \in Nat /\ n \in Nat /\ k \in Nat
  BY SeqLen
<1>2. IsSeq(p) /\ Len(p) = m + n /\ \A i \in 1..m + n : p[i] = IF i <= m THEN s[i] ELSE t[i - m]
  BY Concat
<1>3. IsSeq(q) /\ Len(q) = n + k /\ \A i \in 1..n + k : q[i] = IF i <= n THEN t[i] ELSE u[i - n]
  BY Concat
<1> HIDE DEF p, q
<1> DEFINE l == p \o u
           r == s \o q
<1>4. /\ IsSeq(l) /\ Len(l) = Len(p) + k
      /\ \A i \in 1..Len(p) + k : l[i] = IF i <= Len(p) THEN p[i] ELSE u[i - Len(p)]
  BY <1>2, Concat
<1>5. /\ IsSeq(r) /\ Len(r) = m + Len(q)
      /\ \A i \in 1..m + Len(q) : r[i] = IF i <= m THEN s[i] ELSE q[i - m]
  BY <1>3, Concat
<1> HIDE DEF l, r, m, n, k
<1>6. Len(p) = m + n /\ Len(q) = n + k
  BY <1>2, <1>3
<1>7. Len(l) = m + n + k /\ Len(r) = m + n + k
  BY <1>1, <1>4, <1>5, <1>6
<1>8. ASSUME NEW i \in 1..m + n + k PROVE l[i] = r[i]
  <2>1. l[i] = IF i <= m + n THEN p[i] ELSE u[i - (m + n)]
    BY <1>1, <1>4, <1>6
  <2>2. r[i] = IF i <= m THEN s[i] ELSE q[i - m]
    BY <1>1, <1>5, <1>6
  <2>3. CASE i <= m
    <3>1. i \in 1..m + n /\ i <= m + n
      BY <1>1, <2>3
    <3> QED
      BY <1>2, <2>1, <2>2, <2>3, <3>1
  <2>4. CASE ~(i <= m) /\ i <= m + n
    <3>1. i \in 1..m + n /\ i - m \in 1..n + k /\ i - m <= n
      BY <1>1, <2>4
    <3> QED
      BY <1>2, <1>3, <2>1, <2>2, <2>4, <3>1
  <2>5. CASE ~(i <= m + n)
    <3>1. ~(i <= m) /\ i - m \in 1..n + k /\ ~(i - m <= n) /\ (i - m) - n = i - (m + n)
      BY <1>1, <2>5
    <3> QED
      BY <1>3, <2>1, <2>2, <2>5, <3>1
  <2> QED
    BY <2>3, <2>4, <2>5
<1>9. l = r
  BY <1>4, <1>5, <1>7, <1>8, SameText
<1> QED
  BY <1>9 DEF InAnyOrder, l, r, p, q

LEMMA ReverseText ==
  ASSUME NEW s, IsSeq(s)
  PROVE  \A i \in 1..Len(s) : Reverse(s)[i] = s[(Len(s) - i) + 1]
  BY DEF Reverse

LEMMA ReverseConcat ==
  ASSUME NEW s, NEW t, IsSeq(s), IsSeq(t)
  PROVE  Reverse(s \o t) = Reverse(t) \o Reverse(s)
<1> DEFINE p == s \o t
           x == Reverse(s)
           y == Reverse(t)
           m == Len(s)
           n == Len(t)
<1>1. m \in Nat /\ n \in Nat
  BY SeqLen
<1>2. IsSeq(p) /\ Len(p) = m + n /\ \A i \in 1..m + n : p[i] = IF i <= m THEN s[i] ELSE t[i - m]
  BY Concat
<1>3. /\ IsSeq(x) /\ Len(x) = m /\ \A i \in 1..m : x[i] = s[(m - i) + 1]
      /\ IsSeq(y) /\ Len(y) = n /\ \A i \in 1..n : y[i] = t[(n - i) + 1]
  BY ReverseIs, ReverseText
<1> HIDE DEF p, x, y
<1> DEFINE l == Reverse(p)
           r == y \o x
<1>4. IsSeq(l) /\ Len(l) = Len(p) /\ \A i \in 1..Len(p) : l[i] = p[(Len(p) - i) + 1]
  BY <1>2, ReverseIs, ReverseText
<1>5. /\ IsSeq(r) /\ Len(r) = Len(y) + Len(x)
      /\ \A i \in 1..Len(y) + Len(x) : r[i] = IF i <= Len(y) THEN y[i] ELSE x[i - Len(y)]
  BY <1>3, Concat
<1> HIDE DEF l, r, m, n
<1>6. Len(p) = m + n /\ Len(x) = m /\ Len(y) = n
  BY <1>2, <1>3
<1>7. Len(l) = m + n /\ Len(r) = m + n
  BY <1>1, <1>4, <1>5, <1>6
<1>8. ASSUME NEW i \in 1..m + n PROVE l[i] = r[i]
  <2> DEFINE j == (m + n - i) + 1
  <2>1. l[i] = p[j]
    BY <1>1, <1>4, <1>6
  <2>2. r[i] = IF i <= n THEN y[i] ELSE x[i - n]
    BY <1>1, <1>5, <1>6
  <2>3. j \in 1..m + n
    BY <1>1
  <2>4. CASE i <= n
    <3>1. i \in 1..n /\ ~(j <= m) /\ j - m = (n - i) + 1
      BY <1>1, <2>4
    <3>2. p[j] = t[(n - i) + 1]
      BY <1>2, <2>3, <3>1
    <3>3. y[i] = t[(n - i) + 1]
      BY <1>3, <3>1
    <3> QED
      BY <2>1, <2>2, <2>4, <3>2, <3>3
  <2>5. CASE ~(i <= n)
    <3>1. i - n \in 1..m /\ j <= m /\ j = (m - (i - n)) + 1
      BY <1>1, <2>5
    <3>2. p[j] = s[j]
      BY <1>2, <2>3, <3>1
    <3>3. x[i - n] = s[(m - (i - n)) + 1]
      BY <1>3, <3>1
    <3> QED
      BY <2>1, <2>2, <2>5, <3>1, <3>2, <3>3
  <2> QED
    BY <2>4, <2>5
<1>9. l = r
  BY <1>4, <1>5, <1>7, <1>8, SameText
<1> QED
  BY <1>9 DEF l, r, p, x, y

\* A row of equal characters, and a text of at most one, read the same backwards.
LEMMA Palindromes ==
  /\ \A n \in Int : \A ch : Reverse(Chars(n, ch)) = Chars(n, ch)
  /\ Reverse(<<>>) = <<>> /\ \A x : Reverse(<<x>>) = <<x>>
<1>1. ASSUME NEW n \in Int, NEW ch PROVE Reverse(Chars(n, ch)) = Chars(n, ch)
  <2> DEFINE s == Chars(n, ch)
             k == Len(s)
  <2>1. IsSeq(s) /\ k = (IF n > 0 THEN n ELSE 0) /\ \A i \in 1..n : s[i] = ch
    BY CharsText
  <2>2. IsSeq(Reverse(s)) /\ Len(Reverse(s)) = k /\ \A i \in 1..k : Reverse(s)[i] = s[(k - i) + 1]
    BY <2>1, ReverseIs, ReverseText
  <2> HIDE DEF s
  <2>3. ASSUME NEW i \in 1..k PROVE Reverse(s)[i] = s[i]
    <3>1. i \in 1..n /\ (k - i) + 1 \in 1..n
      BY <2>1
    <3> QED
      BY <2>1, <2>2, <3>1
  <2> QED
    BY <2>1, <2>2, <2>3, SameText DEF s
<1>2. Reverse(<<>>) = <<>>
  <2>1. IsSeq(<<>>) /\ Len(<<>>) = 0
    BY Tuple
  <2>2. IsSeq(Reverse(<<>>)) /\ Len(Reverse(<<>>)) = 0
    BY <2>1, ReverseIs
  <2> QED
    BY <2>1, <2>2, SameText
<1>3. ASSUME NEW x PROVE Reverse(<<x>>) = <<x>>
  <2> DEFINE s == <<x>>
  <2>1. IsSeq(s) /\ Len(s) = 1
    BY Tuple
  <2>2. IsSeq(Reverse(s)) /\ Len(Reverse(s)) = 1 /\ \A i \in 1..1 : Reverse(s)[i] = s[(1 - i) + 1]
    BY <2>1, ReverseIs, ReverseText
  <2> HIDE DEF s
  <2>3. \A i \in 1..1 : Reverse(s)[i] = s[i]
    BY <2>2
  <2> QED
    BY <2>1, <2>2, <2>3, SameText DEF s
<1> QED
  BY <1>1, <1>2, <1>3

\* What has room is put into a local buffer as a whole.
LEMMA PutAll ==
  ASSUME NEW b, NEW s, IsSeq(b), IsSeq(s), Len(b) + Len(s) <= NtoaSize
  PROVE  Put(b, s) = b \o s
<1>1. Len(b) \in Nat /\ Len(s) \in Nat /\ NtoaSize \in Nat
  BY SeqLen
<1>2. Least(Len(s), NtoaSize - Len(b)) = Len(s)
  BY <1>1 DEF Least
<1>3. SubSeq(s, 1, Len(s)) = s
  <2>1. \A i \in 1..Len(s) : s[i] \in ToSet(s)
    BY SeqLen DEF ToSet
  <2> DEFINE t == SubSeq(s, 1, Len(s))
  <2>2. IsSeq(t) /\ Len(t) = Len(s)
    BY <1>1, Prefix
  <2>3. \A i \in 1..(Len(s) - 1) + 1 : t[i] = s[1 + i - 1]
    BY <1>1, <2>1, SubSeqProperties
  <2> HIDE DEF t
  <2>4. \A i \in 1..Len(t) : t[i] = s[i]
    BY <1>1, <2>2, <2>3
  <2> QED
    BY <2>2, <2>4, SameText DEF t
<1> QED
  BY <1>2, <1>3 DEF Put

-----------------------------------------------------------------------------
(* Strings, and integers without prefix, print what C says.  A number must *)
(* fit the local buffer with its zeros and sign, must not need zeros on    *)
(* the left of a field it is put left in, and must not be the smallest     *)
(* int: AsInC names what happens then.                                     *)

Exact(x) ==
  /\ x.conv \in {"lit", "c", "s"} \cup IntConv
  /\ Prec(x) >= 0
  /\ x.conv \in IntConv =>
       /\ x.flags \subseteq {"-", "+", " ", "0", "#"}
       /\ "#" \in x.flags => x.conv \in {"d", "u"}
       /\ x.size = "int" => Value(x) # -(2^(Bits.int - 1))
       /\ ~LeftPrec(x)
       /\ Len(CPrefix(x)) + Len(CDigits(x)) <= NtoaSize
       /\ "0" \in x.flags /\ ~HasPrec(x) /\ ~Left(x) => Width(x) <= NtoaSize

IntegersAndStringsAsInC == \A i \in DOMAIN texts : Exact(given[i]) => texts[i] \in CTexts(given[i])

\* The digits that the code prints, the last one first, and the zeros in front of them.
CodeDigits(x) ==
  IF HasPrec(x) /\ Value(x) = 0 THEN <<>> ELSE DigitsRev(Abs(Value(x)), Base(x.conv), x.conv = "X")
LeadingZeros(x) ==
  IF Left(x) THEN <<>>
  ELSE IF "0" \in x.flags /\ ~HasPrec(x) THEN Chars(Width(x) - Len(CPrefix(x)) - Len(CodeDigits(x)), "0")
  ELSE Chars(Prec(x) - Len(CodeDigits(x)), "0")

\* What a conversion of x with the flags F hands on, to _ntoa_format and to _out_rev.
AtFormat(x, F, c) ==
  /\ x.conv \in IntConv
  /\ c.buf = CodeDigits(x) /\ c.negative = (Value(x) < 0)
  /\ c.prec = Prec(x) /\ c.width = Width(x) /\ c.flags = F
AtRev(x, F, c) ==
  /\ x.conv \in IntConv
  /\ c.buf = (CodeDigits(x) \o LeadingZeros(x)) \o CPrefix(x) /\ c.flags = F
  /\ "0" \notin F \/ "-" \in F => c.width = Width(x)

TextInv ==
  /\ \A k \in DOMAIN format : format[k] = given[Len(texts) + k]
  /\ IntegersAndStringsAsInC
  /\ pc = "format" /\ Exact(d) => AtFormat(d, IntFlags, cv)
  /\ pc = "rev" /\ Exact(d) => AtRev(d, IntFlags, cv)

\* The flags of an integer
LEMMA IntFlagsAre ==
  ASSUME Exact(d), d.conv \in IntConv
  PROVE  /\ "-" \in IntFlags <=> Left(d)
         /\ "0" \in IntFlags <=> "0" \in d.flags /\ ~HasPrec(d)
         /\ "+" \in IntFlags <=> "+" \in d.flags /\ d.conv = "d"
         /\ " " \in IntFlags <=> " " \in d.flags /\ d.conv = "d"
         /\ "prec" \in IntFlags <=> HasPrec(d)
         /\ "upper" \in IntFlags <=> d.conv = "X"
         /\ "#" \notin IntFlags
<1>1. d.flags \subseteq {"-", "+", " ", "0", "#"} /\ ("#" \in d.flags => d.conv \in {"d", "u"})
  BY DEF Exact
<1>2. /\ "-" \in Flags <=> Left(d)
      /\ "prec" \in Flags <=> HasPrec(d)
      /\ \A f \in {"+", " ", "0", "#"} : f \in Flags <=> f \in d.flags
      /\ "upper" \notin Flags
  BY <1>1 DEF Flags, Left
<1> HIDE DEF Left
<1> QED
  BY <1>1, <1>2 DEF IntFlags

\* 0 is the one digit of 0.
LEMMA ZeroDigit ==
  ASSUME NEW base \in {2, 8, 10, 16}, NEW upper \in BOOLEAN
  PROVE  DigitsRev(0, base, upper) = <<"0">>
<1>1. DigitsRev(0, base, upper) =
        [k \in 1..1 |-> (IF upper THEN UpperHexDigits ELSE HexDigits)[((0 \div base^(k - 1)) % base) + 1]]
  BY DEF DigitsRev
<1>2. \A k \in 1..1 : ((0 \div base^(k - 1)) % base) + 1 = 1
  <2>1. 2^0 = 1 /\ 8^0 = 1 /\ 10^0 = 1 /\ 16^0 = 1
    OBVIOUS
  <2>2. base^0 = 1
    BY <2>1
  <2>3. 0 \div 1 = 0 /\ 0 % base = 0
    OBVIOUS
  <2>4. \A k \in 1..1 : k - 1 = 0
    OBVIOUS
  <2> QED
    BY <2>2, <2>3, <2>4
<1>3. HexDigits[1] = "0" /\ UpperHexDigits[1] = "0"
  BY DEF HexDigits, UpperHexDigits
<1> DEFINE r == DigitsRev(0, base, upper)
<1>4. r = [k \in 1..1 |-> "0"]
  BY <1>1, <1>2, <1>3
<1>5. IsSeq(r) /\ Len(r) \in Nat /\ DOMAIN r = 1..Len(r)
  BY DigitsAre, SeqLen
<1> HIDE DEF r
<1>6. Len(r) = 1
  <2>1. 1..Len(r) = 1..1
    BY <1>4, <1>5
  <2> QED
    BY <1>5, <2>1, SameInterval
<1>7. IsSeq(<<"0">>) /\ Len(<<"0">>) = 1 /\ <<"0">>[1] = "0"
  BY Tuple
<1>8. \A i \in 1..Len(r) : r[i] = <<"0">>[i]
  BY <1>4, <1>6, <1>7
<1> QED
  BY <1>5, <1>6, <1>7, <1>8, SameText DEF r

\* How many digits a number has is not a matter of their case.
LEMMA DigitsLen ==
  ASSUME NEW n, NEW base, NEW upper \in BOOLEAN
  PROVE  Len(DigitsRev(n, base, upper)) = Len(DigitsRev(n, base, FALSE))
<1> DEFINE r == DigitsRev(n, base, upper)
           q == DigitsRev(n, base, FALSE)
<1>1. Len(r) \in Nat /\ DOMAIN r = 1..Len(r) /\ Len(q) \in Nat /\ DOMAIN q = 1..Len(q)
  BY DigitsAre, SeqLen
<1>2. DOMAIN r = DOMAIN q
  BY DEF DigitsRev
<1> HIDE DEF r, q
<1>3. Len(r) = Len(q)
  BY <1>1, <1>2, SameInterval
<1> QED
  BY <1>3 DEF r, q

\* The prefix of an integer that AsInC holds for is its sign.
LEMMA PrefixIs ==
  ASSUME NEW x, IsDirective(x), Exact(x), x.conv \in IntConv
  PROVE  /\ CPrefix(x) = IF x.conv = "d" THEN SignOf(x, Value(x) < 0) ELSE <<>>
         /\ IsSeq(CPrefix(x)) /\ Len(CPrefix(x)) \in {0, 1} /\ Reverse(CPrefix(x)) = CPrefix(x)
<1>1. x.conv \in {"x", "X", "b"} => "#" \notin x.flags
  BY DEF Exact
<1>2. CPrefix(x) = IF x.conv = "d" THEN SignOf(x, Value(x) < 0) ELSE <<>>
  BY <1>1 DEF CPrefix
<1>3. CPrefix(x) \in {<<>>, <<"-">>, <<"+">>, <<" ">>}
  BY <1>2 DEF SignOf
<1> QED
  BY <1>2, <1>3, Tuple, Palindromes

LEMMA DigitsOf ==
  ASSUME NEW x, IsDirective(x)
  PROVE  /\ Prec(x) \in Int /\ Width(x) \in Nat
         /\ IsSeq(CodeDigits(x)) /\ Len(CodeDigits(x)) \in Nat
         /\ IsSeq(Reverse(CodeDigits(x))) /\ Len(Reverse(CodeDigits(x))) = Len(CodeDigits(x))
<1>1. Prec(x) \in Int /\ Width(x) \in Nat
  BY DEF IsDirective, Prec, Width, Abs
<1>2. IsSeq(CodeDigits(x))
  BY Tuple, DigitsAre DEF CodeDigits
<1> QED
  BY <1>1, <1>2, SeqLen, ReverseIs

\* C's digits are the digits that the code prints, with zeros up to the precision.
LEMMA NumberIs ==
  ASSUME NEW x, IsDirective(x), Exact(x), x.conv \in IntConv
  PROVE  /\ CDigits(x) = Chars(Prec(x) - Len(CodeDigits(x)), "0") \o Reverse(CodeDigits(x))
         /\ Left(x) => Prec(x) <= Len(CodeDigits(x))
<1> DEFINE v == Abs(Value(x))
           all == DigitsRev(v, Base(x.conv), x.conv = "X")
           digits == IF HasPrec(x) /\ x.prec = 0 /\ v = 0 THEN <<>> ELSE Reverse(all)
           zeroed(n, t) == Chars(n, "0") \o t
<1>1. Value(x) \in Int /\ Prec(x) \in Int /\ Prec(x) >= 0 /\ IsSeq(all) /\ Len(all) \in Nat
  <2>1. Value(x) \in Int
    BY DEF IsDirective
  <2>2. Prec(x) >= 0
    BY DEF Exact
  <2>3. IsSeq(all)
    BY DigitsAre
  <2> HIDE DEF all
  <2> QED
    BY <2>1, <2>2, <2>3, DigitsOf, SeqLen
<1>2. v = 0 <=> Value(x) = 0
  BY <1>1 DEF Abs
<1>3. CDigits(x) = zeroed(Prec(x) - Len(digits), digits)
  <2>1. ~(x.conv = "o" /\ "#" \in x.flags)
    BY DEF Exact
  <2> QED
    BY <2>1 DEF CDigits, Digits
<1>4. CodeDigits(x) = IF HasPrec(x) /\ Value(x) = 0 THEN <<>> ELSE all
  BY DEF CodeDigits
<1>5. HasPrec(x) => Prec(x) = x.prec
  BY DEF Prec
<1> HIDE DEF all, zeroed
<1> DEFINE zeros == CDigits(x) = zeroed(Prec(x) - Len(CodeDigits(x)), Reverse(CodeDigits(x)))
<1>6. ASSUME ~(HasPrec(x) /\ Value(x) = 0) PROVE zeros
  <2>1. digits = Reverse(all) /\ CodeDigits(x) = all
    BY <1>2, <1>4, <1>6
  <2>2. Len(digits) = Len(CodeDigits(x))
    BY <1>1, <2>1, ReverseIs
  <2> HIDE DEF digits
  <2> QED
    BY <1>3, <2>1, <2>2
<1>7. ASSUME HasPrec(x) /\ Value(x) = 0 /\ x.prec = 0 PROVE zeros
  <2>1. digits = <<>> /\ CodeDigits(x) = <<>> /\ Reverse(<<>>) = <<>>
    BY <1>2, <1>4, <1>7, Palindromes
  <2> HIDE DEF digits
  <2> QED
    BY <1>3, <2>1
<1>8. ASSUME HasPrec(x) /\ Value(x) = 0 /\ x.prec # 0 PROVE zeros
  <2>1. all = <<"0">>
    <3>1. Base(x.conv) \in {2, 8, 10, 16}
      BY DEF Base
    <3>2. v = 0
      BY <1>2, <1>8
    <3> HIDE DEF v
    <3> QED
      BY <3>1, <3>2, ZeroDigit DEF all
  <2>2. digits = <<"0">> /\ CodeDigits(x) = <<>> /\ Reverse(<<>>) = <<>>
    BY <1>4, <1>8, <2>1, Palindromes
  <2> HIDE DEF digits
  <2>3. Len(<<"0">>) = 1 /\ Len(<<>>) = 0 /\ IsSeq(<<"0">>) /\ <<"0">>[1] = "0"
    BY Tuple
  <2> DEFINE p == Prec(x)
             q == Chars(p - 1, "0")
             last == <<"0">>
             l == q \o last
             r == Chars(p, "0")
  <2>4. p \in Int /\ p > 0
    BY <1>1, <1>5, <1>8
  <2>5. IsSeq(q) /\ Len(q) = p - 1 /\ \A i \in 1..p - 1 : q[i] = "0"
    <3>1. p - 1 \in Int /\ (IF p - 1 > 0 THEN p - 1 ELSE 0) = p - 1
      BY <2>4
    <3> HIDE DEF p
    <3> QED
      BY <3>1, CharsText
  <2>6. IsSeq(r) /\ Len(r) = p /\ \A i \in 1..p : r[i] = "0"
    BY <2>4, CharsText
  <2>7. Len(last) = 1 /\ IsSeq(last) /\ last[1] = "0"
    BY <2>3
  <2> HIDE DEF q, r, p, last
  <2>8. /\ IsSeq(l) /\ Len(l) = Len(q) + 1
        /\ \A i \in 1..Len(q) + 1 : l[i] = IF i <= Len(q) THEN q[i] ELSE last[i - Len(q)]
    <3>1. IsSeq(q) /\ IsSeq(last) /\ Len(last) = 1
      BY <2>5, <2>7
    <3>2. /\ IsSeq(q \o last) /\ Len(q \o last) = Len(q) + Len(last)
          /\ \A i \in 1..Len(q) + Len(last) : (q \o last)[i] = IF i <= Len(q) THEN q[i] ELSE last[i - Len(q)]
      BY <3>1, Concat
    <3> HIDE DEF l
    <3>3. l = q \o last
      BY DEF l
    <3> QED
      BY <3>1, <3>2, <3>3
  <2> HIDE DEF l
  <2>9. \A i \in 1..p : l[i] = r[i]
    <3> SUFFICES ASSUME NEW i \in 1..p PROVE l[i] = "0"
      BY <2>6
    <3>1. CASE i <= p - 1
      BY <2>4, <2>5, <2>8, <3>1
    <3>2. CASE i = p
      BY <2>4, <2>5, <2>8, <2>7, <3>2
    <3> QED
      BY <2>4, <3>1, <3>2
  <2>10. Len(l) = p
    BY <2>4, <2>5, <2>8
  <2>11. l = r
    BY <2>6, <2>8, <2>9, <2>10, SameText
  <2>12. CDigits(x) = l
    BY <1>3, <2>2, <2>3 DEF l, last, q, p, zeroed
  <2>13. zeroed(p, <<>>) = r
    BY <2>6, NoText DEF zeroed, r
  <2>14. Prec(x) - Len(<<>>) = p
    BY <2>3, <2>4 DEF p
  <2> QED
    BY <2>2, <2>11, <2>12, <2>13, <2>14
<1>9. CDigits(x) = zeroed(Prec(x) - Len(CodeDigits(x)), Reverse(CodeDigits(x)))
  BY <1>6, <1>7, <1>8
<1> HIDE DEF zeros
<1>10. ASSUME Left(x) PROVE Prec(x) <= Len(CodeDigits(x))
  <2>1. Prec(x) <= IF Value(x) = 0 THEN 0 ELSE Len(Digits(v, Base(x.conv), FALSE))
    <3>1. ~LeftPrec(x) /\ ~(x.conv = "o" /\ "#" \in x.flags)
      BY DEF Exact
    <3> DEFINE n == IF Value(x) = 0 THEN 0 ELSE Len(Digits(v, Base(x.conv), FALSE))
    <3>2. n \in Nat
      BY DigitsAre, ReverseIs, SeqLen DEF Digits
    <3>3. ~(Prec(x) > n + 0)
      BY <1>10, <3>1 DEF LeftPrec
    <3> HIDE DEF n
    <3>4. Prec(x) <= n
      BY <1>1, <3>2, <3>3
    <3> QED
      BY <3>4 DEF n
  <2>2. Len(Digits(v, Base(x.conv), FALSE)) = Len(all)
    <3>1. Len(Digits(v, Base(x.conv), FALSE)) = Len(DigitsRev(v, Base(x.conv), FALSE))
      BY DigitsAre, ReverseIs DEF Digits
    <3> QED
      BY <3>1, DigitsLen DEF all
  <2>3. CASE Value(x) = 0
    BY <1>1, <2>1, <2>3, DigitsOf
  <2>4. CASE Value(x) # 0
    BY <1>4, <2>1, <2>2, <2>4
  <2> QED
    BY <2>3, <2>4
<1> QED
  BY <1>9, <1>10 DEF zeroed

\* The sum of the lengths of digits, zeros and sign.
LEMMA RoomFor ==
  ASSUME NEW a \in Nat, NEW b \in Nat, NEW c \in Nat, NEW v \in Nat, NEW p \in Int, NEW w \in Int, NEW n \in Nat,
         w = v - b - a, b + ((IF p > 0 THEN p ELSE 0) + a) <= n,
         c = 0 \/ (c = (IF w > 0 THEN w ELSE 0) /\ v <= n) \/ c = (IF p > 0 THEN p ELSE 0)
  PROVE  a + c + b <= n
<1>1. CASE c = 0
  <2>1. (IF p > 0 THEN p ELSE 0) \in Nat
    OBVIOUS
  <2> QED
    BY <1>1, <2>1
<1>2. CASE c = (IF p > 0 THEN p ELSE 0)
  BY <1>2
<1>3. CASE c = (IF w > 0 THEN w ELSE 0) /\ v <= n
  <2>1. c = 0 \/ a + c + b = v
    BY <1>3
  <2> QED
    BY <1>1, <1>3, <2>1
<1> QED
  BY <1>1, <1>2, <1>3

LEMMA Differences == \A a, b, c \in Int : a - b \in Int /\ a - b - c \in Int
OBVIOUS

\* The room beside them is the same, in whichever order they are counted.
LEMMA RoomBeside == \A w, a, b, c \in Int : w - a - (b + c) = w - (c + b + a)
OBVIOUS

LEMMA ZerosOf ==
  ASSUME NEW x, IsDirective(x), Exact(x), x.conv \in IntConv
  PROVE  /\ IsSeq(LeadingZeros(x)) /\ Len(LeadingZeros(x)) \in Nat
         /\ Reverse(LeadingZeros(x)) = LeadingZeros(x)
         /\ Len(CodeDigits(x)) + Len(LeadingZeros(x)) + Len(CPrefix(x)) <= NtoaSize
<1> DEFINE digits == CodeDigits(x)
           sign == CPrefix(x)
           zeros == LeadingZeros(x)
           w == Width(x) - Len(sign) - Len(digits)
           p == Prec(x) - Len(digits)
<1>1. /\ Prec(x) \in Int /\ Width(x) \in Nat /\ Len(digits) \in Nat
      /\ IsSeq(Reverse(digits)) /\ Len(Reverse(digits)) = Len(digits)
      /\ Len(sign) \in Nat /\ NtoaSize \in Nat
  BY DigitsOf, PrefixIs
<1> HIDE DEF digits, sign
<1>2. /\ w \in Int /\ p \in Int
      /\ w = Width(x) - Len(sign) - Len(digits) /\ p = Prec(x) - Len(digits)
  <2>1. Prec(x) \in Int /\ Width(x) \in Int /\ Len(digits) \in Int /\ Len(sign) \in Int
    BY <1>1
  <2> QED
    BY <2>1, Differences, Zenon
<1>3. zeros \in {<<>>, Chars(w, "0"), Chars(p, "0")}
  BY DEF LeadingZeros, digits, sign
<1>4. IsSeq(zeros) /\ Reverse(zeros) = zeros
  BY <1>2, <1>3, Tuple, CharsAre, Palindromes
<1>5. CDigits(x) = Chars(p, "0") \o Reverse(digits) /\ (Left(x) => Prec(x) <= Len(digits))
  BY NumberIs DEF digits
<1>6. IsSeq(Chars(p, "0")) /\ Len(Chars(p, "0")) = IF p > 0 THEN p ELSE 0
  BY <1>2, CharsText
<1>7. Len(CDigits(x)) = (IF p > 0 THEN p ELSE 0) + Len(digits)
  <2> DEFINE s == Chars(p, "0")
             t == Reverse(digits)
  <2>1. CDigits(x) = s \o t /\ IsSeq(s) /\ IsSeq(t)
    BY <1>1, <1>5, <1>6
  <2>2. Len(s) = (IF p > 0 THEN p ELSE 0) /\ Len(t) = Len(digits)
    BY <1>1, <1>6
  <2> HIDE DEF s, t
  <2>3. Len(s \o t) = Len(s) + Len(t)
    BY <2>1, Concat
  <2> QED
    BY <2>1, <2>2, <2>3
<1>8. Len(sign) + Len(CDigits(x)) <= NtoaSize
  BY DEF Exact, sign
<1>9. Len(Chars(w, "0")) = IF w > 0 THEN w ELSE 0
  BY <1>2, CharsText
<1>10. /\ Left(x) => zeros = <<>>
       /\ ~Left(x) /\ ("0" \in x.flags /\ ~HasPrec(x)) => zeros = Chars(w, "0") /\ Width(x) <= NtoaSize
       /\ ~Left(x) /\ ~("0" \in x.flags /\ ~HasPrec(x)) => zeros = Chars(p, "0")
  BY DEF LeadingZeros, Exact, digits, sign
<1>11. Len(<<>>) = 0
  BY Tuple
<1> HIDE DEF zeros, w, p
<1>12. Len(zeros) \in Nat
  BY <1>4, SeqLen
<1>13. Len(digits) + Len(zeros) + Len(sign) <= NtoaSize
  <2>1. \/ Len(zeros) = 0
        \/ Len(zeros) = (IF w > 0 THEN w ELSE 0) /\ Width(x) <= NtoaSize
        \/ Len(zeros) = (IF p > 0 THEN p ELSE 0)
    BY <1>6, <1>9, <1>10, <1>11
  <2>2. Len(sign) + ((IF p > 0 THEN p ELSE 0) + Len(digits)) <= NtoaSize
    BY <1>7, <1>8
  <2> QED
    <3> DEFINE a == Len(digits)
               b == Len(sign)
               c == Len(zeros)
               v == Width(x)
    <3>1. a \in Nat /\ b \in Nat /\ c \in Nat /\ v \in Nat /\ p \in Int /\ w \in Int /\ NtoaSize \in Nat
      BY <1>1, <1>2, <1>12
    <3>2. /\ w = v - b - a /\ b + ((IF p > 0 THEN p ELSE 0) + a) <= NtoaSize
          /\ c = 0 \/ (c = (IF w > 0 THEN w ELSE 0) /\ v <= NtoaSize) \/ c = (IF p > 0 THEN p ELSE 0)
      BY <1>2, <2>1, <2>2
    <3> HIDE DEF a, b, c, v
    <3>3. a + c + b <= NtoaSize
      BY <3>1, <3>2, RoomFor
    <3> QED
      BY <3>3 DEF a, b, c
<1> QED
  BY <1>4, <1>12, <1>13 DEF digits, sign, zeros

\* The text of an integer without the spaces, and the spaces.
NumberText(x) == CPrefix(x) \o (LeadingZeros(x) \o Reverse(CodeDigits(x)))
Spaces(x) == Chars(Width(x) - Len((CodeDigits(x) \o LeadingZeros(x)) \o CPrefix(x)), " ")

LEMMA NumberParts ==
  ASSUME NEW x, IsDirective(x), Exact(x), x.conv \in IntConv
  PROVE  /\ IsSeq(NumberText(x)) /\ IsSeq(Spaces(x))
         /\ Reverse((CodeDigits(x) \o LeadingZeros(x)) \o CPrefix(x)) = NumberText(x)
         /\ Spaces(x) = Chars(Width(x) - (Len(CodeDigits(x)) + Len(LeadingZeros(x)) + Len(CPrefix(x))), " ")
<1> DEFINE digits == CodeDigits(x)
           sign == CPrefix(x)
           zeros == LeadingZeros(x)
           both == digits \o zeros
           rest == zeros \o Reverse(digits)
<1>1. IsSeq(digits) /\ IsSeq(zeros) /\ IsSeq(sign) /\ IsSeq(Reverse(digits)) /\ Width(x) \in Nat
  BY DigitsOf, PrefixIs, ZerosOf
<1>2. Reverse(zeros) = zeros /\ Reverse(sign) = sign
  BY PrefixIs, ZerosOf
<1> HIDE DEF digits, sign, zeros
<1>3. IsSeq(both) /\ Len(both) = Len(digits) + Len(zeros) /\ IsSeq(rest)
  BY <1>1, Concat
<1>4. Reverse(both) = rest
  <2>1. Reverse(both) = Reverse(zeros) \o Reverse(digits)
    BY <1>1, ReverseConcat
  <2> QED
    BY <1>2, <2>1
<1> HIDE DEF both, rest
<1>5. /\ Reverse(both \o sign) = sign \o rest
      /\ IsSeq(both \o sign) /\ Len(both \o sign) = Len(both) + Len(sign)
  <2>1. Reverse(both \o sign) = Reverse(sign) \o Reverse(both)
    BY <1>1, <1>3, ReverseConcat
  <2> QED
    BY <1>1, <1>2, <1>3, <1>4, <2>1, Concat
<1>6. IsSeq(sign \o rest)
  BY <1>1, <1>3, Concat
<1>7. Spaces(x) = Chars(Width(x) - (Len(digits) + Len(zeros) + Len(sign)), " ")
  BY <1>3, <1>5 DEF Spaces, both, digits, zeros, sign
<1>8. Width(x) - (Len(digits) + Len(zeros) + Len(sign)) \in Int
  BY <1>1, SeqLen
<1>9. IsSeq(Spaces(x))
  BY <1>7, <1>8, CharsAre
<1> QED
  BY <1>5, <1>6, <1>7, <1>9 DEF NumberText, both, rest, digits, zeros, sign

\* C's text of an integer: the number in a field of spaces, or alone if zeros fill its field.
LEMMA IntegerText ==
  ASSUME NEW x, IsDirective(x), Exact(x), x.conv \in IntConv
  PROVE  CTexts(x) = {IF Left(x) THEN NumberText(x) \o Spaces(x)
                      ELSE IF "0" \in x.flags /\ ~HasPrec(x) THEN NumberText(x)
                      ELSE Spaces(x) \o NumberText(x)}
<1> DEFINE digits == Reverse(CodeDigits(x))
           sign == CPrefix(x)
           zeros == LeadingZeros(x)
           full == "0" \in x.flags /\ ~HasPrec(x)
           field == Field(x, sign, CDigits(x), full)
           n == Len(digits)
           p == Chars(Prec(x) - n, "0")
           fill == Width(x) - Len(sign) - Len(CDigits(x))
<1>1. CTexts(x) = {field}
  BY Zenon DEF CTexts, IntConv
<1>2. field = IF Left(x) THEN (sign \o CDigits(x)) \o Chars(fill, " ")
              ELSE IF full THEN (sign \o Chars(fill, "0")) \o CDigits(x)
              ELSE (Chars(fill, " ") \o sign) \o CDigits(x)
  BY DEF Field
<1>3. /\ IsSeq(digits) /\ IsSeq(sign) /\ IsSeq(zeros)
      /\ n \in Nat /\ n = Len(CodeDigits(x)) /\ Len(zeros) \in Nat /\ Len(sign) \in Nat
      /\ Prec(x) \in Int /\ Width(x) \in Nat
  BY DigitsOf, PrefixIs, ZerosOf
<1>4. CDigits(x) = p \o digits /\ (Left(x) => Prec(x) <= n)
  BY <1>3, NumberIs
<1>5. zeros = IF Left(x) THEN <<>> ELSE IF full THEN Chars(Width(x) - Len(sign) - n, "0") ELSE p
  BY <1>3 DEF LeadingZeros
<1>6. Spaces(x) = Chars(Width(x) - (n + Len(zeros) + Len(sign)), " ") /\ IsSeq(Spaces(x))
  BY <1>3, NumberParts
<1>7. NumberText(x) = sign \o (zeros \o digits)
  BY DEF NumberText
<1>8. <<>> \o digits = digits /\ Len(<<>>) = 0
  BY <1>3, NoText, Tuple
<1> HIDE DEF field, digits, sign, zeros, fill, n
<1>9. ASSUME Prec(x) <= n PROVE CDigits(x) = digits /\ Len(CDigits(x)) = n
  <2>1. p = <<>>
    BY <1>3, <1>9, CharsText
  <2> HIDE DEF p
  <2> QED
    BY <1>4, <1>8, <2>1 DEF n
<1>10. Width(x) \in Int /\ Len(sign) \in Int /\ Len(zeros) \in Int /\ n \in Int
  BY <1>3
<1>11. CASE Left(x)
  <2>1. zeros = <<>> /\ CDigits(x) = digits /\ Len(CDigits(x)) = n
    BY <1>4, <1>5, <1>9, <1>11
  <2>2. zeros \o digits = digits
    BY <1>8, <2>1
  <2>3. fill = Width(x) - (n + Len(zeros) + Len(sign))
    <3>1. Len(CDigits(x)) = Len(zeros) + n
      BY <1>3, <1>8, <2>1
    <3> QED
      BY <1>10, <3>1, RoomBeside DEF fill
  <2>4. field = (sign \o digits) \o Spaces(x)
    BY <1>2, <1>6, <1>11, <2>1, <2>3
  <2>5. field = NumberText(x) \o Spaces(x)
    BY <1>7, <2>2, <2>4
  <2> QED
    BY <1>1, <1>11, <2>5
<1>12. CASE ~Left(x) /\ full
  <2>1. Prec(x) <= n
    BY <1>3, <1>12 DEF Prec
  <2>2. fill = Width(x) - Len(sign) - n
    BY <1>9, <2>1 DEF fill
  <2>3. zeros = Chars(fill, "0")
    BY <1>5, <1>12, <2>2
  <2>4. field = (sign \o zeros) \o digits
    BY <1>2, <1>9, <1>12, <2>1, <2>3
  <2>5. InAnyOrder(sign, zeros, digits)
    BY <1>3, Associative
  <2>6. field = NumberText(x)
    BY <1>7, <2>4, <2>5 DEF InAnyOrder
  <2> QED
    BY <1>1, <1>12, <2>6
<1>13. CASE ~Left(x) /\ ~full
  <2>1. zeros = p /\ CDigits(x) = zeros \o digits
    BY <1>4, <1>5, <1>13
  <2>2. IsSeq(zeros \o digits) /\ Len(zeros \o digits) = Len(zeros) + n
    BY <1>3, Concat DEF n
  <2>3. fill = Width(x) - (n + Len(zeros) + Len(sign))
    <3>1. Len(CDigits(x)) = Len(zeros) + n
      BY <2>1, <2>2
    <3> QED
      BY <1>10, <3>1, RoomBeside DEF fill
  <2>4. field = (Spaces(x) \o sign) \o (zeros \o digits)
    BY <1>2, <1>6, <1>13, <2>1, <2>3
  <2>5. InAnyOrder(Spaces(x), sign, zeros \o digits)
    BY <1>3, <1>6, <2>2, Associative
  <2>6. field = Spaces(x) \o NumberText(x)
    BY <1>7, <2>4, <2>5 DEF InAnyOrder
  <2> QED
    BY <1>1, <1>13, <2>6
<1> QED
  BY <1>11, <1>12, <1>13

\* The sign that is written is C's.
LEMMA SignIs ==
  ASSUME IsDirective(d), Exact(d), d.conv \in IntConv, AtFormat(d, IntFlags, cv), NEW b
  PROVE  /\ PutSign(b, cv) = Put(b, CPrefix(d))
         /\ "0" \notin IntFlags => ZeroWidth(cv) = Width(d)
         /\ "0" \in IntFlags => ZeroWidth(cv) = IF Width(d) > 0 THEN Width(d) - Len(CPrefix(d)) ELSE Width(d)
<1>1. cv.negative = (Value(d) < 0) /\ cv.flags = IntFlags /\ cv.width = Width(d)
  BY DEF AtFormat
<1>2. CPrefix(d) = IF d.conv = "d" THEN SignOf(d, Value(d) < 0) ELSE <<>>
  BY PrefixIs
<1>3. d.conv # "d" => ~(Value(d) < 0)
  <2>1. d.conv # "d" => Value(d) \in Nat
    BY DEF IsDirective
  <2> QED
    BY <2>1
<1>4. /\ "+" \in IntFlags <=> "+" \in d.flags /\ d.conv = "d"
      /\ " " \in IntFlags <=> " " \in d.flags /\ d.conv = "d"
  BY IntFlagsAre
<1>5. CPrefix(d) = IF cv.negative THEN <<"-">>
                   ELSE IF "+" \in cv.flags THEN <<"+">> ELSE IF " " \in cv.flags THEN <<" ">> ELSE <<>>
  BY <1>1, <1>2, <1>3, <1>4 DEF SignOf
<1>6. PutSign(b, cv) = Put(b, CPrefix(d))
  BY <1>5 DEF PutSign
<1>7. ASSUME "0" \notin IntFlags PROVE ZeroWidth(cv) = Width(d)
  BY <1>1, <1>7 DEF ZeroWidth
<1>8. ASSUME "0" \in IntFlags
      PROVE  ZeroWidth(cv) = IF Width(d) > 0 THEN Width(d) - Len(CPrefix(d)) ELSE Width(d)
  <2>1. Width(d) \in Nat
    BY DigitsOf
  <2>2. CASE cv.negative \/ cv.flags \cap {"+", " "} # {}
    <3>1. Len(CPrefix(d)) = 1
      BY <1>5, <2>2, Tuple
    <3> QED
      BY <1>1, <1>8, <2>1, <2>2, <3>1 DEF ZeroWidth
  <2>3. CASE ~(cv.negative \/ cv.flags \cap {"+", " "} # {})
    <3>1. CPrefix(d) = <<>>
      BY <1>5, <2>3
    <3>2. Len(CPrefix(d)) = 0 /\ Width(d) - 0 = Width(d)
      BY <2>1, <3>1, Tuple
    <3>3. ZeroWidth(cv) = Width(d)
      BY <1>1, <2>3 DEF ZeroWidth
    <3> QED
      BY <3>2, <3>3
  <2> QED
    BY <2>2, <2>3
<1> QED
  BY <1>6, <1>7, <1>8

\* _ntoa_format puts the zeros and the sign in place.
LEMMA FormatText ==
  ASSUME PrintfInv, TextInv, NtoaFormat, Exact(d)
  PROVE  AtRev(d, IntFlags, cv')
<1> DEFINE left == "-" \in cv.flags
           width == IF left THEN cv.width ELSE ZeroWidth(cv)
           precise == IF left THEN cv.buf ELSE Put(cv.buf, Chars(cv.prec - Len(cv.buf), "0"))
           zeros == IF left \/ "0" \notin cv.flags THEN precise ELSE Put(precise, Chars(width - Len(precise), "0"))
           digits == CodeDigits(d)
           lead == LeadingZeros(d)
           sign == CPrefix(d)
           n == Len(digits)
           p == Chars(Prec(d) - n, "0")
           w == Chars(Width(d) - Len(sign) - n, "0")
<1>1. pc = "format" /\ format # <<>> /\ AtFormat(d, IntFlags, cv) /\ d.conv \in IntConv /\ IsDirective(d)
  BY Directive DEF NtoaFormat, PrintfInv, TextInv, AtFormat
<1>2. /\ cv.buf = digits /\ cv.flags = IntFlags /\ cv.prec = Prec(d) /\ cv.width = Width(d)
      /\ "#" \notin IntFlags /\ (left <=> Left(d)) /\ ("0" \in IntFlags <=> "0" \in d.flags /\ ~HasPrec(d))
  BY <1>1, IntFlagsAre DEF AtFormat
<1>3. cv' = [cv EXCEPT !.buf = PutSign(zeros, cv), !.width = width]
  BY <1>2 DEF NtoaFormat, Convert
<1>4. cv'.buf = PutSign(zeros, cv) /\ cv'.width = width /\ cv'.flags = cv.flags
  BY <1>3 DEF PrintfInv, Conversion
<1>5. /\ IsSeq(digits) /\ IsSeq(lead) /\ IsSeq(sign)
      /\ n \in Nat /\ Len(lead) \in Nat /\ Len(sign) \in Nat /\ Prec(d) \in Int /\ Width(d) \in Nat
      /\ n + Len(lead) + Len(sign) <= NtoaSize /\ NtoaSize \in Nat
  BY <1>1, DigitsOf, PrefixIs, ZerosOf
<1>6. lead = IF left THEN <<>> ELSE IF "0" \in IntFlags THEN w ELSE p
  BY <1>2 DEF LeadingZeros
<1>7. PutSign(zeros, cv) = Put(zeros, sign)
  BY <1>1, SignIs
<1>8. Put(digits, lead) = digits \o lead
  <2>1. n + Len(lead) <= NtoaSize
    BY <1>5
  <2> QED
    BY <1>5, <2>1, PutAll
<1>9. digits \o <<>> = digits
  BY <1>5, NoText
<1> HIDE DEF digits, lead, sign, left, n
<1>10. zeros = digits \o lead
  <2>1. CASE left
    BY <1>2, <1>6, <1>9, <2>1
  <2>2. CASE ~left /\ "0" \notin IntFlags
    <3>1. zeros = Put(digits, p) /\ lead = p
      BY <1>2, <1>6, <2>2 DEF n
    <3> HIDE DEF zeros
    <3> QED
      BY <1>8, <3>1
  <2>3. CASE ~left /\ "0" \in IntFlags
    <3>1. Prec(d) = 0
      BY <1>2, <2>3 DEF Prec
    <3>2. p = <<>>
      <4>1. Prec(d) - n \in Int /\ Prec(d) - n <= 0
        BY <1>5, <3>1
      <4> QED
        BY <4>1, CharsText
    <3>3. precise = digits
      <4>1. precise = Put(digits, <<>>)
        BY <1>2, <2>3, <3>2 DEF n
      <4>2. IsSeq(<<>>) /\ Len(<<>>) = 0 /\ n + 0 <= NtoaSize
        BY <1>5, Tuple
      <4> HIDE DEF precise
      <4> QED
        BY <1>5, <1>9, <4>1, <4>2, PutAll DEF n
    <3> HIDE DEF precise
    <3>4. width = IF Width(d) > 0 THEN Width(d) - Len(sign) ELSE Width(d)
      BY <1>1, <2>3, SignIs DEF sign
    <3>5. Chars(width - n, "0") = w
      <4>1. CASE Width(d) > 0
        BY <3>4, <4>1
      <4>2. CASE ~(Width(d) > 0)
        <5>1. /\ width - n \in Int /\ width - n <= 0
              /\ Width(d) - Len(sign) - n \in Int /\ Width(d) - Len(sign) - n <= 0
          <6>1. n \in Nat /\ Len(sign) \in Nat
            BY <1>5
          <6>2. Width(d) = 0 /\ width = 0
            BY <1>5, <3>4, <4>2
          <6> HIDE DEF width
          <6> QED
            BY <6>1, <6>2
        <5> HIDE DEF width
        <5> QED
          BY <5>1, CharsText
      <4> QED
        BY <4>1, <4>2
    <3> HIDE DEF width, w
    <3>6. zeros = Put(digits, w) /\ lead = w
      BY <1>2, <1>6, <2>3, <3>3, <3>5 DEF n
    <3> HIDE DEF zeros
    <3> QED
      BY <1>8, <3>6
  <2> QED
    BY <2>1, <2>2, <2>3
<1> HIDE DEF zeros
<1>11. cv'.buf = (digits \o lead) \o sign
  <2> DEFINE both == digits \o lead
  <2>1. IsSeq(both) /\ Len(both) = n + Len(lead)
    BY <1>5, Concat DEF n
  <2> HIDE DEF both
  <2>2. Put(both, sign) = both \o sign
    BY <1>5, <2>1, PutAll
  <2> QED
    BY <1>4, <1>7, <1>10, <2>2 DEF both
<1>12. "0" \notin IntFlags \/ "-" \in IntFlags => cv'.width = Width(d)
  BY <1>1, <1>2, <1>4, SignIs DEF left
<1> QED
  BY <1>1, <1>2, <1>4, <1>11, <1>12 DEF AtRev, digits, lead, sign

\* _out_rev puts the number in its field.
LEMMA RevText ==
  ASSUME PrintfInv, TextInv, OutRev, Exact(d)
  PROVE  \E s \in CTexts(d) : IsSeq(s) /\ Out(s)
<1> DEFINE fill == Chars(cv.width - Len(cv.buf), " ")
           before == IF cv.flags \cap {"-", "0"} = {} THEN fill ELSE <<>>
           after == IF "-" \in cv.flags THEN fill ELSE <<>>
           s == (before \o Reverse(cv.buf)) \o after
           number == NumberText(d)
           spaces == Spaces(d)
<1>1. pc = "rev" /\ format # <<>> /\ Out(s) /\ AtRev(d, IntFlags, cv) /\ d.conv \in IntConv /\ IsDirective(d)
  BY Directive DEF OutRev, PrintfInv, TextInv, AtRev
<1>2. /\ cv.flags = IntFlags /\ ("-" \in IntFlags <=> Left(d))
      /\ "0" \in IntFlags <=> "0" \in d.flags /\ ~HasPrec(d)
  BY <1>1, IntFlagsAre DEF AtRev
<1>3. Reverse(cv.buf) = number /\ IsSeq(number) /\ IsSeq(spaces)
  BY <1>1, NumberParts DEF AtRev
<1>4. "0" \notin IntFlags \/ Left(d) => fill = spaces
  BY <1>1, <1>2 DEF AtRev, Spaces
<1>5. CTexts(d) = {IF Left(d) THEN number \o spaces
                   ELSE IF "0" \in d.flags /\ ~HasPrec(d) THEN number ELSE spaces \o number}
  BY <1>1, IntegerText
<1>6. <<>> \o number = number /\ number \o <<>> = number
  BY <1>3, NoText
<1>7. IsSeq(number \o spaces) /\ IsSeq(spaces \o number)
  BY <1>3, Concat
<1>8. (spaces \o number) \o <<>> = spaces \o number
  BY <1>7, NoText
<1> HIDE DEF number, spaces, fill
<1>9. CASE Left(d)
  <2>1. s = number \o spaces
    BY <1>2, <1>3, <1>4, <1>6, <1>9
  <2> HIDE DEF s
  <2> QED
    BY <1>1, <1>5, <1>7, <1>9, <2>1
<1>10. CASE ~Left(d) /\ ("0" \in d.flags /\ ~HasPrec(d))
  <2>1. s = number
    BY <1>2, <1>3, <1>6, <1>10
  <2> HIDE DEF s
  <2> QED
    BY <1>1, <1>3, <1>5, <1>10, <2>1
<1>11. CASE ~Left(d) /\ ~("0" \in d.flags /\ ~HasPrec(d))
  <2>1. s = spaces \o number
    BY <1>2, <1>3, <1>4, <1>8, <1>11
  <2> HIDE DEF s
  <2> QED
    BY <1>1, <1>5, <1>7, <1>11, <2>1
<1> QED
  BY <1>9, <1>10, <1>11

LEMMA IntegerFormat ==
  ASSUME PrintfInv, Integer, Exact(d)
  PROVE  AtFormat(d, IntFlags, cv')
<1>1. d.conv \in IntConv /\ format # <<>> /\ IsDirective(d)
  BY Directive DEF Integer, Reads
<1>2. PICK m \in Magnitudes :
        cv' = [buf |-> NtoaDigits(m, Base(d.conv), IntFlags), negative |-> Value(d) < 0,
               base |-> Base(d.conv), prec |-> Precision, width |-> Width(d), flags |-> IntFlags]
  BY DEF Integer, Convert
<1>3. m = Abs(Value(d))
  <2>1. ~(Value(d) = -(2^(Bits.int - 1)) /\ d.size = "int")
    BY <1>1 DEF Exact
  <2> QED
    BY <2>1 DEF Magnitudes
<1>4. m = 0 <=> Value(d) = 0
  <2>1. Value(d) \in Int
    BY <1>1 DEF IsDirective
  <2> QED
    BY <1>3, <2>1 DEF Abs
<1>5. Precision = Prec(d)
  <2>1. Prec(d) \in Int
    BY <1>1, DigitsOf
  <2>2. Prec(d) >= 0
    BY DEF Exact
  <2> QED
    BY <2>1, <2>2 DEF Precision
<1>6. ("prec" \in IntFlags <=> HasPrec(d)) /\ ("upper" \in IntFlags <=> d.conv = "X")
  BY <1>1, IntFlagsAre
<1>7. NtoaDigits(m, Base(d.conv), IntFlags) = CodeDigits(d)
  <2> DEFINE all == DigitsRev(m, Base(d.conv), d.conv = "X")
  <2>1. NtoaDigits(m, Base(d.conv), IntFlags) = IF HasPrec(d) /\ Value(d) = 0 THEN <<>> ELSE Put(<<>>, all)
    <3>1. ("upper" \in IntFlags) = (d.conv = "X")
      BY <1>6
    <3> QED
      BY <1>4, <1>6, <3>1 DEF NtoaDigits
  <2>2. CodeDigits(d) = IF HasPrec(d) /\ Value(d) = 0 THEN <<>> ELSE all
    BY <1>3 DEF CodeDigits
  <2>3. IsSeq(all)
    BY DigitsAre
  <2> HIDE DEF all
  <2>4. ASSUME ~(HasPrec(d) /\ Value(d) = 0) PROVE Put(<<>>, all) = all
    <3>1. Len(CodeDigits(d)) <= NtoaSize
      <4>1. /\ Len(CodeDigits(d)) \in Nat /\ Len(LeadingZeros(d)) \in Nat /\ Len(CPrefix(d)) \in Nat
            /\ Len(CodeDigits(d)) + Len(LeadingZeros(d)) + Len(CPrefix(d)) <= NtoaSize /\ NtoaSize \in Nat
        BY <1>1, DigitsOf, ZerosOf, PrefixIs
      <4> QED
        BY <4>1
    <3>2. Len(all) <= NtoaSize /\ Len(all) \in Nat
      BY <2>2, <2>3, <2>4, <3>1, SeqLen
    <3>3. IsSeq(<<>>) /\ Len(<<>>) + Len(all) <= NtoaSize
      BY <3>2, Tuple
    <3> QED
      BY <2>3, <3>3, PutAll, NoText
  <2> QED
    BY <2>1, <2>2, <2>4
<1> QED
  BY <1>1, <1>2, <1>5, <1>7 DEF AtFormat

\* Characters and strings
LEMMA PlainText ==
  ASSUME PrintfInv, Literal \/ Char \/ String, Exact(d)
  PROVE  \E s \in CTexts(d) : IsSeq(s) /\ Out(s)
<1>1. format # <<>> /\ IsDirective(d)
  BY Directive DEF Literal, Char, String, Reads
<1>2. Width(d) \in Nat /\ Precision \in Nat /\ Prec(d) \in Int /\ Prec(d) >= 0
  BY <1>1, Numbers, DigitsOf DEF Exact
<1>3. ASSUME NEW t, IsSeq(t)
      PROVE  Padded(t) = Field(d, <<>>, t, FALSE) /\ IsSeq(Padded(t))
  <2> DEFINE fill == Chars(Width(d) - Len(t), " ")
             row(x, y) == x \o y
             front == row(<<>>, t)
             back == row(fill, <<>>)
  <2>1. Len(t) \in Nat /\ IsSeq(Padded(t))
    BY <1>1, <1>3, SeqLen, PaddedIs
  <2>2. front = t
    BY <1>3, NoText
  <2>3. IsSeq(fill)
    <3>1. Width(d) - Len(t) \in Int
      BY <1>2, <2>1
    <3> QED
      BY <3>1, CharsAre
  <2>4. back = fill
    BY <2>3, NoText
  <2>5. Width(d) - Len(<<>>) - Len(t) = Width(d) - Len(t)
    <3>1. Len(<<>>) = 0
      BY Tuple
    <3> QED
      BY <1>2, <2>1, <3>1
  <2>6. Field(d, <<>>, t, FALSE) = IF Left(d) THEN row(front, fill) ELSE row(back, t)
    BY <2>5 DEF Field
  <2>7. Padded(t) = IF Left(d) THEN row(t, fill) ELSE row(fill, t)
    BY DEF Padded
  <2> HIDE DEF fill, row, front, back
  <2> QED
    BY <2>1, <2>2, <2>4, <2>6, <2>7
<1>4. CASE Literal
  <2>1. d.conv = "lit" /\ Out(<<d.arg>>) /\ IsSeq(<<d.arg>>)
    BY <1>4, Tuple DEF Literal, Reads
  <2>2. CTexts(d) = {<<d.arg>>}
    BY <2>1, Zenon DEF CTexts, IntConv
  <2> QED
    BY <2>1, <2>2
<1>5. CASE Char
  <2>1. d.conv = "c" /\ Out(Padded(<<d.arg>>)) /\ IsSeq(<<d.arg>>)
    BY <1>5, Tuple DEF Char, Reads
  <2>2. CTexts(d) = {Field(d, <<>>, <<d.arg>>, FALSE)}
    BY <2>1, Zenon DEF CTexts, IntConv
  <2> QED
    BY <1>3, <2>1, <2>2
<1>6. CASE String
  <2> DEFINE t == IF HasPrec(d) THEN SubSeq(d.arg, 1, Least(Precision, Len(d.arg))) ELSE d.arg
             u == IF HasPrec(d) THEN SubSeq(d.arg, 1, Least(d.prec, Len(d.arg))) ELSE d.arg
  <2>1. d.conv = "s" /\ Out(Padded(t))
    BY <1>6 DEF String, Reads
  <2>2. CTexts(d) = {Field(d, <<>>, u, FALSE)}
    BY <2>1, Zenon DEF CTexts, IntConv
  <2>3. HasPrec(d) => Precision = d.prec
    BY <1>2 DEF Precision, Prec
  <2>4. t = u
    BY <2>3
  <2>5. IsSeq(d.arg) /\ Len(d.arg) \in Nat
    BY <1>1, <2>1, SeqLen DEF IsDirective
  <2>6. Least(Precision, Len(d.arg)) \in Int /\ Least(Precision, Len(d.arg)) <= Len(d.arg)
    BY <1>2, <2>5 DEF Least
  <2>7. IsSeq(t)
    BY <2>5, <2>6, Prefix
  <2> HIDE DEF t, u
  <2> QED
    BY <1>3, <2>1, <2>2, <2>4, <2>7
<1> QED
  BY <1>4, <1>5, <1>6

LEMMA NextPlace ==
  ASSUME NEW n \in Nat, NEW m \in Nat, NEW k \in 1..m - 1
  PROVE  k + 1 \in 1..m /\ n + (k + 1) = (n + 1) + k
OBVIOUS

\* A directive whose output is C's keeps the claim.
LEMMA TextOut ==
  ASSUME PrintfInv, TextInv, format # <<>>, NEW s, IsSeq(s), Out(s), Exact(d) => s \in CTexts(d)
  PROVE  TextInv'
<1> DEFINE n == Len(texts)
<1>1. /\ texts' = Append(texts, s) /\ format' = Tail(format) /\ given' = given /\ pc' = "next"
  BY DEF Out
<1>2. /\ IsSeq(texts) /\ IsSeq(format) /\ n \in Nat /\ DOMAIN texts = 1..n
      /\ Len(format) \in Nat /\ DOMAIN format = 1..Len(format)
  BY SeqLen DEF PrintfInv
<1>3. /\ DOMAIN texts' = 1..n + 1 /\ texts'[n + 1] = s /\ Len(texts') = n + 1
      /\ \A i \in 1..n : texts'[i] = texts[i]
  <2> DEFINE S == ToSet(texts) \cup {s}
  <2>1. texts \in Seq(S) /\ s \in S
    BY <1>2, SeqMonotonic DEF IsSeq
  <2> HIDE DEF S
  <2>2. /\ Append(texts, s) \in Seq(S) /\ Len(Append(texts, s)) = n + 1 /\ Append(texts, s)[n + 1] = s
        /\ \A i \in 1..n : Append(texts, s)[i] = texts[i]
    BY <2>1, AppendProperties
  <2> QED
    BY <1>1, <2>2, LenProperties
<1>4. /\ DOMAIN format' = 1..Len(format) - 1 /\ Len(format) >= 1 /\ d = format[1]
      /\ \A k \in 1..Len(format) - 1 : format'[k] = format[k + 1]
  <2>1. format \in Seq(ToSet(format))
    BY <1>2 DEF IsSeq
  <2>2. /\ Head(format) = format[1] /\ Len(Tail(format)) = Len(format) - 1 /\ Len(format) >= 1
        /\ Tail(format) \in Seq(ToSet(format))
        /\ \A k \in 1..Len(Tail(format)) : Tail(format)[k] = format[k + 1]
    BY <1>2, <2>1, HeadTailProperties, EmptySeq
  <2>3. DOMAIN Tail(format) = 1..Len(Tail(format))
    BY <2>2, LenProperties
  <2> QED
    BY <1>1, <1>2, <2>2, <2>3 DEF d
<1> HIDE DEF n
<1>5. \A k \in DOMAIN format : format[k] = given[n + k]
  BY DEF TextInv, n
<1>6. ASSUME NEW k \in DOMAIN format' PROVE format'[k] = given'[Len(texts') + k]
  <2>1. k \in 1..Len(format) - 1 /\ format'[k] = format[k + 1]
    BY <1>4
  <2>2. k + 1 \in 1..Len(format) /\ n + (k + 1) = (n + 1) + k
    <3>1. Len(format) \in Nat /\ n \in Nat
      BY <1>2
    <3> QED
      BY <2>1, <3>1, NextPlace, Zenon
  <2>3. format[k + 1] = given[n + (k + 1)]
    BY <1>2, <1>5, <2>2
  <2> QED
    BY <1>1, <1>3, <2>1, <2>2, <2>3
<1>7. d = given[n + 1]
  <2>1. 1 \in DOMAIN format
    BY <1>2, <1>4
  <2> QED
    BY <1>4, <1>5, <2>1
<1>8. ASSUME NEW i \in DOMAIN texts', Exact(given'[i]) PROVE texts'[i] \in CTexts(given'[i])
  <2>1. CASE i = n + 1
    BY <1>1, <1>3, <1>7, <1>8, <2>1
  <2>2. CASE i # n + 1
    <3>1. i \in 1..n
      BY <1>2, <1>3, <2>2
    <3> QED
      BY <1>1, <1>2, <1>3, <1>8, <3>1 DEF TextInv, IntegersAndStringsAsInC
  <2> QED
    BY <2>1, <2>2
<1> QED
  BY <1>1, <1>6, <1>8 DEF TextInv, IntegersAndStringsAsInC

\* A step of a conversion leaves the directives and the texts alone.
LEMMA TextConvert ==
  ASSUME TextInv, NEW c, NEW to \in {"format", "rev"}, Convert(c, to),
         to = "format" /\ Exact(d) => AtFormat(d, IntFlags, cv'),
         to = "rev" /\ Exact(d) => AtRev(d, IntFlags, cv')
  PROVE  TextInv'
<1>1. format' = format /\ texts' = texts /\ given' = given /\ pc' = to
  BY DEF Convert
<1>2. d' = d
  BY <1>1 DEF d
<1>3. IntFlags' = IntFlags
  BY <1>2 DEF IntFlags, Flags
<1> QED
  BY <1>1, <1>2, <1>3 DEF TextInv, IntegersAndStringsAsInC

LEMMA TextInvStep == ASSUME PrintfInv, TextInv, [Next]_vars PROVE TextInv'
<1>1. CASE UNCHANGED vars
  <2>1. UNCHANGED <<format, texts, given, pc, cv>>
    BY <1>1 DEF vars
  <2>2. d' = d
    BY <2>1 DEF d
  <2>3. IntFlags' = IntFlags
    BY <2>2 DEF IntFlags, Flags
  <2> QED
    BY <2>1, <2>2, <2>3 DEF TextInv, IntegersAndStringsAsInC
<1>2. CASE Integer
  BY <1>2, IntegerFormat, TextConvert DEF Integer
<1>3. CASE Pointer \/ Ftoa \/ FtoaSpecial
  <2>1. ~Exact(d)
    BY <1>3 DEF Pointer, Ftoa, FtoaSpecial, Reads, Exact, IntConv
  <2>2. \E c, to : to \in {"format", "rev"} /\ Convert(c, to)
    <3>1. CASE Pointer \/ FtoaSpecial
      BY <3>1 DEF Pointer, FtoaSpecial
    <3>2. CASE Ftoa
      <4>1. PICK parts : FtoaOf(Abs(d.arg), parts)
        BY <3>2 DEF Ftoa
      <4> QED
        BY <4>1 DEF FtoaOf
    <3> QED
      BY <1>3, <3>1, <3>2
  <2> QED
    BY <2>1, <2>2, TextConvert
<1>4. CASE NtoaFormat
  <2>1. PICK c : Convert(c, "rev")
    BY <1>4 DEF NtoaFormat
  <2>2. Exact(d) => AtRev(d, IntFlags, cv')
    BY <1>4, FormatText
  <2> QED
    BY <2>1, <2>2, TextConvert
<1>5. CASE OutRev \/ Literal \/ Char \/ String
  <2>1. format # <<>> /\ \E s : IsSeq(s) /\ Out(s)
    BY <1>5, OutRevPrints, TextPrints DEF Prints
  <2>2. PICK s : IsSeq(s) /\ Out(s) /\ (Exact(d) => s \in CTexts(d))
    <3>1. CASE Exact(d)
      BY <1>5, <3>1, RevText, PlainText
    <3>2. CASE ~Exact(d)
      BY <2>1, <3>2
    <3> QED
      BY <3>1, <3>2
  <2> QED
    BY <2>1, <2>2, TextOut
<1>6. CASE Terminate
  <2>1. UNCHANGED <<format, texts, given>> /\ pc' = "end"
    BY <1>6 DEF Terminate
  <2> QED
    BY <2>1 DEF TextInv, IntegersAndStringsAsInC
<1>7. CASE PowerFault
  <2>1. UNCHANGED <<format, texts, given>> /\ pc' = "fault"
    BY <1>7 DEF PowerFault
  <2> QED
    BY <2>1 DEF TextInv, IntegersAndStringsAsInC
<1> QED
  BY <1>1, <1>2, <1>3, <1>4, <1>5, <1>6, <1>7 DEF Next

-----------------------------------------------------------------------------
(* Theorems                                                                *)

\* For any width and precision no conversion writes behind its local buffer.
THEOREM TypeCorrect == NtoaSize >= 4 => (Spec => []TypeOK)
<1> SUFFICES ASSUME NtoaSize >= 4 PROVE Spec => []TypeOK
  OBVIOUS
<1>1. PrintfInv => TypeOK
  BY SeqLen DEF PrintfInv, TypeOK, Conversion, Fits
<1> QED
  BY <1>1, PrintfInvariant, PTL

\* A power of 10 read outside its table, for a precision above NtoaSize + MaxFloatPrec,
\* leaves no trace in what is printed (printf.c:382-389).
FromTable == OutsideNotPrinted /\ (pc = "format" => d.conv # "f")

THEOREM OutsideUnseen == NtoaSize >= 4 => (Spec => []OutsideNotPrinted)
<1> SUFFICES ASSUME NtoaSize >= 4 PROVE Spec => []OutsideNotPrinted
  OBVIOUS
<1>1. Init => FromTable
  BY DEF Init, FromTable, OutsideNotPrinted
<1>2. ASSUME PrintfInv, FromTable, [Next]_vars PROVE FromTable'
  <2>1. CASE UNCHANGED vars
    BY <1>2, <2>1 DEF vars, FromTable, OutsideNotPrinted, d
  <2>2. CASE Ftoa
    BY <1>2, <2>2, FtoaStep DEF FromTable, OutsideNotPrinted
  <2>3. CASE Integer \/ Pointer \/ FtoaSpecial
    <3>1. d.conv # "f" /\ format' = format
      BY <2>3 DEF Integer, Pointer, FtoaSpecial, Reads, Convert, IntConv
    <3>2. d' = d
      BY <3>1 DEF d
    <3> QED
      BY <3>1, <3>2 DEF FromTable, OutsideNotPrinted
  <2>4. CASE NtoaFormat
    <3>1. d.conv # "f" /\ format' = format
      BY <1>2, <2>4 DEF NtoaFormat, Convert, FromTable
    <3>2. d' = d
      BY <3>1 DEF d
    <3> QED
      BY <3>1, <3>2 DEF FromTable, OutsideNotPrinted
  <2>5. CASE OutRev \/ Literal \/ Char \/ String
    <3>1. pc' = "next"
      BY <2>5 DEF OutRev, Literal, Char, String, Out
    <3> QED
      BY <3>1 DEF FromTable, OutsideNotPrinted
  <2>6. CASE PowerFault \/ Terminate
    <3>1. pc' \in {"end", "fault"}
      BY <2>6 DEF PowerFault, Terminate
    <3> QED
      BY <3>1 DEF FromTable, OutsideNotPrinted
  <2> QED
    BY <1>2, <2>1, <2>2, <2>3, <2>4, <2>5, <2>6 DEF Next
<1>3. FromTable => OutsideNotPrinted
  BY DEF FromTable
<1> QED
  BY <1>1, <1>2, <1>3, PrintfInvariant, PTL DEF Spec

\* Whatever the room, the result is the length of the text, and the caller's buffer holds
\* what fits of it and a 0; nothing behind that is touched.
THEOREM BufferDelivered == NtoaSize >= 4 => (Spec => []Delivered)
<1> SUFFICES ASSUME NtoaSize >= 4 PROVE Spec => []Delivered
  OBVIOUS
<1>1. PrintfInv => Delivered
  BY DEF PrintfInv, Delivered
<1> QED
  BY <1>1, PrintfInvariant, PTL

\* The console, or the caller's function, gets the whole text but for characters 0.
THEOREM StreamDelivered == NtoaSize >= 4 => (Spec => []StreamComplete)
<1> SUFFICES ASSUME NtoaSize >= 4 PROVE Spec => []StreamComplete
  OBVIOUS
<1>1. PrintfInv => StreamComplete
  BY DEF PrintfInv, StreamComplete
<1> QED
  BY <1>1, PrintfInvariant, PTL

\* Every character, string and integer within Exact prints what C says, whatever its flags,
\* width, precision, argument and type (printf.c:203-331, 732-810, 818-846).
THEOREM IntegersAndStrings == NtoaSize >= 4 => (Spec => []IntegersAndStringsAsInC)
<1> SUFFICES ASSUME NtoaSize >= 4 PROVE Spec => []IntegersAndStringsAsInC
  OBVIOUS
<1>1. Init => TextInv
  <2> SUFFICES ASSUME Init PROVE TextInv
    OBVIOUS
  <2>1. texts = <<>> /\ given = format /\ pc = "next"
    BY DEF Init
  <2>2. Len(texts) = 0 /\ DOMAIN texts = {}
    BY <2>1, Tuple
  <2>3. IsSeq(format)
    BY PrintfInvInit DEF PrintfInv
  <2>4. \A k \in DOMAIN format : format[k] = given[Len(texts) + k]
    BY <2>1, <2>2, <2>3, SeqLen
  <2> QED
    BY <2>1, <2>2, <2>4 DEF TextInv, IntegersAndStringsAsInC
<1>2. PrintfInv /\ TextInv /\ [Next]_vars => TextInv'
  BY TextInvStep
<1>3. TextInv => IntegersAndStringsAsInC
  BY DEF TextInv
<1> QED
  BY <1>1, <1>2, <1>3, PrintfInvariant, PTL DEF Spec

\* Until the end, too, nothing is written at or behind the size the caller gave.
THEOREM NothingBehind ==
  NtoaSize >= 4 => (Spec => [](\A k \in DOMAIN buffer : k >= maxlen => buffer[k] = Untouched))
<1> SUFFICES ASSUME NtoaSize >= 4
             PROVE  Spec => [](\A k \in DOMAIN buffer : k >= maxlen => buffer[k] = Untouched)
  OBVIOUS
<1>1. PrintfInv => \A k \in DOMAIN buffer : k >= maxlen => buffer[k] = Untouched
  <2> SUFFICES ASSUME PrintfInv, NEW k \in DOMAIN buffer, k >= maxlen PROVE buffer[k] = Untouched
    OBVIOUS
  <2>1. k \in Nat /\ maxlen \in Nat /\ Len(text) \in Nat
    BY SeqLen DEF PrintfInv
  <2>2. CASE pc = "end"
    <3>1. k > Least(Len(text), maxlen - 1)
      BY <2>1 DEF Least
    <3> QED
      BY <2>2, <3>1 DEF PrintfInv, InBuffer
  <2>3. CASE pc # "end"
    BY <2>3 DEF PrintfInv, Written
  <2> QED
    BY <2>2, <2>3
<1> QED
  BY <1>1, PrintfInvariant, PTL

=============================================================================
