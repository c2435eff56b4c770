------------------------------ MODULE MCPrintf ------------------------------
(* Instance of Printf for TLC: every kind of directive with the flags,      *)
(* widths and precisions around the limits, and the ways to call.           *)
EXTENDS Printf

\* 8 bits in binary are more than the local buffer holds, as 64 are in the code.
SmallBits == [hh |-> 2, h |-> 3, int |-> 4, l |-> 8]

FewFlags == {F \in SUBSET {"-", "0", "+", " ", "#"} : Cardinality(F) <= 3}
Plain(conv, arg) == [conv |-> conv, flags |-> {}, width |-> 0, prec |-> NoPrec, size |-> "int", arg |-> arg]

Sized == {<<"hh", -1>>, <<"h", -4>>, <<"int", -8>>, <<"int", 0>>, <<"int", 7>>, <<"l", -128>>, <<"l", 100>>}
Ints(convs, widths, precs) ==
  {[conv |-> c, flags |-> F, width |-> w, prec |-> q, size |-> v[1], arg |-> v[2]] :
     c \in convs, F \in FewFlags, w \in widths, q \in precs, v \in Sized}
IntDirectives ==
  Ints(IntConv, {0, 1, 2, 4, NtoaSize, NtoaSize + 1, NtoaSize + 2, -3}, {NoPrec, 0, 1, 2, NtoaSize, NtoaSize + 1})
  \cup Ints({"d", "o"}, {0, 2, -3}, {-1})

\* Every fraction below 1, and flags with some.  Of 256ths, 243 and 255 round to ten tenths,
\* 128, 384 and 640 are halves; 256000 has four digits before the point.
Floats(widths, precs, args) ==
  {[conv |-> "f", flags |-> F, width |-> w, prec |-> q, size |-> "int", arg |-> x] :
     F \in {G \in FewFlags : "#" \notin G}, w \in widths, q \in precs, x \in args}
Fractions ==
  Floats({0, 3, 5, NtoaSize, NtoaSize + 1, 9, -5}, {NoPrec, 0, 1, 2, 5, -1},
         {0, 13, 64, 128, 192, 243, 255, 384, -384, 640, 2944, 256000})
  \cup {[Plain("f", x) EXCEPT !.prec = q] : q \in 0..2, x \in 0..2^FracBits - 1}

\* As many zeros as the buffer holds leave a precision at the end of the table, and behind it.
Beyond == Floats({0, 9, -9}, {NtoaSize + MaxFloatPrec, NtoaSize + MaxFloatPrec + 1}, {128, -384, 256000})

Specials == {[Plain("special", x) EXCEPT !.flags = F, !.width = w] :
               F \in FewFlags, w \in {0, 3, 5, -5}, x \in {"nan", "inf", "-inf"}}
Pointers == {[Plain("p", x) EXCEPT !.flags = F] : F \in FewFlags, x \in {0, 5, 171}}

Texts == {[conv |-> "c", flags |-> F, width |-> w, prec |-> NoPrec, size |-> "int", arg |-> x] :
            F \in {{}, {"-"}}, w \in {0, 1, 3, -3}, x \in {"x", NUL}}
         \cup {[conv |-> "s", flags |-> F, width |-> w, prec |-> q, size |-> "int", arg |-> x] :
            F \in {{}, {"-"}}, w \in {0, 1, 3, -3}, q \in {NoPrec, 0, 1, 9, -1}, x \in {<<>>, <<"x", "y">>}}

\* One directive behind a character, into a buffer with room
OneDirective == {[kind |-> "buffer", maxlen |-> MaxBuffer, format |-> <<Plain("lit", "."), x>>] :
                   x \in IntDirectives \cup Fractions \cup Beyond \cup Specials \cup Pointers \cup Texts}

\* Two directives in less room than they need, or none, or to the console
Few == {Plain("lit", "x"), Plain("d", -3), Plain("c", NUL), Plain("s", <<"a", "b">>), [Plain("u", 5) EXCEPT !.width = 4]}
TwoDirectives == {[kind |-> k, maxlen |-> n, format |-> <<x, y>>] :
                    k \in {"buffer", "char", "null"}, n \in 0..4, x \in Few, y \in Few}
                 \cup {[kind |-> "buffer", maxlen |-> n, format |-> <<>>] : n \in 0..2}

Calls == OneDirective \cup TwoDirectives

=============================================================================
