------------------------------ MODULE MCValues ------------------------------
(***************************************************************************)
(* Small programs for Values, and jobs for Library.  The faults that the   *)
(* programs come to are named in Meaning, V1 to V29.  Left out of the      *)
(* programs: nested fixed arrays, the text of a fixed array of zeros       *)
(* ("null"), pushes onto an any[], which box nothing, sort and search,     *)
(* which compare bytes, and a view used after a push onto its slice.       *)
(***************************************************************************)
EXTENDS Values

MCParents == <<{}, {1}, {2}>>
MCRefClass == {1}
MCBits == [bool |-> 1, i8 |-> 3, char |-> 3, u8 |-> 3, i16 |-> 4, u16 |-> 4,
           i32 |-> 5, u32 |-> 5, i64 |-> 7, u64 |-> 7]

I32 == Ty("i32")
I16 == Ty("i16")
I8 == Ty("i8")
U32 == Ty("u32")
F64 == Ty("f64")
Text == Ty("string")
Opt(t) == Of("opt", t)

MCSignature == [f |-> [par |-> <<I32>>, ret |-> I32, val |-> Null],
                b |-> [par |-> <<BoolT>>, ret |-> BoolT, val |-> Null],
                g |-> [par |-> <<I32>>, ret |-> I32, val |-> Null],
                c |-> [par |-> <<BoolT>>, ret |-> BoolT, val |-> Null],
                o |-> [par |-> <<>>, ret |-> Opt(I32), val |-> Null]]

N(k, op, n, c) == Checker!Node(k, op, n, NoType, c)
Num(n) == N("int", "", n, <<>>)
Long(n) == N("int", "i64", n, <<>>)
Flt(n) == N("float", "", n, <<>>)
Str(t) == N("str", t, 0, <<>>)
Bool(n) == N("bool", "", n, <<>>)
Nil == N("null", "", 0, <<>>)
Id(x) == N("id", x, 0, <<>>)
Bin(op, a, b) == N("bin", op, 0, <<a, b>>)
Un(op, a) == N("un", op, 1, <<a>>)
Minus(e) == Un("-", e)
Decl(t, x, e) == Checker!Node("decl", x, 0, t, <<e>>)
CastTo(t, e) == Checker!Node("cast", "", 0, t, <<e>>)
Show(e) == N("tmpl", "", 0, <<e>>)
Call(f, es) == N("call", f, 0, es)
Lib(f, es) == N("builtin", f, 0, es)
At(a, i) == N("index", "", 0, <<a, i>>)
Arr(es) == N("array", "", 0, es)
Table(es) == N("map", "", 0, es)

\* Types of numbers and values of each; all types that a variable may have.
Scalars == {I8, I16, I32, Ty("i64"), U32, F64, BoolT}
Given(t) ==
    CASE t.k = "i8" -> {Minus(Num(2)), Num(3)}
      [] t.k = "i16" -> {Minus(Num(3)), Num(5)}
      [] t.k = "i32" -> {Minus(Num(5)), Num(2)}
      [] t.k = "i64" -> {Minus(Long(9)), Num(4)}
      [] t.k = "u32" -> {Num(3)}
      [] t.k = "f64" -> {Flt(5), Minus(Flt(3))}
      [] t.k = "bool" -> {Bool(0), Bool(1)}
      [] t.k = "string" -> {Str("s")}
      [] t.k = "any" -> {Num(4), Flt(3), Str("t"), Nil, Bool(1)}
      [] t.k = "opt" -> {Num(3), Nil}
      [] t.k = "slice" -> {Arr(<<Num(1), Num(2)>>)}
      [] t.k = "array" -> {Arr(<<Num(1), Num(2)>>)}
      [] t.k = "map" -> {Table(<<Str("k"), Num(5)>>)}

X == Id("x")
Y == Id("y")
Z == Id("z")

Ints == Of("slice", I32)
Pair == ArrayOf(2, I32)
Counts == MapOf(Text, I32)
All == Scalars \cup {Text, AnyT, Opt(I32), Ints, Pair, Counts}

\* Two variables.
TwoVars(ts, us, body) ==
    UNION {UNION {{<<Decl(t, "x", a), Decl(u, "y", b)>> \o body : a \in Given(t), b \in Given(u)}
                  : t \in ts} : u \in us}
OneVar(ts, body) == UNION {{<<Decl(t, "x", a)>> \o body : a \in Given(t)} : t \in ts}

Binary == UNION {TwoVars(All, All, <<Show(Bin(op, X, Y))>>) : op \in {"+", "-", "*", "/", "%", "==", "!=", "<", "<=", "??", "&&", "||", "&", "<<", ">>"}}
Implicit == UNION {OneVar(All, <<Decl(t, "y", X), Show(Y)>>) : t \in All}
Explicit == UNION {OneVar(All, <<Decl(t, "y", CastTo(t, X)), Show(Y)>>) : t \in All}
ViaAny == UNION {OneVar(All, <<Decl(AnyT, "y", X), Show(Y), Decl(t, "z", CastTo(t, Y)), Show(Z)>>) : t \in All}
Assigned == UNION {TwoVars(All, All, <<Bin(op, X, Y), Show(X)>>) : op \in {"=", "+=", "-=", "*="}}
Unary == UNION {OneVar(All, <<Show(Un(op, X)), Show(X)>>) : op \in {"!", "-", "~", "++"}}


\* Calls f(x) of the program, which leave a mark, in places that are or are not reached.
F(e) == Call("f", <<e>>)
G(e) == Call("g", <<e>>)
B(n) == Call("b", <<Bool(n)>>)
C(n) == Call("c", <<Bool(n)>>)
Cond(c, a, b) == N("cond", "", 0, <<c, a, b>>)

Effects ==
    {<<Show(Bin(op, B(i), C(j)))>> : op \in {"&&", "||", "==", "!="}, i \in {0, 1}, j \in {0, 1}}
    \cup {<<Show(Cond(B(i), F(Num(1)), G(Num(2))))>> : i \in {0, 1}}
    \cup {<<Decl(Opt(I32), "x", e), Show(Bin("??", X, F(Num(1))))>> : e \in {Nil, Num(3), Call("o", <<>>)}}
    \cup {<<Show(Bin(op, F(Num(4)), G(Num(2))))>> : op \in {"+", "-", "*", "/", "<", "=="}}
    \cup {<<Decl(Ints, "x", Arr(<<F(Num(4)), G(Num(2))>>)), Bin("=", At(X, F(Num(i))), G(Num(7))), Show(X)>> : i \in {0, 1, 2}}
    \cup {<<Decl(Pair, "x", Arr(<<F(Num(4)), G(Num(2))>>)), Bin("=", At(X, F(Num(i))), G(Num(7))), Show(X)>> : i \in {0, 1, 2}}
    \cup {<<Decl(Counts, "x", Table(<<Str("a"), F(Num(4)), Str("b"), G(Num(2))>>)), Bin("=", At(X, Str(k)), G(Num(7))), Show(X)>> : k \in {"a", "c"}}
    \cup {<<Show(F(G(Num(1)))), N("tmpl", "", 0, <<F(Num(1)), Str("-"), G(Num(2))>>)>>}
    \cup {<<Show(Un(op, F(Num(1))))>> : op \in {"-", "!", "~"}}
    \cup {<<Decl(Ints, "x", Arr(<<Num(4), Num(2)>>)), Bin(op, At(X, F(Num(1))), G(Num(3))), Show(X)>> : op \in {"+=", "-="}}
    \cup {<<Decl(Ints, "x", Arr(<<Num(4), Num(2)>>)), Un("++", At(X, F(Num(1)))), Show(X)>>}

\* Sequences.
GivenSeq == {<<Decl(Ints, "x", Arr(<<Num(1), Num(2)>>))>>, <<Decl(Pair, "x", Arr(<<Num(1), Num(2)>>))>>,
          <<Decl(Pair, "z", Arr(<<Num(1), Num(2)>>)), Decl(Ints, "x", Z)>>}
SeqOps == {<<Show(At(X, Num(1)))>>, <<Show(At(X, Minus(Num(1))))>>, <<Show(At(X, Num(2)))>>,
           <<Bin("=", At(X, Num(0)), Num(6)), Show(X)>>, <<Bin("+=", At(X, Num(0)), Num(6)), Show(X)>>,
           <<Un("++", At(X, Num(1))), Show(X)>>,
           <<Decl(Ints, "y", X), Show(Y), Show(Bin("==", X, Y))>>,
           <<Decl(Ints, "y", Arr(<<Num(3), N("un", "...", 0, <<X>>)>>)), Show(Y)>>,
           <<Lib("push", <<X, Num(3)>>), Show(X), Show(Lib("length", <<X>>))>>,
           <<Decl(Ints, "y", X), Lib("push", <<Y, Num(3)>>), Show(X), Show(Y)>>,
           <<Lib("insert", <<X, Num(1), Num(3)>>), Show(X)>>,
           <<Lib("insert", <<X, Num(3), Num(3)>>), Show(X)>>,
           <<Show(Lib("pop", <<X>>)), Show(X)>>,
           <<Lib("pop", <<X>>), Lib("pop", <<X>>), Show(X), Lib("pop", <<X>>), Show(X)>>,
           <<Show(Lib("remove", <<X, Num(0)>>)), Show(X)>>,
           <<Lib("extend", <<X, X>>), Show(X)>>,
           <<Lib("reverse", <<X>>), Show(X)>>, <<Lib("clear", <<X>>), Show(X)>>,
           <<Lib("resize", <<X, Num(3)>>), Show(X)>>, <<Lib("resize", <<X, Num(1)>>), Show(X)>>,
           <<Decl(Ints, "y", Lib("clone", <<X>>)), Bin("=", At(Y, Num(0)), Num(9)), Show(X), Show(Y)>>,
           <<Decl(Ints, "y", Lib("slice", <<X, Num(1), Num(2)>>)), Show(Y)>>,
           <<Decl(AnyT, "y", X), Show(Y), Decl(Ints, "w", CastTo(Ints, Y)), Show(Id("w"))>>,
           <<Decl(Of("slice", AnyT), "y", Arr(<<X, Num(1), Str("s")>>)), Show(Y)>>,
           <<Decl(Opt(Ints), "y", X), Show(N("index", "", 1, <<Y, Num(1)>>))>>,
           <<Decl(Opt(I32), "y", At(X, Num(1))), Show(Y), Show(Bin("??", Y, Num(3)))>>}
OnSequences == {a \o b : a \in GivenSeq, b \in SeqOps}


\* Tables.
TabOps == {<<Show(At(X, Str("k")))>>, <<Show(At(X, Str("no")))>>,
           <<Bin("=", At(X, Str("k")), Num(7)), Show(X)>>, <<Bin("=", At(X, Str("j")), Num(7)), Show(X)>>,
           <<Bin("+=", At(X, Str("k")), Num(2)), Show(X)>>, <<Un("++", At(X, Str("k"))), Show(X)>>,
           <<Show(Lib("has", <<X, Str("k")>>)), Show(Lib("has", <<X, Str("no")>>)), Show(Lib("length", <<X>>))>>,
           <<Lib("remove", <<X, Str("k")>>), Show(Lib("length", <<X>>)), Show(X)>>,
           <<Lib("clear", <<X>>), Show(Lib("length", <<X>>))>>,
           <<Decl(Counts, "y", X), Bin("=", At(Y, Str("j")), Num(1)), Show(X), Show(Bin("==", X, Y))>>,
           <<Decl(AnyT, "y", X), Show(Y), Show(At(Y, Str("k"))), Decl(Counts, "z", CastTo(Counts, Y)), Show(Z)>>,
           <<Decl(Opt(Counts), "y", X), Show(N("index", "", 1, <<Y, Str("k")>>))>>,
           <<Decl(Opt(I32), "y", At(X, Str("k"))), Show(Y)>>,
           <<Decl(AnyT, "y", At(X, Str("k"))), Show(Y), Show(Bin("+", Y, Num(1)))>>,
           <<Show(Bin("==", At(X, Str("k")), Num(5))), Show(Bin("??", At(X, Str("no")), Num(1)))>>}
OnTables == {<<Decl(Counts, "x", Table(<<Str("k"), Num(5), Str("l"), Num(6)>>))>> \o b : b \in TabOps}
           \cup {<<Decl(MapOf(k, v), "x", Table(<<a, b>>)), Show(X), Show(At(X, a)), Bin("=", At(X, a), c), Show(X)>>
                  : k \in {Text, I32, Ty("i64"), AnyT}, v \in {Text, I32, I16, F64, AnyT, Opt(I32), BoolT},
                    a \in {Str("q"), Num(2)}, b \in {Str("r"), Num(3), Flt(3), Nil, Bool(1)}, c \in {Num(4), Str("z"), Nil}}

\* Pointers.
PtrTo(t) == Of("ptr", t)
MutPtr(t) == Of("ptr", Of("mut", t))
Pointers ==
    UNION {OneVar({t}, <<Decl(p, "y", Un("&", X)), Show(Un("*", Y))>> \o b)
           : t \in {I32, I16, F64, BoolT, Text, Opt(I32), AnyT}, p \in {PtrTo(I32), MutPtr(I32), MutPtr(I16), MutPtr(F64), PtrTo(Text), MutPtr(Opt(I32)), MutPtr(AnyT)},
             b \in {<<>>, <<Bin("=", Un("*", Y), Num(3)), Show(X)>>, <<Bin("+=", Un("*", Y), Num(3)), Show(X)>>,
                    <<Un("++", Un("*", Y)), Show(X)>>, <<Bin("=", X, Num(1)), Show(Un("*", Y))>>,
                    <<Decl(I32, "z", Un("*", Y)), Show(Bin("+", Z, Un("*", Y)))>>}}
    \cup {<<Decl(Pair, "x", Arr(<<Num(1), Num(2)>>)), Decl(MutPtr(I32), "y", Un("&", At(X, Num(i)))),
            Bin("=", Un("*", Y), Num(7)), Show(X)>> : i \in {0, 1, 2}}
    \cup {<<Decl(Ints, "x", Arr(<<Num(1), Num(2)>>)), Decl(MutPtr(I32), "y", Un("&", At(X, Num(i)))),
            Bin("=", Un("*", Y), Num(7)), Show(X), Show(Un("*", Bin("+", Y, Num(j))))>> : i \in {0, 1}, j \in {0, 1}}

\* Optionals.
Opts == {Opt(I32), Opt(Text), Opt(BoolT), Opt(F64), Opt(AnyT), Opt(I16), Opt(Ints), Opt(Ty("i64"))}
Optionals ==
    {<<Decl(t, "x", a)>> \o b : t \in Opts, a \in {Nil, Num(3), Str("s"), Bool(1), Flt(3), Arr(<<Num(1)>>)},
         b \in {<<Show(X)>>, <<Show(Bin("==", X, Nil)), Show(Bin("!=", X, Nil))>>, <<Decl(AnyT, "y", X), Show(Y)>>,
                <<Show(Bin("??", X, Num(4)))>>, <<Show(Bin("??", X, Str("e")))>>, <<Show(Bin("==", X, Num(3)))>>,
                <<Bin("=", X, Nil), Show(X)>>, <<Bin("=", X, Num(5)), Show(X)>>, <<Decl(I32, "y", CastTo(I32, X)), Show(Y)>>,
                <<Show(Bin("+", Str("a"), X))>>, <<Decl(I32, "y", X), Show(Y)>>, <<Show(Un("!", X))>>,
                <<Show(N("index", "", 1, <<X, Num(0)>>))>>}}

\* Classes: only null is at hand, so what is tried is who may hold whom.
Classes ==
    {<<Decl(Opt(Class(i)), "x", Nil), Decl(Opt(Class(j)), "y", X), Show(Bin("==", Y, Nil))>>
     : i \in DOMAIN MCParents, j \in DOMAIN MCParents}

\* Longer programs: three steps on a slice, an any, an optional and a table.
Mixed ==
    LET start == <<Decl(Ints, "x", Arr(<<Num(1), Num(2)>>)), Decl(AnyT, "y", Num(4)),
                   Decl(Opt(I32), "z", Nil), Decl(Counts, "w", Table(<<Str("k"), Num(5)>>))>>
        W == Id("w")
        orOne(e) == Bin("??", e, Num(1))
        steps == {Lib("push", <<X, F(Num(3))>>), Lib("pop", <<X>>), Lib("reverse", <<X>>),
                  Bin("=", At(X, Num(0)), orOne(Z)), Bin("+=", At(X, Num(1)), Num(2)),
                  Bin("=", X, Arr(<<orOne(Z), N("un", "...", 0, <<X>>)>>)),
                  Bin("=", Y, At(X, Num(0))), Bin("=", Y, Str("s")), Bin("=", Y, Z), Bin("=", Y, X),
                  Bin("=", Z, At(X, Num(1))), Bin("=", Z, Nil), Bin("=", Z, CastTo(I32, Y)),
                  Bin("=", At(W, Str("j")), orOne(Z)), Bin("=", At(W, Str("k")), At(X, Num(1))),
                  Lib("remove", <<W, Str("k")>>)}
    IN  {start \o <<s1, s2, s3, Show(X), Show(Y), Show(Z), Show(W)>>
         : s1 \in steps, s2 \in steps, s3 \in steps}

\* Sequences of sequences, of texts and of anys, characters.
Nested ==
    {<<Decl(Of("slice", Ints), "x", Arr(<<Arr(<<Num(1)>>), Arr(<<Num(2), Num(3)>>)>>))>> \o b
     : b \in {<<Show(X)>>, <<Show(At(At(X, Num(1)), Num(0)))>>, <<Bin("=", At(At(X, Num(1)), Num(0)), Num(7)), Show(X)>>,
              <<Lib("push", <<At(X, Num(0)), Num(9)>>), Show(X)>>, <<Decl(Ints, "y", At(X, Num(0))), Lib("push", <<Y, Num(9)>>), Show(X)>>,
              <<Lib("push", <<X, Arr(<<Num(4)>>)>>), Show(X)>>, <<Bin("=", At(X, Num(0)), Arr(<<Num(4)>>)), Show(X)>>,
              <<Show(At(At(X, Num(2)), Num(0)))>>, <<Show(At(At(X, Num(0)), Num(1)))>>}}
    \cup {<<Decl(Of("slice", Text), "x", Arr(<<Str("a"), Str("b")>>))>> \o b
     : b \in {<<Show(X)>>, <<Show(At(X, Num(1)))>>, <<Bin("=", At(X, Num(1)), Str("c")), Show(X)>>,
              <<Bin("+=", At(X, Num(1)), Str("c")), Show(X)>>, <<Lib("push", <<X, Str("c")>>), Show(X)>>,
              <<Show(Bin("==", At(X, Num(0)), Str("a")))>>, <<Decl(AnyT, "y", At(X, Num(0))), Show(Y)>>}}
    \cup {<<Decl(Of("slice", AnyT), "x", Arr(<<Num(1), Str("b"), Nil>>))>> \o b
     : b \in {<<Show(X)>>, <<Show(At(X, Num(1)))>>, <<Bin("=", At(X, Num(1)), Num(4)), Show(X)>>,
              <<Decl(AnyT, "y", At(X, Num(0))), Show(Y), Decl(I32, "z", CastTo(I32, Y)), Show(Z)>>,
              <<Decl(I32, "z", CastTo(I32, At(X, Num(0)))), Show(Z)>>, <<Show(Bin("==", At(X, Num(0)), Num(1)))>>}}
    \cup {<<Decl(Ty("char"), "x", N("char", "", 1, <<>>))>> \o b
     : b \in {<<Show(X)>>, <<Decl(I32, "y", X), Show(Y)>>, <<Show(Bin("+", X, Num(1)))>>, <<Decl(AnyT, "y", X), Show(Y)>>,
              <<Decl(Text, "y", X), Show(Y)>>, <<Show(Bin("==", X, N("char", "", 1, <<>>)))>>, <<Show(Bin("+", X, Str("s")))>>}}
    \cup {<<Decl(MapOf(Text, Ints), "x", Table(<<Str("a"), Arr(<<Num(1)>>)>>))>> \o b
     : b \in {<<Show(X)>>, <<Show(At(At(X, Str("a")), Num(0)))>>, <<Lib("push", <<At(X, Str("a")), Num(2)>>), Show(X)>>,
              <<Bin("=", At(X, Str("b")), Arr(<<Num(2)>>)), Show(X)>>, <<Bin("=", At(At(X, Str("a")), Num(0)), Num(2)), Show(X)>>}}
    \cup {<<Decl(MapOf(I32, Text), "x", Table(<<Num(1), Str("a")>>))>> \o b
     : b \in {<<Show(At(X, Num(1)))>>, <<Bin("=", At(X, Num(2)), Str("b")), Show(X)>>, <<Bin("+=", At(X, Num(1)), Str("b")), Show(X)>>,
              <<Show(Lib("has", <<X, Num(1)>>)), Lib("remove", <<X, Num(1)>>), Show(X)>>}}

\* Null where it is not expected.
Nulls ==
    LET uses == {<<Show(Bin("+", X, Num(1)))>>, <<Show(At(X, Num(0)))>>, <<Show(Un("*", X))>>,
                 <<Lib("push", <<X, Num(1)>>)>>, <<Show(Lib("length", <<X>>))>>}
        types == All \cup {PtrTo(I32), MutPtr(I32), Opt(Ints), Opt(Counts)}
    IN  {<<Decl(t, "x", Nil)>> \o b : t \in types, b \in uses}
        \cup UNION {{<<Decl(t, "x", a), Bin("=", X, Nil)>> \o b : a \in Given(t), b \in uses} : t \in All}
        \cup UNION {{<<Decl(Opt(t), "z", Nil), Decl(t, "x", Z)>> \o b : b \in uses} : t \in All}

\* Constants, casts of constants and sums of them, which are folded.
Numerals == {Num(0), Num(3), Num(9), Long(20), Flt(3), Flt(8), Minus(Num(3)), Minus(Flt(5))}
Consts == Numerals \cup {CastTo(t, c) : t \in {I8, I32, U32, F64}, c \in Numerals}
Folded ==
    {<<Show(Bin(op, a, b))>> : op \in {"+", "-", "*", "/", "%", "==", "<", "&"}, a \in Consts, b \in Consts}
    \cup {<<Show(Bin(op, Bin("-", a, b), Num(2)))>> : op \in {"/", "<", "*"}, a \in Numerals, b \in Numerals}

MCPrograms ==
    Binary \cup Implicit \cup Explicit \cup ViaAny \cup Assigned \cup Unary \cup Effects
    \cup OnSequences \cup OnTables \cup Pointers \cup Optionals \cup Classes \cup Mixed \cup Nested
    \cup Nulls \cup Folded

-----------------------------------------------------------------------------
(* Calls of the library.  The bounds: texts of up to four characters, tables *)
(* of up to two entries, sheets of two rows, decimals with two places, words *)
(* of four bits and a first line buffer of two bytes.                        *)

Blank == [fn |-> "none", s |-> <<>>, t |-> <<>>, u |-> <<>>,
          a |-> [m |-> 0, sc |-> 0], b |-> [m |-> 0, sc |-> 0], parts |-> <<>>, rows |-> <<>>]
NoText == <<"NULL">>
ShortTexts == BoundedSeq({"a", "b"}, 4)
TextJobs ==
    {[Blank EXCEPT !.fn = "substring", !.s = s, !.a.m = x, !.b.m = y]
       : s \in {<<"a", "b", "a">>, <<>>, NoText}, x \in -1 .. 4, y \in -1 .. 4}
    \cup {[Blank EXCEPT !.fn = f, !.s = s, !.t = t]
       : f \in {"find", "split"}, s \in ShortTexts \cup {NoText}, t \in BoundedSeq({"a", "b"}, 2) \cup {NoText}}
    \cup {[Blank EXCEPT !.fn = f, !.s = s]
       : f \in {"case", "trim"}, s \in BoundedSeq({"a", "B", " ", "\n"}, 3) \cup {NoText}}
    \cup {[Blank EXCEPT !.fn = "replace", !.s = s, !.t = t, !.u = u]
       : s \in ShortTexts \cup {NoText}, t \in BoundedSeq({"a", "b"}, 2), u \in {<<>>, <<"a">>, <<"b", "a", "b">>, NoText}}
    \cup {[Blank EXCEPT !.fn = "join", !.parts = p, !.t = t]
       : p \in BoundedSeq(BoundedSeq({"a", "b"}, 2), 2), t \in {<<"a">>, <<"b", "a">>}}
SomeDecimals == {[m |-> m, sc |-> s] : m \in {-105, -30, -1, 0, 7, 20, 99}, s \in 0 .. 2}
NumberJobs ==
    {[Blank EXCEPT !.fn = f, !.a = x, !.b = y]
       : f \in {"scale", "add", "sub", "mul", "div", "mod", "cmp"}, x \in SomeDecimals, y \in SomeDecimals}
    \cup {[Blank EXCEPT !.fn = "print", !.a = x] : x \in SomeDecimals}
    \cup {[Blank EXCEPT !.fn = "parse", !.s = s] : s \in BoundedSeq({"0", "7", ".", "-"}, 4)}
    \cup {[Blank EXCEPT !.fn = f, !.a.m = x, !.b.m = y] : f \in {"udiv", "idiv"}, x \in -8 .. 7, y \in -8 .. 7}
    \cup {[Blank EXCEPT !.fn = "pow", !.a.m = x, !.b.m = y] : x \in -3 .. 3, y \in 0 .. 6}
Held(k, t, n) == [kind |-> k, t |-> t, n |-> n]
Truth == Held("bool", <<"t", "r", "u", "e">>, 0)
OddChars == {",", ":", " ", "\"", "}", "1", ".", "-", "a"}
BoxedValues == {Held("str", t, 0) : t \in BoundedSeq(OddChars, 2)} \cup {Held("i32", <<>>, n) : n \in {-12, 0, 7}}
        \cup {Truth, Held("f64", <<"1", ".", "5">>, 0), Held("str", Truth.t, 0), Held("str", <<"1", ".", "-">>, 0)}
FewValues == {Held("str", t, 0) : t \in {<<>>, <<",">>, <<"a">>, <<"a", "\n">>, <<"-", ",">>}} \cup {Truth, Held("i32", <<>>, 7)}
ColumnNames == {<<"k">>, <<"a", ",">>, <<>>, <<"}", "b">>}
Field(k, v) == [k |-> k, v |-> v]
SmallTables == {<<Field(k, v)>> : k \in ColumnNames, v \in BoxedValues} \cup {<<>>}
          \cup {<<Field(k, v), Field(l, w)>> : k \in {<<"k">>, <<"a", ",">>}, v \in FewValues, l \in {<<"l">>, <<>>}, w \in FewValues}
Rows == LET k == Field(<<"k">>, Held("str", <<"a">>, 0))  l == Field(<<"l">>, Held("i32", <<>>, 7))
        IN  {<<k>>, <<l>>, <<k, l>>, <<l, k>>}
Sheets == {<<r>> : r \in SmallTables} \cup {<<>>}
          \cup {<<<<Field(<<"k">>, v), Field(<<"l">>, w)>>, <<Field(<<"k">>, x), Field(<<"l">>, y)>>>>
                : v \in FewValues, w \in FewValues, x \in FewValues, y \in FewValues}
          \* rows that differ in their keys, in the order of their keys, or in length
          \cup {<<r, q>> : r \in Rows, q \in Rows}
FileJobs ==
    {[Blank EXCEPT !.fn = f, !.rows = <<t>>] : f \in {"json", "yaml"}, t \in SmallTables}
    \cup {[Blank EXCEPT !.fn = "csv", !.rows = s] : s \in Sheets}
    \cup {[Blank EXCEPT !.fn = "text", !.s = s, !.t = t] : s \in BoundedSeq({"a", "\n"}, 2), t \in BoundedSeq({"a", "\n"}, 2)}
    \cup {[Blank EXCEPT !.fn = "lines", !.parts = p] : p \in BoundedSeq(BoundedSeq({"a"}, 3) \cup {<<"\r">>}, 2)}
MCJobs == TextJobs \cup NumberJobs \cup FileJobs

VARIABLES job, disk, phase, got

Ask == INSTANCE Library WITH Jobs <- MCJobs, WordBits <- 4, LineCap <- 2

\* A program is compiled and run, or a call is made.
MCInit == (Init /\ Ask!Idle) \/ (Begin(<<>>) /\ Ask!AskInit)
MCNext ==
    \/ job = Ask!NoJob /\ Next /\ UNCHANGED <<job, disk, phase, got>>
    \/ Ask!AskNext /\ UNCHANGED vars
    \/ Ask!Answered /\ UNCHANGED <<vars, job, disk, phase, got>>
MCSpec == MCInit /\ [][MCNext]_<<vars, job, disk, phase, got>>

\* Every call answers what it is for: pieces join to the text they were cut from, exactly
\* as much is written as was allocated, decimals are the fractions they stand for, long
\* division divides, and a file gives back what was written to it unless the format has
\* no way to hold it (moksha_string_*, __moksha_dec_*, __udivmoddi4, moksha_file_*). Of the
\* sheets a CSV file could hold, those Library!Mislabelled (rows whose keys are not the
\* first row's, in its order) and Library!LeavesOldFile (no rows) name are exempt: there
\* the code gives back something else. That a sheet comes back as tables with typed values
\* is the code's; Handbook.md 1498 reads it into a string[][].
LibraryAnswers == Ask!AnswersRight
=============================================================================
