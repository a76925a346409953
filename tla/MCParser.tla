----------------------------- MODULE MCParser -----------------------------
EXTENDS ParserCheck

Id == Leaf("id")
Module(decls, script) == Node("module", <<List(decls), List(script)>>)
Text(m) == Lines(m.k[1]) \o Lines(m.k[2])
Script(t) == LET m == Module(<<>>, <<t>>) IN [text |-> Characters(Text(m)), tree |-> m]
Decl(t) == LET m == Module(<<t>>, <<>>) IN [text |-> Characters(Text(m)), tree |-> m]

\* Every operator, and every pair of them, one an operand of the other
Binaries == {"=", "+=", "||", "&&", "|", "^", "&", "==", "!=", "<", ">=", "??", "<<", ">>", "+", "-", "*", "/", "**"}
Unaries == {"await", "prefix !", "prefix -", "prefix ~", "prefix ++", "prefix &", "prefix *"}
Call(f, args) == Node("call", <<f, List(args)>>)
Around(x) ==
    {Node(op, <<x, Id>>) : op \in Binaries} \cup {Node(op, <<Id, x>>) : op \in Binaries}
    \cup {Node(op, <<x>>) : op \in Unaries \cup {"postfix ++", ".", "?."}}
    \cup {Node("?:", <<x, Id, Id>>), Node("?:", <<Id, x, Id>>), Node("?:", <<Id, Id, x>>),
          Node("index", <<x, Id>>), Node("?index", <<Id, x>>), Call(x, <<>>), Call(Id, <<Id, x>>),
          Node("|>", <<x, Id>>), Node("|>", <<x, Call(Id, <<Id>>)>>), Node("|>", <<Id, Call(Id, <<x>>)>>),
          Node("array", <<List(<<x, Id>>)>>), Node("sizeof", <<x>>)}
Exprs1 == Around(Id)
Exprs2 == UNION {Around(x) : x \in Exprs1}
Assigned(e) == Node("expr", <<Node("=", <<Id, e>>)>>)
ExprInputs == {Script(Assigned(e)) : e \in Exprs1 \cup Exprs2}

\* Types, two levels deep, as the type of a variable and where types stand in expressions
Name == Node("name", <<List(<<>>), List(<<>>)>>)
Simple == {Leaf("int"), Node("int", <<Leaf("unsigned")>>), Leaf("bool"), Leaf("any"), Leaf("table"), Leaf("decimal"), Name}
Types1(T) ==
    {Node(n, <<t>>) : n \in {"*", "lock", "view", "mut", "const", "promise"}, t \in T}
    \cup {Node("[]", <<t, size>>) : t \in T, size \in {None, Leaf("1")}}
    \cup {Node("?", <<t>>) : t \in T \ {Leaf("any")}}
    \cup {Node("name", <<List(<<Id>>), List(<<t>>)>>) : t \in T}
    \cup {Node("table", <<Name, t>>) : t \in T}
    \cup {Node("closure", <<List(<<t>>), Leaf("implicit void")>>) : t \in T}
    \cup {Node("closure", <<List(<<>>), t>>) : t \in T}
    \cup {Node("=>", <<List(<<t>>), Name>>) : t \in T}
\* A suffix belongs to the core of the type to its left, const to the core to its right.
Writable(t) ==
    /\ t.n = "?" => t.k[1].n # "?"
    /\ t.n \in {"?", "[]"} => t.k[1].n \notin {"*", "lock", "view", "mut", "closure", "=>"}
    /\ t.n = "const" => t.k[1].n \notin {"?", "[]", "const"}
Types2 == {t \in Types1(Simple) \cup Types1(Types1(Simple)) : Writable(t)}
Var(type, init) == Node("var", <<List(<<>>), type, None, init, Id>>)
Declared(t) == Var(t, IF t.n = "?" THEN Leaf("implicit null") ELSE None)
Function(params, body) == Node("function", <<List(<<>>), Leaf("void"), List(params), List(<<>>), body>>)
Param(t) == Node("param", <<t, Id, None>>)
TypeInputs ==
    {Decl(Declared(t)) : t \in Simple \cup {u \in Types1(Simple) : Writable(u)}}
    \cup {Decl(Function(<<Param(t)>>, None)) : t \in Types2}
    \cup {Script(Assigned(Node("cast", <<t, Id>>))) : t \in Types2}
    \cup {Script(Assigned(Node("lambda expr", <<None, List(<<Param(t)>>), Id>>))) :
               t \in {Leaf("int"), Leaf("any"), Name, Node("name", <<List(<<>>), List(<<Name>>)>>)}}

\* Statements in statements
Block(stmts) == Node("block", <<List(stmts)>>)
Expr == Node("expr", <<Call(Id, <<>>)>>)
DeclOf(d) == Node("decl", <<d>>)
VarId == Var(Name, Id)
\* what may stand in a loop only
Jumps == {Leaf("break"), Leaf("continue")}
Plain == {Expr, Block(<<>>), DeclOf(VarId), Node("return", <<>>), Node("return", <<Id>>), Node("throw", <<Id>>),
          Node("lock stmt", <<None, Block(<<Expr>>)>>), Node("lock stmt", <<Leaf("async"), Id, Block(<<>>)>>),
          Node("unsafe", <<List(<<Expr>>)>>), Node("expr", <<Node("postfix ++", <<Id>>)>>)}
Catch == Node("catch", <<Name, Id, Block(<<Expr>>)>>)
Loops(x) ==
    {Node("while", <<Id, x>>), Node("do", <<x, Id>>),
     Node("for", <<None, None, None, x>>), Node("for", <<DeclOf(Var(Leaf("int"), Leaf("1"))), Id, Node("postfix ++", <<Id>>), x>>),
     Node("for", <<Node("=", <<Id, Id>>), None, Id, x>>),
     Node("for in", <<Node("names", <<Id>>), Id, x>>), Node("for in", <<Node("names", <<Id, Id>>), Id, x>>),
     Node("for in", <<Node("vars", <<Var(Leaf("int"), None)>>), Id, x>>),
     Node("for in", <<Node("vars", <<Var(Leaf("int"), None), Var(Name, None)>>), Id, x>>),
     Node("switch", <<Id, List(<<Node("case", <<List(<<Id, Node(":", <<Leaf("1"), Leaf("1")>>)>>), List(<<x>>)>>),
                                Node("case", <<List(<<Leaf("str")>>), List(<<>>)>>),
                                Node("default", <<List(<<x, Expr>>)>>)>>)>>)}
Nests(x) ==
    {Block(<<x, Expr>>), Node("if", <<Id, x, None>>), Node("if", <<Id, Block(<<x>>), x>>), Node("defer", <<x>>),
     Node("try", <<Block(<<x>>), List(<<Catch>>), None>>),
     Node("try", <<Block(<<>>), List(<<Catch, Catch>>), Block(<<x>>)>>),
     Node("expr", <<Node("=", <<Id, Node("lambda", <<None, List(<<Param(Leaf("int"))>>), Block(<<x>>)>>)>>)>>)}
Stmts1 == UNION {Nests(x) : x \in Plain} \cup UNION {Loops(x) : x \in Plain \cup Jumps}
InLoops == UNION {Nests(x) : x \in Jumps}
Stmts2 == UNION {Nests(x) \cup Loops(x) : x \in Stmts1} \cup UNION {Loops(x) : x \in InLoops}
StmtInputs == {Decl(Function(<<>>, Block(<<x, Expr>>))) : x \in Plain \cup Stmts1 \cup Stmts2}

\* Declarations, with the modifiers that each of them keeps
Fun(mods, type, params, words, body) == Node("function", <<List(mods), type, List(params), List(words), body>>)
Init1(mods, type, bits, init) == Node("var", <<List(mods), type, bits, init, Id>>)
Class(mods, kind, ref, parents, members) == Node("class", <<List(mods), Leaf(kind), ref, parents, List(members)>>)
Method(op, mods, type, params) ==
    Node("method", <<op, List(mods), type, List(params), List(<<>>), Block(<<Node("return", <<Id>>)>>)>>)
Special(n, mods, params) == Node(n, <<List(mods), Leaf("void"), List(params), List(<<>>), Block(<<>>)>>)
Symbols == List(<<Node("symbol", <<Leaf("id")>>), Node("symbol", <<Leaf("table"), Leaf("as")>>)>>)
T == Node("T", <<>>)
MembersOf ==
    {Method(None, <<>>, Leaf("int"), <<>>), Special("constructor", <<Leaf("private")>>, <<Param(Leaf("int"))>>),
     Special("destructor", <<>>, <<>>)}
    \cup {Init1(<<Leaf(m)>>, Leaf("int"), None, None) : m \in {"public", "static", "shared"}}
    \cup {Method(None, <<Leaf("public"), Leaf(m)>>, Name, <<Param(Name)>>) : m \in {"async", "static"}}
ClassMembers ==
    MembersOf
    \cup {Method(Node("operator", <<Leaf(op)>>), <<>>, Name, <<Param(Name)>>) : op \in Operators \cup {"["}}
    \cup {Method(None, <<Leaf(m)>>, Name, <<>>) : m \in MethodKeeps}
    \cup {Init1(<<Leaf(m)>>, Leaf("int"), None, Leaf("1")) : m \in FieldKeeps \ {"weak"}}
    \cup {Init1(<<>>, Leaf("int"), Leaf("bits"), None), Init1(<<>>, Node("?", <<Name>>), None, Leaf("implicit null"))}
Decls ==
    {Fun(<<Leaf(m), Leaf(n)>>, Leaf("void"), <<>>, <<>>, b) :
         m \in FunctionKeeps, n \in FunctionKeeps, b \in {None, Block(<<>>)}}
    \cup {Fun(<<>>, Name, p, w, Block(<<Expr>>)) :
              p \in {<<Leaf("...")>>, <<Param(Leaf("int")), Leaf("...")>>, <<Node("param", <<Name, None, None>>)>>,
                     <<Node("param", <<Leaf("int"), Id, Leaf("1")>>), Param(Name)>>},
              w \in {<<>>, <<Leaf("view")>>}}
    \cup {Init1(<<Leaf(m)>>, t, b, None) : m \in VariableKeeps \ {"weak"}, t \in {Leaf("int"), Name}, b \in {None, Leaf("bits")}}
    \cup {Init1(<<Leaf(m)>>, t, None, Id) : m \in VariableKeeps \ {"weak"}, t \in {Leaf("any"), Node("*", <<Name>>)}}
    \cup {Class(mods, kind, ref, parents, <<>>) :
              mods \in {<<>>, <<Leaf("packed")>>, <<Leaf("align"), Leaf("section")>>}, kind \in {"class", "struct", "union"},
              ref \in {None, Leaf("ref")}, parents \in {None, List(<<Id>>), List(<<Id, Id>>)}}
    \cup {Class(<<>>, "class", None, None, <<a, b>>) : a \in ClassMembers, b \in ClassMembers}
    \cup {Node("generic class", <<List(p), List(q), List(<<a, Method(None, <<>>, Name, <<>>)>>)>>) :
              p \in {<<>>, <<T>>, <<T, Node("T", <<Leaf("shared")>>)>>}, q \in {<<>>, <<Id, Id>>}, a \in {x \in MembersOf : x.n # "var"}}
    \cup {Node("generic", <<List(<<T>>), d>>) :
              d \in {Fun(<<>>, Name, <<Param(Name)>>, <<>>, Block(<<>>)), Class(<<>>, "struct", None, None, <<VarId>>)}}
    \cup {Node("enum", <<List(c)>>) : c \in {<<>>, <<Node("enum case", <<None>>)>>,
                                             <<Node("enum case", <<Leaf("1")>>), Node("enum case", <<None>>)>>}}
    \cup {Node("macro", <<p, List(b), Id>>) : p \in {None, List(<<>>), List(<<Id, Id>>)}, b \in {<<>>, <<Expr, Node("return", <<>>)>>}}
    \cup {Node("using", <<Name>>), Node("import", <<Leaf("str")>>), Node("import", <<Leaf("id"), Leaf("as")>>),
          Node("from", <<Leaf("str"), Symbols>>), Node("import from", <<Symbols, Leaf("id")>>)}
DeclInputs == {Decl(d) : d \in Decls}

\* The other expressions
Mode == {None, Leaf("move"), Leaf("&"), Leaf("&mut")}
Lambda(mode, body) == Node(IF body.n = "block" THEN "lambda" ELSE "lambda expr", <<mode, List(<<Param(Leaf("int"))>>), body>>)
Operand == Node("operand", <<Id>>)
Others(x) ==
    {Node("map", <<List(e)>>) : e \in {<<>>, <<Node("entry", <<Id, x>>)>>, <<Node("entry", <<x, Id>>), Node("entry", <<Id, Id>>)>>}}
    \cup {Node("array", <<List(e)>>) : e \in {<<>>, <<x>>, <<Node("prefix ...", <<x>>), Id>>}}
    \cup {Node("template", <<List(p)>>) : p \in {<<x, Leaf("tmpl")>>, <<Leaf("frag"), x, Leaf("frag"), Id, Leaf("tmpl")>>}}
    \cup {Lambda(m, b) : m \in Mode, b \in {x, Block(<<Node("return", <<x>>)>>)}}
    \cup {Node("async", <<Lambda(None, x)>>), Node("input", <<x>>), Node("bitcast", <<Name, x>>),
          Node("new thread", <<None, Lambda(Leaf("move"), x)>>), Node("prefix shared", <<x>>)}
    \cup {Node("new", <<w, Name, List(a)>>) : w \in {None, Leaf("weak")}, a \in {<<>>, <<x, Id>>}}
    \cup {Node("asm", t \o <<List(d)>>) : t \in {<<>>, <<Leaf("int")>>},
              d \in {<<>>, <<Leaf("volatile")>>, <<Node("out", <<List(<<Operand>>)>>), Node("in", <<List(<<Operand, Operand>>)>>),
                                                   Node("clobber", <<List(<<Leaf("str"), Leaf("str")>>)>>)>>}}
OtherInputs ==
    {Script(Assigned(y)) : y \in Others(Id) \cup UNION {Others(x) : x \in Others(Id) \cup Exprs1}}

\* Two statements with a line each and no semicolons.  ++, -- and ** at the start of a line
\* belong to the line before, and * before a name at the end of one is taken for a declaration.
Starts == {Node(op, <<Id>>) : op \in {"prefix -", "prefix !", "prefix ~", "prefix &", "prefix *"}}
          \cup {Call(Lambda(None, Id), <<>>), Node("array", <<List(<<Id>>)>>), Call(Id, <<>>), Node("=", <<Id, Id>>)}
TwoLines(a, b) ==
    [text |-> Characters(Front(Unparse(a)) \o <<"\n">> \o Front(Unparse(b))),
     tree |-> Module(<<>>, <<a, b>>)]
EndsInStar(e) == \E i \in 1 .. Len(e.k) : e.n \in {"*", "**", "prefix *"} /\ e.k[i] = Id
LineInputs ==
    {TwoLines(Assigned(e), Node("expr", <<f>>)) : e \in {x \in Exprs1 : ~EndsInStar(x)}, f \in Starts}

\* Any two tokens where a declaration, a statement or an expression may be, or in one
Alphabet == {"id", "1", "str", "(", ")", "[", "]", "{", "}", "<", ">", ">>", "?", ":", ";", ",", ".", "=", "=>", "->", "+", "*",
             "&", "++", "...", "|>", "class", "enum", "generic", "macro", "import", "using", "if", "for", "do", "switch", "case",
             "return", "break", "try", "catch", "lock", "async", "new", "await", "cast", "int", "const", "weak", "promise",
             "table", "closure", "operator", "constructor", "\n"}
Places == {<< <<>>, <<>> >>, << <<"{">>, <<"}">> >>, << <<"id", "=">>, <<";">> >>, << <<"class", " ", "id", "{">>, <<"}">> >>,
           << <<"int", " ", "id", "(">>, <<")", ";">> >>, << <<"switch", "(", "id", ")", "{">>, <<"}">> >>}
Spaced(t) == Sep([i \in DOMAIN t |-> <<t[i]>>], <<" ">>)
AnyInputs == {[text |-> Characters(p[1] \o <<" ">> \o Spaced(w) \o <<" ">> \o p[2]), tree |-> None] :
                  p \in Places, w \in {<<>>} \cup {<<a>> : a \in Alphabet} \cup {<<a, b>> : a \in Alphabet, b \in Alphabet}}

\* The same trees in other spellings: comments for blanks, other numbers, names and quotes.  (The
\* parser sees no declaration in Name /* */ x, and no new line behind a comment.)
Respelled(i, c, as) ==
    [text |-> FlattenSeq([j \in DOMAIN i.text |-> IF i.text[j] = c THEN as ELSE <<i.text[j]>>]), tree |-> i.tree]
BlockComment2 == <<" ", "/", "*", "/", "*", "id", "*", "/", "id", "*", "*", "/", " ">>
LineComment == <<" ", "/", "/", "*", "id", "\n", " ">>
Numbers == {<<"0", "x", "f", "_", "1">>, <<"0", "b", "1", "u", "8">>, <<"0", "o", "7">>, <<"1", "_", "0", "i", "6", "4">>,
            <<"1", ".", "5", "e", "-", "3">>, <<"9", "d">>, <<"1", "e", "1", "f", "3", "2">>, <<"sq", "c", "sq">>,
            <<"sq", "bs", "u", "{", "1", "f", "}", "sq">>, <<"sq", "bs", "sq", "sq">>, <<".", "5">>}
Strings == {<<"dq", "c", "bs", "dq", " ", "/", "/", "dq">>, <<"dq", "bq", "$", "{", "bs", "x", "0", "f", "dq">>}
LexInputs ==
    {Respelled(i, " ", BlockComment2) : i \in {Script(Assigned(e)) : e \in Exprs1}}
    \cup {Respelled(Script(Assigned(Node(op, <<Id, Id>>))), " ", LineComment) : op \in Binaries \ {"+", "-", "*", "&", "**"}}
    \cup {Respelled(Script(Assigned(Node("+", <<Leaf("1"), Node("array", <<List(<<Leaf("1"), Id>>)>>)>>))), "1", n) : n \in Numbers}
    \cup {[text |-> <<"id", "=">> \o q \o <<";">>, tree |-> Script(Assigned(Leaf("str"))).tree] : q \in Strings}
    \cup {Respelled(Decl(d), "id", w) : w \in {<<"int", "id">>, <<"id", "1">>, <<"_", "1">>}, d \in Decls}

\* Any three characters, and longer runs of those that matter to comments, numbers and templates
Runs(S, n) == UNION {[1 .. k -> S] : k \in 1 .. n}
RunInputs == {[text |-> w, tree |-> None] : w \in
    Runs({"id", "0", "1", "x", "e", "_", "u", ".", "dq", "sq", "bq", "bs", "$", "{", "}", "/", "*", "\n", " ", "+", "=", ">", "utf", "bad"}, 3)
    \cup Runs({"/", "*", "\n", ";"}, 6) \cup Runs({"bq", "c", "$", "{", "}"}, 5) \cup Runs({"0", "1", "x", "_", ".", "e"}, 4)}

\* Macros m and n with parameters a and b and a variable t, called with x, t and expressions of them,
\* with names of the parameters, and in every place of an expression or a statement.
A == Leaf("a")
B == Leaf("b")
TT == Leaf("t")
X == Leaf("x")
VarT(init) == DeclOf(Node("var", <<List(<<>>), Leaf("int"), None, init, TT>>))
Set(v, e) == Node("expr", <<Node("=", <<v, e>>)>>)
Plus(u, v) == Node("+", <<u, v>>)
CallOf(f, u, v) == Call(Leaf(f), <<u, v>>)
Macro(name, body) == Node("macro", <<List(<<A, B>>), List(body), Leaf(name)>>)
Bodies ==
    {<<VarT(A), Set(A, B), Set(B, TT)>>,
     <<DeclOf(Node("var", <<List(<<>>), Leaf("int"), None, B, A>>)), Set(A, TT)>>,
     <<Node("expr", <<Node("-", <<A, B>>)>>)>>, <<Node("return", <<Plus(A, TT)>>)>>,
     <<VarT(A), Node("expr", <<Plus(TT, B)>>)>>, <<VarT(None), Node("return", <<TT>>)>>,
     <<Node("if", <<A, Block(<<VarT(B), Set(A, TT)>>), Set(B, A)>>)>>,
     <<Node("while", <<A, Block(<<VarT(B), Set(A, TT)>>)>>), Node("do", <<Set(A, B), B>>)>>,
     <<Node("for", <<VarT(A), Node("==", <<TT, B>>), Node("postfix ++", <<TT>>), Set(A, TT)>>)>>,
     <<Node("for in", <<Node("names", <<TT>>), A, Set(B, TT)>>)>>,
     <<Node("for in", <<Node("names", <<Leaf("u"), TT>>), A, Set(TT, Leaf("u"))>>)>>,
     <<Node("try", <<Block(<<Set(A, B)>>), List(<<Node("catch", <<Name, TT, Block(<<Set(B, TT)>>)>>)>>), Block(<<Set(A, A)>>)>>)>>,
     <<VarT(A), Node("switch", <<TT, List(<<Node("case", <<List(<<B>>), List(<<Set(B, TT)>>)>>), Node("default", <<List(<<Set(A, TT)>>)>>)>>)>>)>>,
     <<VarT(A), Node("expr", <<CallOf("n", TT, B)>>), Set(B, TT)>>, <<Node("expr", <<CallOf("n", B, A)>>)>>,
     <<Node("expr", <<CallOf("m", B, A)>>)>>, <<Set(A, CallOf("m", A, B))>>, <<Node("return", <<>>)>>,
     <<Node("if", <<CallOf("n", A, B), Set(A, TT), None>>)>>, <<Set(TT, Node("prefix -", <<CallOf("n", B, A)>>))>>,
     <<VarT(A), Node("defer", <<Set(B, TT)>>), Node("unsafe", <<List(<<Set(TT, B)>>)>>), Node("throw", <<TT>>)>>,
     <<VarT(A), Node("lock stmt", <<None, B, Block(<<Set(B, TT)>>)>>)>>}
Assigning == {<<VarT(B), Set(TT, y)>> : y \in Others(A) \cup Around(A)}
Inner == {<<VarT(A), Set(A, TT), Set(B, A)>>, <<Node("expr", <<Plus(A, B)>>)>>, <<Node("return", <<Plus(B, A)>>)>>}
Calls ==
    LET args == {<<X, TT>>, <<TT, X>>, <<Plus(TT, X), Call(Id, <<TT>>)>>, <<CallOf("n", TT, X), TT>>}
        m(z) == CallOf("m", z[1], z[2])
    IN {Node("expr", <<m(z)>>) : z \in args} \cup {Set(X, m(z)) : z \in args}
       \cup {VarT(m(z)) : z \in args}
       \cup {Node("if", <<X, Block(<<Node("expr", <<m(<<TT, X>>)>>)>>), None>>), Node("return", <<m(<<TT, X>>)>>),
             Set(X, Call(Id, <<m(<<TT, X>>), Id>>)), Set(X, Node("array", <<List(<<m(<<TT, X>>)>>)>>)), Set(X, Call(Leaf("m"), <<TT>>)),
             Set(X, Lambda(None, m(<<TT, X>>))), Set(X, Lambda(None, Block(<<Node("expr", <<m(<<TT, X>>)>>)>>)))}
Anywhere(c) ==
    {Set(X, e) : e \in Around(c) \cup Others(c) \cup {Node("cast", <<Leaf("int"), c>>), Node("cast", <<Leaf("int"), Plus(c, X)>>)}}
    \cup {Node("if", <<c, Block(<<Set(X, TT)>>), None>>), Node("while", <<c, Set(X, TT)>>), Node("do", <<Set(X, TT), c>>),
          Node("for", <<c, c, c, Block(<<>>)>>), Node("for in", <<Node("names", <<Leaf("u")>>), c, Block(<<>>)>>),
          Node("switch", <<c, List(<<Node("case", <<List(<<c>>), List(<<Set(X, TT)>>)>>)>>)>>),
          Node("throw", <<c>>), Node("lock stmt", <<None, c, Block(<<>>)>>)}
    \cup Nests(Node("expr", <<c>>)) \cup {Node("while", <<X, Node("expr", <<c>>)>>), Node("expr", <<Call(Leaf("m"), <<TT>>)>>)}
LikeParameters == {Node("expr", <<CallOf("m", B, X)>>), Node("expr", <<CallOf("m", X, Plus(A, X))>>), Set(X, CallOf("m", B, A))}
Using(inner, body, call) ==
    LET m == Module(<<Macro("n", inner), Macro("m", body), Function(<<>>, Block(<<call>>))>>, <<Set(TT, X)>>)
    IN [text |-> Characters(Text(m)), tree |-> m]
MacroInputs ==
    {Using(i, b, c) : i \in Inner, b \in Bodies, c \in Calls}
    \cup {Using(<<Node("return", <<Plus(B, A)>>)>>, b, c) : b \in Bodies, c \in LikeParameters \cup Anywhere(CallOf("m", TT, X))}
    \cup {Using(<<>>, b, c) : b \in Assigning, c \in {Node("expr", <<CallOf("m", Plus(TT, X), TT)>>), Set(X, CallOf("m", TT, X))}}
    \cup {Using(<<Node("return", <<A>>)>>, <<VarT(CallOf("n", A, B)), Node("expr", <<CallOf("m", TT, B)>>)>>, Node("expr", <<CallOf("m", TT, X)>>))}

AllInputs == <<ExprInputs, TypeInputs, StmtInputs, DeclInputs, OtherInputs, LineInputs, AnyInputs, LexInputs, RunInputs, MacroInputs>>
=============================================================================
