------------------------------ MODULE Parser ------------------------------
(***************************************************************************)
(* The recursive-descent parser (frontend/parser/Parser.cpp).  Each of its *)
(* functions is an operator from a parser state to a parser state and a    *)
(* tree.  Most functions are a list of steps (take a token, expect one,    *)
(* call another function), so they are written as such lists and Run gives *)
(* the lists their meaning; Parse calls a function by its name.            *)
(*                                                                         *)
(* A tree is a node with a name and children.  Values, positions, and the  *)
(* names of all but variables and macros are left out.                     *)
(***************************************************************************)
EXTENDS Lexer

-----------------------------------------------------------------------------
(* What the parser reads (frontend/parser/Parser.cpp): the tokens of a     *)
(* text, one at a time with one token of lookahead, and, where that is not *)
(* enough to tell a declaration from an expression, the characters of the  *)
(* text itself.                                                            *)

VARIABLE toks          \* the tokens of the text: [k |-> kind, at |-> offset, n |-> length]

-----------------------------------------------------------------------------
(* The state of the parser: the place of curTok, whether '>>' lost its     *)
(* first half, whether something was reported, how deep in loops, and      *)
(* whether a loop of the parser goes round without taking a token (the     *)
(* parser never returns).  unseen: parseType gave up without a report.     *)

AtLast(s) == s.p = Len(toks)

Start == [p |-> 1, half |-> FALSE, bad |-> FALSE, depth |-> 0, hung |-> FALSE, unseen |-> FALSE]

Cur(s) ==
    LET k == toks[s.p].k
    IN IF ~s.half THEN k ELSE IF k = ">>" THEN ">" ELSE ">="

\* The name that the current token is
WordOf(s) == IF toks[s.p].n = 1 THEN chars[toks[s.p].at] ELSE "id"

NextTok(s) == IF AtLast(s) THEN toks[s.p].k ELSE toks[s.p + 1].k

\* Looks at the text before the token; Eof has no spelling, so it is never on a new line.
HasNewlineBeforeToken(s) ==
    /\ toks[s.p].n > 0
    /\ \E j \in 1 .. toks[s.p].at - 1 : chars[j] = "\n" /\ \A m \in j .. toks[s.p].at - 1 : chars[m] \in Space

\* The last token comes again and again.
Advance(s) == [s EXCEPT !.p = IF AtLast(s) THEN @ ELSE @ + 1, !.half = FALSE]

Error(s) == [s EXCEPT !.bad = TRUE]

ConsumeIf(k, s) == IF Cur(s) = k THEN Advance(s) ELSE s

Expect(k, s) == IF Cur(s) = k THEN Advance(s) ELSE Error(s)

ExpectGreater(s) ==
    IF Cur(s) = ">" THEN Advance(s)
    ELSE IF Cur(s) \in {">>", ">>="} THEN [s EXCEPT !.half = TRUE]
    ELSE Error(s)

\* A round of a loop that took no token would be repeated for ever.
Hang(s) == [s EXCEPT !.hung = TRUE]

\* Skip tokens until one of a set, or the end.
RECURSIVE SkipTo(_, _)
SkipTo(ks, s) ==
    IF Cur(s) \in ks \cup {"eof"} THEN s
    ELSE IF AtLast(s) THEN Hang(s) ELSE SkipTo(ks, Advance(s))

\* Mutant of Synchronize: stop at a token that starts a statement, even
\* when it is the one the parser gave up at.
SynchronizeInPlace(s) ==
    ConsumeIf(";", SkipTo({";", "class", "if", "while", "for", "return", "import", "}"}, s))

Synchronize(s) ==
    IF Cur(s) \in {"eof", ";"} THEN ConsumeIf(";", s)
    ELSE ConsumeIf(";", SkipTo({";", "class", "if", "while", "for", "return", "import", "}"}, Advance(s)))

-----------------------------------------------------------------------------
(* Looking ahead in the characters: c is an offset; "" is past the end *)

WordAt(c) == IsWord(CharAt(c))

\* The offset just behind the bracket that closes the one at c, or 0 when
\* a character of stop, or the end, comes first.
RECURSIVE Closing(_, _, _, _, _)
Closing(open, close, stop, depth, c) ==
    LET step == IF CharAt(c) = open THEN 1 ELSE IF CharAt(c) = close THEN -1 ELSE 0
    IN IF CharAt(c) \in stop \cup {""} THEN 0
       ELSE IF depth + step = 0 THEN c + 1
       ELSE Closing(open, close, stop, depth + step, c + 1)

\* Behind ".name" segments.
RECURSIVE SkipSegments(_)
SkipSegments(c) ==
    LET dot == SkipSpace(c)
        name == SkipSpace(dot + 1)
    IN IF CharAt(dot) = "." /\ WordAt(name) THEN SkipSegments(SkipName(name)) ELSE c

\* Behind the suffixes of a type; 0 when a bracket stays open.
RECURSIVE SkipSuffixes(_)
SkipSuffixes(c) ==
    IF CharAt(c) = "["
    THEN LET e == Closing("[", "]", {}, 0, c) IN IF e = 0 THEN 0 ELSE SkipSuffixes(e)
    ELSE IF CharAt(c) \in Space \cup {"?", "*"} THEN SkipSuffixes(c + 1) ELSE c

DeclarationWords == {
    "import", "from", "generic", "enum", "class", "struct", "union", "ref", "thread", "table",
    "unsigned", "weak", "async", "shared", "macro", "const", "static", "public", "private",
    "protected", "extern", "using", "packed", "align", "section", "interrupt", "naked",
    "noreturn", "noinline", "volatile", "inline", "pure", "cold", "lock", "view", "mut", "used",
    "thread_local"}
Scalars == {"int", "short", "long", "char", "float", "double", "isize", "usize", "bool", "string",
            "half", "quarter"}

\* Name x, a.b.Name x, Name<...> x, Name[] x, Name? x, Name* x
NameStartsDeclaration(s) ==
    LET c == SkipSpace(SkipSegments(SkipName(toks[s.p].at)))
    IN IF WordAt(c) THEN TRUE
       ELSE IF CharAt(c) = "<"
       THEN LET e == Closing("<", ">", {";", "\n"}, 0, c) IN e # 0 /\ WordAt(SkipSpace(e))
       ELSE LET e == SkipSuffixes(c) IN e # 0 /\ WordAt(e)

\* *int x, &mut x, **Name x, *Name<...> x
StarStartsDeclaration(s) ==
    LET c == SkipChars(Space \cup {"*", "&"}, toks[s.p].at)
        d == SkipName(c)
        word == IF d = c + 1 THEN CharAt(c) ELSE ""
        \* past the arguments, or, when they stay open, to the end of the line
        open == CharAt(d) = "<"
        e == Closing("<", ">", {";", "\n"}, 0, d)
        lineEnd == CHOOSE x \in d .. Len(chars) + 1 :
                       /\ CharAt(x) \in {";", "\n", ""}
                       /\ \A y \in d .. x - 1 : CharAt(y) \notin {";", "\n"}
        f == IF ~open THEN d ELSE IF e # 0 THEN e ELSE lineEnd
    IN \/ word \in Scalars \cup {"mut", "const", "lock", "view", "void", "any", "unsigned", "volatile", "decimal"}
       \/ WordAt(SkipSpace(f))

IsStartOfDeclaration(s) ==
    LET k == Cur(s)
        close == Closing("(", ")", {";", "\n"}, 0, toks[s.p].at)
        after == SkipSpace(close)
    IN \/ /\ k \in DeclarationWords
          /\ ~(k = "lock" /\ NextTok(s) \in {"{", "("})
          /\ ~(k \in {"view", "mut"} /\ NextTok(s) = "{")
          /\ ~(k = "async" /\ NextTok(s) = "lock")
       \/ k = "closure"
       \/ k = "(" /\ close # 0 /\ CharAt(after) = "=" /\ CharAt(after + 1) = ">"
       \/ k \in Scalars \cup {"void", "any", "decimal", "promise"} /\ NextTok(s) # "("
       \/ k = "id" /\ NameStartsDeclaration(s)
       \/ k \in {"*", "**", "&"} /\ StarStartsDeclaration(s)

-----------------------------------------------------------------------------
(* The trees.                                                              *)

Node(n, k) == [n |-> n, k |-> k]
Leaf(n) == Node(n, <<>>)
None == Leaf("")                     \* a null pointer
List(k) == Node("list", k)
R(s, t) == [s |-> s, t |-> t]        \* what a function returns

RECURSIVE Parse(_, _)

-----------------------------------------------------------------------------
(* Steps *)

Step(e, k, nt) == [e |-> e, k |-> k, nt |-> nt]
Eat == Step("eat", "", "")                  \* consume();
Tok(k) == Step("tok", k, "")                \* expect(k);
Need(k) == Step("need", k, "")              \* if (!expect(k)) return nullptr;
May(k) == Step("may", k, "")                \* consumeIf(k);
Keep(k) == Step("keep", k, "")              \* flag = consumeIf(k);
Greater == Step("greater", "", "")          \* expectGreater();
Sub(nt) == Step("sub", "", nt)              \* x = parse...();
Must(nt) == Step("must", "", nt)            \* x = parse...(); if (!x) return nullptr;
Opt(k, nt) == Step("opt", k, nt)            \* if (consumeIf(k)) x = parse...();
OptMust(k, nt) == Step("opt must", k, nt)   \* if (consumeIf(k)) ...; if (!x) return nullptr;

DoStep(f, a) ==
    LET s == f.s
        took == Cur(s) = a.k
        Child(r) == [f EXCEPT !.s = r.s, !.kids = Append(@, r.t)]
    IN IF ~f.ok THEN f
       ELSE CASE a.e = "eat" -> [f EXCEPT !.s = Advance(s)]
              [] a.e = "tok" -> [f EXCEPT !.s = Expect(a.k, s)]
              [] a.e = "need" -> [f EXCEPT !.s = Expect(a.k, s), !.ok = took]
              [] a.e = "may" -> [f EXCEPT !.s = ConsumeIf(a.k, s)]
              [] a.e = "keep" -> Child(R(ConsumeIf(a.k, s), IF ~took THEN None ELSE Leaf(IF a.k = "id" THEN WordOf(s) ELSE a.k)))
              [] a.e = "greater" -> [f EXCEPT !.s = ExpectGreater(s)]
              [] a.e = "sub" -> Child(Parse(a.nt, s))
              [] a.e = "must" -> LET r == Parse(a.nt, s) IN [Child(r) EXCEPT !.ok = r.t # None]
              [] a.e = "opt must" ->
                     LET r == IF took THEN Parse(a.nt, Advance(s)) ELSE R(s, None)
                     IN [Child(r) EXCEPT !.ok = took => r.t # None]
              [] a.e = "opt" -> Child(IF took THEN Parse(a.nt, Advance(s)) ELSE R(s, None))

RECURSIVE DoSteps(_, _)
DoSteps(f, steps) == IF steps = <<>> THEN f ELSE DoSteps(DoStep(f, Head(steps)), Tail(steps))

Run(n, steps, s) ==
    LET Ended(f) == R(f.s, IF f.ok THEN Node(n, f.kids) ELSE None)
    IN Ended(DoSteps([s |-> s, kids |-> <<>>, ok |-> TRUE], steps))

\* do { x } while (consumeIf(Comma));
RECURSIVE Commas(_, _, _)
Commas(nt, kids, s) ==
    LET r == Parse(nt, s)
        all == Append(kids, r.t)
    IN IF Cur(r.s) = "," THEN Commas(nt, all, Advance(r.s)) ELSE R(r.s, List(all))

\* The same behind "(", when there is anything at all; null results stay.
Listed(nt, s) == IF Cur(s) = ")" THEN R(s, List(<<>>)) ELSE Commas(nt, <<>>, s)
WithoutNull(r) == R(r.s, List(SelectSeq(r.t.k, LAMBDA t : t # None)))

\* A round that took no token will not take one the next time.
Stuck(before, after) == before.p = after.p /\ before.half = after.half

\* while (cur is none of ends) { if (s = parseStatement()) add s; else synchronize(); }
RECURSIVE Stmts(_, _, _)
Stmts(ends, kids, s) ==
    LET r == Parse("stmt", s)
        z == IF r.t = None THEN Synchronize(r.s) ELSE r.s
    IN IF s.hung \/ Cur(s) \in ends THEN R(s, List(kids))
       ELSE IF Stuck(s, z) THEN R(Hang(z), List(kids))
       ELSE Stmts(ends, IF r.t = None THEN kids ELSE Append(kids, r.t), z)

-----------------------------------------------------------------------------
(* Statements *)

\* One declaration is a statement, several, or none, are a block of them.
DeclStmt(r) ==
    R(r.s, IF Len(r.t.k) = 1 THEN Node("decl", r.t.k)
           ELSE Node("block", <<List([i \in DOMAIN r.t.k |-> Node("decl", <<r.t.k[i]>>)])>>))

\* loopDepth++; ... loopDepth--;
LoopBody(s) ==
    LET r == Parse("stmt", [s EXCEPT !.depth = @ + 1])
    IN R([r.s EXCEPT !.depth = @ - 1], r.t)

ParseBlock(s) == Run("block", <<Tok("{"), Sub("stmts"), Tok("}")>>, s)
ParseIf(s) == Run("if", <<Eat, Tok("("), Sub("expr"), Tok(")"), Sub("stmt"), Opt("else", "stmt")>>, s)
ParseWhile(s) == Run("while", <<Eat, Tok("("), Sub("expr"), Tok(")"), Sub("loop body")>>, s)
ParseDoWhile(s) ==
    Run("do", <<Eat, Sub("loop body"), Tok("while"), Tok("("), Sub("expr"), Tok(")"), May(";")>>, s)
ParseDefer(s) == Run("defer", <<Eat, Sub("stmt")>>, s)
ParseThrow(s) == Run("throw", <<Eat, Sub("expr"), May(";")>>, s)
ParseUnsafe(s) == Run("unsafe", <<Eat, Tok("{"), Sub("stmts"), Tok("}")>>, s)

ParseReturn(s) ==
    IF NextTok(s) = ";" THEN Run("return", <<Eat, May(";")>>, s)
    ELSE Run("return", <<Eat, Sub("expr"), May(";")>>, s)

\* break and continue
ParseJump(s) ==
    LET z == IF s.depth = 0 THEN Error(Advance(s)) ELSE Advance(s)
    IN R(ConsumeIf(";", z), Leaf(Cur(s)))

ParseLock(s) ==
    LET target == LET q == IF Cur(s) = "async" THEN Advance(s) ELSE s
                  IN IF NextTok(q) = "(" THEN <<Tok("("), Sub("expr"), Tok(")")>> ELSE <<>>
    IN Run("lock stmt", <<Keep("async"), Eat>> \o target \o <<Sub("block")>>, s)

\* A clause without a name forgets its type.
RECURSIVE Catches(_, _)
Catches(kids, s) ==
    LET r == Run("catch", <<Eat, Tok("("), Sub("type"), Keep("id"), Tok(")"), Sub("block")>>, s)
        clause == IF r.t.k[2] = None THEN Node("catch", <<None, None, r.t.k[3]>>) ELSE r.t
    IN IF Cur(s) # "catch" THEN R(s, List(kids)) ELSE Catches(Append(kids, clause), r.s)

ParseTryCatch(s) == Run("try", <<Eat, Sub("block"), Sub("catches"), Opt("finally", "block")>>, s)

\* for (x in c), for (i, x in c); for (T x in c), for (T i, U x in c); for (init; cond; inc)
ParseFor(s) ==
    LET open == Expect("(", Advance(s))
        untyped == Cur(open) = "id" /\ NextTok(open) \in {"in", ","}
        names == IF NextTok(open) = "in" THEN Run("names", <<Keep("id")>>, open)
                 ELSE Run("names", <<Keep("id"), May(","), Keep("id")>>, open)
        named == IF Len(names.t.k) = 2 /\ names.t.k[2] = None THEN Error(names.s) ELSE names.s
        ForIn(t, z) == LET r == Run("for in", <<Eat, Sub("expr"), Tok(")"), Sub("loop body")>>, z)
                       IN R(r.s, Node("for in", <<t>> \o r.t.k))
        Rest(init, z) ==
            LET cond == IF Cur(z) = ";" THEN R(z, None) ELSE Parse("expr", z)
                semi == Expect(";", cond.s)
                inc == IF Cur(semi) = ")" THEN R(semi, None) ELSE Parse("expr", semi)
                body == LoopBody(Expect(")", inc.s))
            IN R(body.s, Node("for", <<init, cond.t, inc.t, body.t>>))
        Counted(z) ==
            LET decls == Parse("var decls", z)
                init == IF Cur(z) = ";" THEN R(z, None) ELSE Parse("expr", z)
            IN IF IsStartOfDeclaration(z)
               THEN IF Len(decls.t.k) \in {1, 2} /\ Cur(decls.s) = "in"
                    THEN ForIn(Node("vars", decls.t.k), decls.s)
                    ELSE Rest(IF decls.t.k = <<>> THEN None ELSE DeclStmt(decls).t, decls.s)
               ELSE Rest(init.t, Expect(";", init.s))
    IN IF ~untyped THEN Counted(open)
       ELSE IF Cur(named) = "in" THEN ForIn(names.t, named)
       ELSE Counted(Error(named))

\* A value, or a range of literals, behind case.
CaseValue(s) ==
    LET low == Parse("expr", s)
        high == Parse("expr", Advance(low.s))
    IN IF Cur(low.s) = ":" /\ NextTok(low.s) \in {"1", "str"}
       THEN R(high.s, Node(":", <<low.t, high.t>>)) ELSE low

\* Neither loop over the statements of a case looks for the end of the file.
RECURSIVE Cases(_, _)
Cases(kids, s) ==
    LET values == Commas("case value", <<>>, Advance(s))
        body == Stmts({"case", "default", "}"}, <<>>, Expect(":", values.s))
        last == Stmts({"}"}, <<>>, Expect(":", Advance(s)))
    IN IF Cur(s) = "case" /\ ~s.hung
       THEN Cases(Append(kids, Node("case", <<values.t, body.t>>)), body.s)
       ELSE IF Cur(s) = "default" THEN R(last.s, List(Append(kids, Node("default", <<last.t>>))))
       ELSE R(s, List(kids))

LoopCases(s) ==
    LET r == Cases(<<>>, [s EXCEPT !.depth = @ + 1]) IN R([r.s EXCEPT !.depth = @ - 1], r.t)

ParseSwitch(s) ==
    Run("switch", <<Eat, Tok("("), Sub("expr"), Tok(")"), Tok("{"), Sub("cases"), Tok("}")>>, s)

\* Mutant of ExprStmt: what is left on the line is skipped, not reported.
ExprStmtSilent(s) ==
    LET r == Parse("expr", s)
        ends == HasNewlineBeforeToken(r.s) \/ Cur(r.s) \in {"eof", "}", ";"}
    IN IF r.t = None THEN r
       ELSE R(IF ends THEN ConsumeIf(";", r.s) ELSE Synchronize(r.s), Node("expr", <<r.t>>))

ExprStmt(s) ==
    LET r == Parse("expr", s)
        ends == HasNewlineBeforeToken(r.s) \/ Cur(r.s) \in {"eof", "}", ";"}
    IN IF r.t = None THEN r
       ELSE R(IF ends THEN ConsumeIf(";", r.s) ELSE Error(r.s), Node("expr", <<r.t>>))

ParseStatement(s) ==
    LET k == Cur(s)
        lock == \/ k = "lock" /\ NextTok(s) \in {"{", "("}
                \/ k \in {"view", "mut"} /\ NextTok(s) = "{"
                \/ k = "async" /\ NextTok(s) = "lock"
    IN CASE k = "{" -> ParseBlock(s)          [] k = "if" -> ParseIf(s)
         [] k = "while" -> ParseWhile(s)      [] k = "do" -> ParseDoWhile(s)
         [] k = "for" -> ParseFor(s)          [] k = "switch" -> ParseSwitch(s)
         [] k = "return" -> ParseReturn(s)    [] k \in {"break", "continue"} -> ParseJump(s)
         [] k = "defer" -> ParseDefer(s)      [] k = "try" -> ParseTryCatch(s)
         [] k = "throw" -> ParseThrow(s)      [] k = "unsafe" -> ParseUnsafe(s)
         [] OTHER -> IF lock THEN ParseLock(s)
                     ELSE IF IsStartOfDeclaration(s) THEN DeclStmt(Parse("decls", s))
                     ELSE IF k = "id" /\ NextTok(s) = "id" THEN DeclStmt(Parse("var decls", s))
                     ELSE ExprStmt(s)

-----------------------------------------------------------------------------
(* Declarations *)

Visibilities == {"public", "private", "protected"}
MemberModifiers == Visibilities \cup {"static", "async", "shared", "weak"}
ClassModifiers == MemberModifiers \cup {"thread_local", "align", "section", "virtual", "override",
                                        "used", "noinline", "inline", "pure", "cold"}
VariableModifiers == Visibilities \cup {"static", "shared", "extern", "used", "thread_local", "align", "section"}
TopModifiers == MemberModifiers \cup {"extern", "interrupt", "naked", "noreturn", "noinline", "inline",
                    "pure", "cold", "packed", "align", "section", "used", "thread_local"}

\* What a declaration keeps of its modifiers; the others are dropped.
FunctionKeeps == Visibilities \cup {"async", "static", "weak", "extern", "interrupt", "naked", "noreturn",
                     "noinline", "inline", "pure", "cold", "used", "section"}
MethodKeeps == Visibilities \cup {"async", "static", "weak", "virtual", "override", "noinline", "inline",
                   "pure", "cold", "used", "section"}
VariableKeeps == Visibilities \cup {"static", "shared", "extern", "weak", "align", "section", "used", "thread_local"}
FieldKeeps == Visibilities \cup {"static", "shared", "weak", "align", "section", "thread_local"}
ClassKeeps == {"packed", "align", "section"}

Kept(mods, which) == List(SelectSeq(mods.k, LAMBDA m : m.n \in which))
Has(mods, which) == \E i \in DOMAIN mods.k : mods.k[i].n \in which

\* A loop over modifiers; align(1), section("s") and extern "C" have more to them.
RECURSIVE Modifiers(_, _, _)
Modifiers(which, kids, s) ==
    LET k == Cur(s)
        arg == IF k = "align" THEN "1" ELSE "str"
        open == Expect("(", Advance(s))
        closed == Expect(")", Expect(arg, open))
        z == IF k \in {"align", "section"} THEN closed
             ELSE IF k = "extern" THEN ConsumeIf("str", Advance(s)) ELSE Advance(s)
    IN IF k \notin which THEN R(s, List(kids))
       ELSE Modifiers(which, Append(kids, Leaf(k)), z)

ParseParam(s) ==
    IF Cur(s) = "..." THEN R(Advance(s), Leaf("..."))
    ELSE Run("param", <<Sub("type"), Keep("id"), Opt("=", "expr")>>, s)

\* Nothing may follow "...", not even a comma.
RECURSIVE Params(_, _)
Params(kids, s) ==
    LET r == ParseParam(s)
        all == Append(kids, r.t)
    IN IF r.t.n # "..." /\ Cur(r.s) = "," THEN Params(all, Advance(r.s)) ELSE R(r.s, List(all))

RECURSIVE ViewWords(_, _)
ViewWords(kids, s) ==
    IF Cur(s) = "view" THEN ViewWords(<<Leaf("view")>>, Advance(s))
    ELSE IF Cur(s) = "mut" THEN ViewWords(kids, Advance(s))
    ELSE R(s, List(kids))

ParseFunctionRest(type, mods, s) ==
    LET head == Run("function", <<Tok("("), Sub("params"), Tok(")"), Sub("view words")>>, s)
        body == IF Cur(head.s) = ";" THEN R(Advance(head.s), None) ELSE ParseBlock(head.s)
    IN R(body.s, Node("function", <<mods, type>> \o head.t.k \o <<body.t>>))

\* A variable of a nullable type starts as null.
ParseVariableRest(type, mods, s) ==
    LET name == Leaf(WordOf([s EXCEPT !.p = @ - 1]))
        Var(bits, init, z) == R(z, Node("var", <<mods, type, bits, init, name>>))
        init == Parse("expr", Advance(s))
        unset == IF type.n = "?" THEN Leaf("implicit null") ELSE None
        bits == IF NextTok(s) = "1" THEN Leaf("bits") ELSE None
    IN IF Cur(s) = ":" THEN Var(bits, unset, Expect("1", Advance(s)))
       ELSE IF Cur(s) = "=" THEN IF init.t = None THEN init ELSE Var(None, init.t, init.s)
       ELSE Var(None, unset, s)

WeakRef(type) == Node("?", <<Node("weak", <<type>>)>>)

\* What may stand behind the last variable of a declaration.
EndOfDeclaration(s) ==
    IF Cur(s) = ";" THEN Advance(s)
    ELSE IF Cur(s) \in {"in", "eof", "}"} \/ HasNewlineBeforeToken(s) THEN s
    ELSE Error(s)

\* Variables of one type, separated by commas: a name was taken already.
RECURSIVE Variables(_, _, _, _)
Variables(type, mods, kids, s) ==
    LET weakRef == Has(mods, {"weak"}) /\ type.n \in {"*", "&", "name"}
        keeps == IF weakRef THEN VariableKeeps \ {"weak"} ELSE VariableKeeps
        r == ParseVariableRest(IF weakRef THEN WeakRef(type) ELSE type, Kept(mods, keeps), s)
        all == IF r.t = None THEN kids ELSE Append(kids, r.t)
    IN IF Cur(r.s) = "," THEN Variables(type, mods, all, Expect("id", Advance(r.s)))
       ELSE R(EndOfDeclaration(r.s), List(all))

\* One(r): the declarations of a function that returns a single one
One(r) == R(r.s, IF r.t = None THEN List(<<>>) ELSE List(<<r.t>>))

ParseTopLevelDecls(s) ==
    LET m == Modifiers(TopModifiers, <<>>, s)
        mods == m.t
        k == Cur(m.s)
        using == Run("using", <<Eat, Tok("id"), Tok("="), Sub("type"), May(";")>>, m.s)
        class == Parse("class", m.s)
        type == Parse("type", m.s)
        named == Expect("id", type.s)
        function == ParseFunctionRest(type.t, Kept(mods, FunctionKeeps), named)
    IN CASE k = "using" -> One(using)
         [] k \in {"import", "from"} -> One(Parse("import", m.s))
         [] k \in {"macro", "generic", "enum"} -> One(Parse(k, m.s))
         [] k \in {"class", "struct", "union", "ref"} ->
                IF class.t = None THEN One(class)
                ELSE One(R(class.s, Node("class", <<Kept(mods, ClassKeeps)>> \o class.t.k)))
         [] OTHER ->
                IF type.t = None
                THEN R(IF Has(mods, Visibilities \cup {"static", "async"}) THEN Error(type.s) ELSE type.s, List(<<>>))
                ELSE IF Cur(named) = "(" THEN One(function)
                ELSE Variables(type.t, mods, <<>>, named)

\* In the head of a for statement: every variable may have a type of its own.
RECURSIVE TypedVariables(_, _, _, _)
TypedVariables(type, mods, kids, s) ==
    LET r == ParseVariableRest(type, Kept(mods, VariableKeeps), Expect("id", s))
        all == IF r.t = None THEN kids ELSE Append(kids, r.t)
        comma == Advance(r.s)
        next == IF IsStartOfDeclaration(comma) THEN Parse("type", comma) ELSE R(comma, None)
    IN IF Cur(r.s) = ","
       THEN TypedVariables(IF next.t = None THEN type ELSE next.t, mods, all, next.s)
       ELSE R(EndOfDeclaration(r.s), List(all))

ParseVariableDecls(s) ==
    LET m == Modifiers(VariableModifiers, <<>>, s)
        type == Parse("type", m.s)
    IN IF type.t = None THEN R(type.s, List(<<>>)) ELSE TypedVariables(type.t, m.t, <<>>, type.s)

\* Every round takes at least one token, or stops at the end.
RECURSIVE ImportSymbols(_, _)
ImportSymbols(kids, s) ==
    LET known == Cur(s) \in {"id", "table"}
        name == Advance(s)
        alias == IF Cur(name) # "as" THEN R(name, Node("symbol", <<Leaf(Cur(s))>>))
                 ELSE R(Expect("id", Advance(name)), Node("symbol", <<Leaf(Cur(s)), Leaf("as")>>))
        z == IF known THEN alias.s ELSE Advance(Error(s))
        all == IF known THEN Append(kids, alias.t) ELSE kids
        sep == IF Cur(z) = "}" THEN z ELSE IF Cur(z) = "," THEN Advance(z) ELSE Advance(Error(z))
    IN IF Cur(s) \in {"}", "eof"} THEN R(Expect("}", s), List(kids))
       ELSE IF AtLast(s) THEN R(Hang(s), List(kids)) ELSE ImportSymbols(all, sep)

ParseImport(s) ==
    LET module(z) == IF Cur(z) \in {"str", "id"} THEN R(Advance(z), Leaf(Cur(z))) ELSE R(Error(z), None)
        r == IF Cur(s) = "from"
             THEN LET m == module(Advance(s))
                      l == Parse("import symbols", Expect("{", Expect("import", m.s)))
                  IN R(l.s, Node("from", <<m.t, l.t>>))
             ELSE IF NextTok(s) = "{"
             THEN LET l == Parse("import symbols", Advance(Advance(s)))
                      m == module(Expect("from", l.s))
                  IN R(m.s, Node("import from", <<l.t, m.t>>))
             ELSE LET m == module(Advance(s))
                  IN IF m.t # None /\ Cur(m.s) = "as"
                     THEN R(Expect("id", Advance(m.s)), Node("import", <<m.t, Leaf("as")>>))
                     ELSE R(m.s, Node("import", <<m.t>>))
    IN R(ConsumeIf(";", r.s), r.t)

\* The names between "<" and ">", and the parents of a class
TypeParam(s) ==
    LET z == ConsumeIf("shared", s)
        flag == IF Cur(s) = "shared" THEN <<Leaf("shared")>> ELSE <<>>
    IN R(Expect("id", z), IF Cur(z) = "id" THEN Node("T", flag) ELSE None)
Parent(s) == R(Expect("id", s), IF Cur(s) = "id" THEN Leaf("id") ELSE None)

Operators == {"+", "-", "*", "/", "==", "!=", "<", ">", "<=", ">="}

\* The name of a member: operator and a sign, or a name
MemberName(s) ==
    LET z == Advance(s)
    IN IF Cur(s) # "operator" THEN R(Expect("id", s), None)
       ELSE IF Cur(z) \in Operators THEN R(Advance(z), Node("operator", <<Leaf(Cur(z))>>))
       ELSE IF Cur(z) = "[" THEN R(ConsumeIf("]", Advance(z)), Node("operator", <<Leaf("[")>>))
       ELSE R(Error(z), Node("operator", <<None>>))

\* The fields of one declaration, separated by commas; a field that failed is kept as null.
RECURSIVE Fields(_, _, _, _)
Fields(type, mods, kids, s) ==
    LET r == ParseVariableRest(IF Has(mods, {"weak"}) THEN WeakRef(type) ELSE type,
                               Kept(mods, FieldKeeps \ {"weak"}), s)
        all == Append(kids, r.t)
    IN IF Cur(r.s) = "," THEN Fields(type, mods, all, Expect("id", Advance(r.s)))
       ELSE R(ConsumeIf(";", r.s), List(all))

IsImmutable(t) == t.n \in {"const", "view"}

\* One member of a class, or several fields.  The members of generic Name<T> { } have neither
\* operators nor lists of fields, and leave the semicolon to synchronize.
Member(which, s) ==
    LET m == Modifiers(which, <<>>, s)
        mods == m.t
        special == ParseFunctionRest(Leaf("void"), Kept(mods, Visibilities), Advance(m.s))
        type == Parse("type", m.s)
        inClass == which = ClassModifiers
        name == IF inClass THEN MemberName(type.s) ELSE R(Expect("id", type.s), None)
        constMethod == inClass /\ IsImmutable(type.t)
        method == ParseFunctionRest(type.t, Kept(mods, MethodKeeps), IF constMethod THEN Error(name.s) ELSE name.s)
        badField == inClass /\ Has(mods, {"virtual", "override", "async"})
        at == IF badField THEN Error(name.s) ELSE name.s
        field == ParseVariableRest(IF Has(mods, {"weak"}) THEN WeakRef(type.t) ELSE type.t,
                                   Kept(mods, FieldKeeps \ {"weak"}), at)
    IN IF Cur(m.s) \in {"constructor", "destructor"}
       THEN R(special.s, List(<<Node(Cur(m.s), special.t.k)>>))
       ELSE IF type.t = None THEN R(Synchronize(type.s), List(<<>>))
       ELSE IF Cur(name.s) = "("
       THEN R(method.s, List(<<Node("method", <<name.t>> \o method.t.k)>>))
       ELSE IF inClass THEN LET r == Fields(type.t, mods, <<>>, at)
                            IN IF name.t = None THEN r ELSE R(r.s, List(<<name.t>> \o r.t.k))
       ELSE R(field.s, List(<<field.t>>))

RECURSIVE Members(_, _, _)
Members(member, kids, s) ==
    LET r == Parse(member, s)
    IN IF s.hung \/ Cur(s) \in {"}", "eof"} THEN R(s, List(kids))
       ELSE IF Stuck(s, r.s) THEN R(Hang(s), List(kids))
       ELSE Members(member, kids \o r.t.k, r.s)

\* One bad parent, or no ")", ends the declaration of a class.
RECURSIVE Parents(_, _)
Parents(kids, s) ==
    LET z == Advance(s)
        all == Append(kids, Leaf("id"))
    IN IF Cur(s) # "id" THEN R(Error(s), None)
       ELSE IF Cur(z) = "," THEN Parents(all, Advance(z))
       ELSE R(Expect(")", z), IF Cur(z) = ")" THEN List(all) ELSE None)

ParseClass(s) ==
    LET kind == Cur(ConsumeIf("ref", s))
        r == Run("class", <<Keep("ref"), Eat, Need("id"), OptMust("(", "parents"), Need("{"),
                            Sub("class members"), Tok("}")>>, s)
    IN IF kind \notin {"class", "struct", "union"} THEN R(Error(ConsumeIf("ref", s)), None)
       ELSE IF r.t = None THEN r ELSE R(r.s, Node("class", <<Leaf(kind)>> \o r.t.k))

\* generic Name<T, U> (Parents) { members }, or generic <T, U> and a declaration
ParseGeneric(s) ==
    LET named == NextTok(s) = "id"
        head == ConsumeIf("id", Advance(s))
        params == Commas("type param", <<>>, Advance(head))
        p == IF Cur(head) = "<" THEN R(ExpectGreater(params.s), WithoutNull(params).t) ELSE R(head, List(<<>>))
        parents == Commas("parent", <<>>, Advance(p.s))
        q == IF Cur(p.s) = "(" THEN R(Expect(")", parents.s), WithoutNull(parents).t) ELSE R(p.s, List(<<>>))
        body == Run("generic", <<Tok("{"), Sub("generic members"), Tok("}")>>, q.s)
        inner == Parse("decls", p.s)
    IN IF named /\ Cur(p.s) \in {"{", "("}
       THEN R(body.s, Node("generic class", <<p.t, q.t>> \o body.t.k))
       ELSE IF inner.t.k = <<>> THEN R(inner.s, None)
       ELSE R(inner.s, Node("generic", <<p.t, inner.t.k[1]>>))

\* A name that is not one, with no comma behind it, is never passed.
RECURSIVE EnumCases(_, _)
EnumCases(kids, s) ==
    LET r == Run("enum case", <<Tok("id"), Opt("=", "expr"), May(",")>>, s)
    IN IF s.hung \/ Cur(s) \in {"}", "eof"} THEN R(s, List(kids))
       ELSE IF Stuck(s, r.s) THEN R(Hang(r.s), List(kids))
       ELSE EnumCases(Append(kids, r.t), r.s)

ParseEnum(s) == Run("enum", <<Eat, Tok("id"), Tok("{"), Sub("enum cases"), Tok("}")>>, s)

MacroParam(s) ==
    IF Cur(s) = "id" THEN R(Advance(s), Leaf(WordOf(s))) ELSE R(SkipTo({",", ")"}, Error(s)), None)

ParseMacro(s) ==
    LET name == Expect("id", Advance(s))
        params == WithoutNull(Listed("macro param", Advance(name)))
        id == Leaf(WordOf(Advance(s)))
        head == IF Cur(name) # "(" THEN R(name, None)
                ELSE IF Cur(params.s) = ")" THEN R(Advance(params.s), params.t)
                ELSE R(SkipTo({"{"}, Error(params.s)), params.t)
        body == Run("body", <<Tok("{"), Sub("stmts"), Tok("}")>>, head.s)
        expr == Parse("expr", head.s)
    IN IF NextTok(s) # "id" THEN R(name, None)
       ELSE IF Cur(head.s) = "{" THEN R(body.s, Node("macro", <<head.t>> \o body.t.k \o <<id>>))
       ELSE R(expr.s, Node("macro", <<head.t, List(IF expr.t = None THEN <<>> ELSE <<Node("expr", <<expr.t>>)>>), id>>))

-----------------------------------------------------------------------------
(* Expressions *)

\* parseLogicalOr, ...And, BitwiseOr, ...Xor, ...And, Equality, Relational; parseNullCoalescing,
\* Shift, Additive, Multiplicative: the operators of a level and the level of their operands
Level(i) ==
    LET L(ops, operand) == [ops |-> ops, operand |-> operand]
    IN CASE i = "or" -> L({"||"}, "and")              [] i = "and" -> L({"&&"}, "bit or")
         [] i = "bit or" -> L({"|"}, "bit xor")       [] i = "bit xor" -> L({"^"}, "bit and")
         [] i = "bit and" -> L({"&"}, "equality")     [] i = "equality" -> L({"==", "!="}, "relational")
         [] i = "relational" -> L({"<", "<=", ">", ">="}, "pipe")
         [] i = "coalescing" -> L({"??"}, "shift")    [] i = "shift" -> L({"<<", ">>"}, "additive")
         [] i = "additive" -> L({"+", "-"}, "multiplicative")
         [] i = "multiplicative" -> L({"*", "/", "%"}, "power")

\* An operator that may as well start the next line, or a declaration, does not go on.
GoesOn(s) ==
    /\ Cur(s) \in {"&", "+", "-", "*"} => ~HasNewlineBeforeToken(s)
    /\ Cur(s) = "*" => ~IsStartOfDeclaration(s)

\* Mutant of BinaryLoop: the right operand takes the rest of the level.
BinaryLoopRight(i, left, s) ==
    LET right == Parse(i, Advance(s))
    IN IF Cur(s) \notin Level(i).ops \/ ~GoesOn(s) THEN R(s, left)
       ELSE IF left = None THEN R(s, None)
       ELSE IF right.t = None THEN right
       ELSE R(right.s, Node(Cur(s), <<left, right.t>>))

RECURSIVE BinaryLoop(_, _, _)
BinaryLoop(i, left, s) ==
    LET right == Parse(Level(i).operand, Advance(s))
    IN IF Cur(s) \notin Level(i).ops \/ ~GoesOn(s) THEN R(s, left)
       ELSE IF left = None THEN R(s, None)
       ELSE IF right.t = None THEN right
       ELSE BinaryLoop(i, Node(Cur(s), <<left, right.t>>), right.s)

ParseBinary(i, s) == LET left == Parse(Level(i).operand, s) IN BinaryLoop(i, left.t, left.s)

ParsePower(s) ==
    LET left == Parse("prefix", s)
        right == Parse("power", Advance(left.s))
    IN IF Cur(left.s) # "**" \/ IsStartOfDeclaration(left.s) THEN left
       ELSE IF left.t = None THEN left
       ELSE IF right.t = None THEN right
       ELSE R(right.s, Node("**", <<left.t, right.t>>))

\* Into the call below members and indexes
RECURSIVE InsertFirstArg(_, _)
InsertFirstArg(arg, t) ==
    IF t.n = "call" THEN Node("call", <<t.k[1], List(<<arg>> \o t.k[2].k)>>)
    ELSE IF t.n \in {".", "?.", "index", "?index"}
    THEN LET inner == InsertFirstArg(arg, t.k[1])
         IN IF inner = None THEN None ELSE Node(t.n, <<inner>> \o Tail(t.k))
    ELSE None

\* IdentifierExpr
IsName(t) == t.k = <<>> /\ t.n \notin {"", "1", "str", "tmpl", "null", "true", "false", "this", "super"}

RECURSIVE PipeLoop(_, _)
PipeLoop(left, s) ==
    LET right == Parse("postfix", Advance(s))
        called == InsertFirstArg(left, right.t)
    IN IF Cur(s) # "|>" THEN R(s, left)
       ELSE IF right.t = None THEN right
       ELSE IF called # None THEN PipeLoop(called, right.s)
       ELSE IF IsName(right.t)
       THEN PipeLoop(Node("call", <<right.t, List(<<left>>)>>), right.s)
       ELSE R(Error(right.s), None)

ParsePipe(s) ==
    LET left == Parse("coalescing", s) IN IF left.t = None THEN left ELSE PipeLoop(left.t, left.s)

ParseTernary(s) ==
    LET cond == Parse("or", s)
        rest == Run("?:", <<Eat, Must("ternary"), Need(":"), Must("ternary")>>, cond.s)
    IN IF cond.t = None \/ Cur(cond.s) # "?" THEN cond
       ELSE IF rest.t = None THEN rest
       ELSE R(rest.s, Node("?:", <<cond.t>> \o rest.t.k))

ParseAssignment(s) ==
    LET left == Parse("ternary", s)
        right == Parse("expr", Advance(left.s))
    IN IF left.t = None \/ Cur(left.s) \notin {"=", "+=", "*=", ">>="} THEN left
       ELSE IF right.t = None THEN right
       ELSE R(right.s, Node(Cur(left.s), <<left.t, right.t>>))

ParsePrefix(s) ==
    LET r == Parse("prefix", Advance(s))
        Wrap(n) == IF r.t = None THEN r ELSE R(r.s, Node(n, <<r.t>>))
        k == Cur(s)
    IN IF k = "await" THEN R(r.s, Node("await", <<r.t>>))
       ELSE IF k = "&" /\ NextTok(s) \in {"(", "mut"} THEN Parse("postfix", s)
       ELSE IF k = "**" THEN IF r.t = None THEN r ELSE R(r.s, Node("prefix *", <<Node("prefix *", <<r.t>>)>>))
       ELSE CASE k = "!" -> Wrap("prefix !")   [] k = "-" -> Wrap("prefix -")
              [] k = "~" -> Wrap("prefix ~")   [] k = "++" -> Wrap("prefix ++")
              [] k = "--" -> Wrap("prefix --") [] k = "..." -> Wrap("prefix ...")
              [] k = "&" -> Wrap("prefix &")   [] k = "*" -> Wrap("prefix *")
              [] k = "shared" -> Wrap("prefix shared")
              [] OTHER -> Parse("postfix", s)

\* A call or an index starts on the line where its target ends; ++ and -- need not.
RECURSIVE PostfixLoop(_, _)
PostfixLoop(left, s) ==
    LET k == Cur(s)
        args == Listed("expr", Advance(s))
        optional == k = "?"
        open == IF optional THEN Advance(s) ELSE s
        index == Parse("expr", Advance(open))
    IN IF left = None THEN R(s, None)
       ELSE IF k = "(" /\ ~HasNewlineBeforeToken(s)
       THEN PostfixLoop(Node("call", <<left, args.t>>), Expect(")", args.s))
       ELSE IF k \in {".", "?."} THEN PostfixLoop(Node(k, <<left>>), Expect("id", Advance(s)))
       ELSE IF k = "++" THEN PostfixLoop(Node("postfix ++", <<left>>), Advance(s))
       ELSE IF k = "--" THEN PostfixLoop(Node("postfix --", <<left>>), Advance(s))
       ELSE IF k = "[" \/ (optional /\ NextTok(s) = "[")
       THEN IF HasNewlineBeforeToken(open) THEN R(open, left)
            ELSE PostfixLoop(Node(IF optional THEN "?index" ELSE "index", <<left, index.t>>),
                             Expect("]", index.s))
       ELSE R(s, left)

ParsePostfix(s) == LET left == Parse("primary", s) IN PostfixLoop(left.t, left.s)

\* (T x, ...) => ..., told from a group by the tokens behind "(" and, behind "<", by the text
IsTypedLambda(s) ==
    LET close == Closing("<", ">", {")", "\n"}, 0, toks[s.p + 1].at)
    IN \/ Cur(s) \in Scalars \cup {"void", "any"} /\ NextTok(s) = "id"
       \/ Cur(s) = "id" /\ \/ NextTok(s) \in {"id", "?"}
                           \/ NextTok(s) = "<" /\ close # 0 /\ WordAt(SkipSpace(close))

\* A missing type ends the list; a missing name is reported and the list goes on.
RECURSIVE LambdaParams(_, _)
LambdaParams(kids, s) ==
    LET type == Parse("type", s)
        name == Expect("id", type.s)
        value == IF Cur(name) = "=" THEN Parse("expr", Advance(name)) ELSE R(name, None)
        all == Append(kids, Node("param", <<type.t, Leaf(WordOf(type.s)), value.t>>))
    IN IF type.t = None THEN R(type.s, List(kids))
       ELSE IF Cur(value.s) = "," THEN LambdaParams(all, Advance(value.s)) ELSE R(value.s, List(all))

ParseLambdaBody(params, mode, s) ==
    LET body == IF Cur(s) = "{" THEN ParseBlock(s) ELSE Parse("expr", s)
    IN R(body.s, Node(IF Cur(s) = "{" THEN "lambda" ELSE "lambda expr", <<mode, params, body.t>>))

ParseParens(mode, s) ==
    LET z == Advance(s)
        lambda == LambdaParams(<<>>, z)
        closed == Expect(")", lambda.s)
        expr == Parse("expr", z)
        trap == ConsumeIf(")", SkipTo({")"}, Error(expr.s)))
    IN IF Cur(z) = ")"
       THEN IF NextTok(z) = "=>" THEN ParseLambdaBody(List(<<>>), mode, Advance(Advance(z)))
            ELSE R(Error(Advance(z)), None)
       ELSE IF IsTypedLambda(z)
       THEN IF Cur(closed) = "=>" THEN ParseLambdaBody(lambda.t, mode, Advance(closed))
            ELSE R(Error(closed), None)
       ELSE IF Cur(expr.s) \in {"=>", ","} THEN R(trap, None)
       ELSE IF mode # None THEN R(Error(Expect(")", expr.s)), None)
       ELSE R(Expect(")", expr.s), expr.t)

\* async (...) => ...: anything else behind async is reported, and kept
ParseAsyncLambda(s) ==
    LET r == Parse("parens", Advance(s))
    IN IF NextTok(s) # "(" THEN R(Error(Advance(s)), None)
       ELSE IF r.t = None THEN R(Error(r.s), None)
       ELSE IF r.t.n \in {"lambda", "lambda expr"} THEN R(r.s, Node("async", <<r.t>>))
       ELSE R(Error(r.s), r.t)

ParseCast(s) ==
    Run(Cur(s), <<Eat, Need("<"), Must("type"), Greater, Need("("), Must("expr"), Tok(")")>>, s)

ParseSizeof(s) == Run("sizeof", <<Eat, Tok("("), Sub("expr"), Tok(")")>>, s)

RECURSIVE Elements(_, _)
Elements(kids, s) ==
    LET spread == Run("prefix ...", <<Eat, Sub("expr")>>, s)
        r == IF Cur(s) = "..." THEN spread ELSE Parse("expr", s)
        all == Append(kids, r.t)
    IN IF Cur(s) \in {"]", "eof"} THEN R(s, List(kids))
       ELSE IF Cur(r.s) = "," THEN Elements(all, Advance(r.s)) ELSE R(r.s, List(all))

ParseArrayLiteral(s) == Run("array", <<Eat, Sub("elements"), Tok("]")>>, s)

MapEntry(s) == Run("entry", <<Sub("expr"), Tok(":"), Sub("expr")>>, s)
ParseMapLiteral(s) ==
    LET l == IF NextTok(s) = "}" THEN R(Advance(s), List(<<>>)) ELSE Commas("map entry", <<>>, Advance(s))
    IN R(Expect("}", l.s), Node("map", <<l.t>>))

RECURSIVE TemplateParts(_, _)
TemplateParts(kids, s) ==
    LET expr == Parse("expr", Advance(s))
        all == IF expr.t = None THEN kids ELSE Append(kids, expr.t)
    IN CASE Cur(s) = "frag" -> TemplateParts(Append(kids, Leaf("frag")), Advance(s))
         [] Cur(s) = "${" -> IF Cur(expr.s) = "}$" THEN TemplateParts(all, Advance(expr.s))
                             ELSE R(Error(expr.s), List(all))
         [] Cur(s) = "tmpl" -> R(Advance(s), List(Append(kids, Leaf("tmpl"))))
         [] OTHER -> R(Error(s), List(kids))

ParseTemplateString(s) ==
    LET r == TemplateParts(<<>>, s)
    IN IF Cur(s) = "tmpl" THEN R(Advance(s), Leaf("tmpl")) ELSE R(r.s, Node("template", <<r.t>>))

ParseNew(s) ==
    LET weak == Cur(Advance(s)) = "weak"
        z == ConsumeIf("weak", Advance(s))
        task == Run("new thread", <<Eat, Need("("), Must("expr")>>, z)
        isLambda == task.t.k[1].n \in {"lambda", "lambda expr", "async"}
        flag == IF weak THEN Leaf("weak") ELSE None
        type == Parse("type", z)
        args == Listed("expr", Expect("(", type.s))
    IN IF Cur(z) = "thread"
       THEN IF task.t = None THEN task
            ELSE IF ~isLambda THEN R(Error(task.s), None)
            ELSE R(Expect(")", task.s), IF Cur(task.s) = ")" THEN Node("new thread", <<flag>> \o task.t.k) ELSE None)
       ELSE IF type.t = None THEN type
       ELSE R(Expect(")", args.s), Node("new", <<flag, type.t, WithoutNull(args).t>>))

ParseInput(s) ==
    LET prompt == Parse("expr", Expect("(", Advance(s)))
        z == IF prompt.t = None THEN Error(prompt.s) ELSE prompt.s
    IN R(Expect(")", z), Node("input", <<prompt.t>>))

\* out("=r"(x), ...), in(...), inout(...), clobber("r", ...), volatile
AsmOperand(s) == Run("operand", <<Tok("str"), Tok("("), Sub("expr"), Tok(")")>>, s)
Clobber(s) == R(Expect("str", s), Leaf("str"))

RECURSIVE AsmDirectives(_, _)
AsmDirectives(kids, s) ==
    LET k == Cur(s)
        l == Listed(IF k = "clobber" THEN "clobber" ELSE "asm operand", Expect("(", Advance(s)))
    IN IF k = "volatile" THEN AsmDirectives(Append(kids, Leaf(k)), Advance(s))
       ELSE IF k \in {"out", "in", "inout", "clobber"}
       THEN AsmDirectives(Append(kids, Node(k, <<l.t>>)), Expect(")", l.s))
       ELSE R(s, List(kids))

ParseAsm(s) ==
    LET type == IF NextTok(s) = "<" THEN <<Eat, Sub("type"), Greater>> ELSE <<>>
    IN Run("asm", <<Eat>> \o type \o <<Tok("("), Tok("str"), Tok(")"), Sub("asm directives")>>, s)

PrimaryAt(mode, z) ==
    LET c == Cur(z) IN
    IF mode # None /\ c # "(" THEN R(Error(z), None)
    ELSE CASE c = "(" -> ParseParens(mode, z)
           [] c = "async" -> ParseAsyncLambda(z)   [] c = "input" -> ParseInput(z)
           [] c = "new" -> ParseNew(z)             [] c \in {"cast", "bitcast"} -> ParseCast(z)
           [] c = "[" -> ParseArrayLiteral(z)      [] c = "{" -> ParseMapLiteral(z)
           [] c \in {"tmpl", "frag", "${"} -> ParseTemplateString(z)
           [] c = "asm" -> ParseAsm(z)             [] c = "sizeof" -> ParseSizeof(z)
           [] c = "id" -> R(Advance(z), Leaf(WordOf(z)))
           [] c \in {"1", "str", "null", "true", "false", "this", "super", "any", "promise"} \cup Scalars ->
                  R(Advance(z), Leaf(c))
           [] OTHER -> R(Error(z), None)

\* & and move before a primary are the capture mode of a closure.
ParsePrimary(s) ==
    LET k == Cur(s)
    IN PrimaryAt(
          CASE k = "move" -> Leaf("move")
            [] k = "&" -> Leaf(IF NextTok(s) = "mut" THEN "&mut" ELSE "&")
            [] OTHER -> None,
          CASE k = "move" -> Advance(s)
            [] k = "&" -> ConsumeIf("mut", Advance(s))
            [] OTHER -> s)

-----------------------------------------------------------------------------
(* Types *)

NamedType(s) ==
    LET z == Advance(s)
        dots == Run("name", <<Sub("segments")>>, z)
        args == Commas("type arg", <<>>, Advance(dots.s))
    IN IF Cur(dots.s) = "<" THEN R(ExpectGreater(args.s), Node("name", dots.t.k \o <<WithoutNull(args).t>>))
       ELSE R(dots.s, Node("name", dots.t.k \o <<List(<<>>)>>))

RECURSIVE Segments(_, _)
Segments(kids, s) ==
    IF Cur(s) # "." THEN R(s, List(kids))
    ELSE IF NextTok(s) = "id" THEN Segments(Append(kids, Leaf("id")), Advance(Advance(s)))
    ELSE R(Error(Advance(s)), List(kids))

TypeArg(s) ==
    LET r == Parse("type", s)
    IN IF r.t = None THEN R(SkipTo({",", ">"}, Error(r.s)), None) ELSE r

ParseClosureType(s) ==
    LET l == Listed("type", Expect("(", Advance(s)))
        z == Expect(")", l.s)
        ret == IF Cur(z) = "->" THEN Parse("type", Advance(z)) ELSE R(z, Leaf("implicit void"))
    IN R(ret.s, Node("closure", <<WithoutNull(l).t, ret.t>>))

\* interrupt is taken where "(" is.
FunctionType(s) ==
    LET l == Listed("type", Advance(s))
        z == Expect(")", l.s)
        ret == Parse("type", Advance(z))
    IN IF Cur(z) = "=>" THEN R(ret.s, Node("=>", <<WithoutNull(l).t, ret.t>>)) ELSE R(Error(z), None)

DecimalType(s) ==
    IF NextTok(s) = "<" THEN Run("decimal", <<Eat, Eat, Tok("1"), Tok(","), Tok("1"), Greater>>, s)
    ELSE Run("decimal", <<Eat, Tok("<")>>, s)

\* int[2][3] is an array of two arrays of three.
RECURSIVE Dimensions(_, _)
Dimensions(sizes, s) ==
    LET z == Advance(s)
        size == IF Cur(z) = "]" THEN R(z, None) ELSE Parse("expr", z)
        all == Append(sizes, size.t)
        closed == Expect("]", size.s)
    IN IF Cur(closed) = "[" THEN Dimensions(all, closed) ELSE R(closed, List(all))

ArrayOf(type, sizes) ==
    FoldLeft(LAMBDA t, size : Node("[]", <<t, size>>), type, Reverse(sizes))

RECURSIVE TypeSuffixes(_, _)
TypeSuffixes(type, s) ==
    LET dims == Dimensions(<<>>, s)
    IN CASE Cur(s) = "?" -> TypeSuffixes(Node("?", <<type>>), Advance(s))
         [] Cur(s) = "[" -> TypeSuffixes(ArrayOf(type, dims.t.k), dims.s)
         [] Cur(s) = "*" -> TypeSuffixes(Node("*", <<type>>), Advance(s))
         [] Cur(s) = "**" -> TypeSuffixes(Node("*", <<Node("*", <<type>>)>>), Advance(s))
         [] OTHER -> R(s, type)

\* What stands between the words before a type and its suffixes
CoreType(unsigned, s) ==
    LET k == Cur(s)
        inner == Parse("type", Advance(s))
        Wrap(n) == IF inner.t = None THEN inner ELSE R(inner.s, Node(n, <<inner.t>>))
        promise == Run("promise", <<Eat, Eat, Must("type"), Greater>>, s)
        table == Run("table", <<Eat, Eat, Sub("type"), Tok(","), Sub("type"), Greater>>, s)
    IN CASE k \in {"&", "*", "lock", "view", "mut"} -> Wrap(k)
         [] k = "**" -> IF inner.t = None THEN inner ELSE R(inner.s, Node("*", <<Node("*", <<inner.t>>)>>))
         [] k = "weak" -> IF inner.t = None THEN inner ELSE R(inner.s, WeakRef(inner.t))
         [] k = "ref" -> R(inner.s, Node("&", <<inner.t>>))
         [] k \in {"int", "short", "long", "char"} ->
                R(Advance(s), Node(k, IF unsigned THEN <<Leaf("unsigned")>> ELSE <<>>))
         [] k \in (Scalars \ {"int", "short", "long", "char"}) \cup {"void", "null", "any", "thread"} ->
                R(Advance(s), Leaf(k))
         [] k = "decimal" -> DecimalType(s)
         [] k = "promise" -> IF NextTok(s) = "<" THEN promise ELSE R(Error(Advance(s)), None)
         [] k = "closure" -> ParseClosureType(s)
         [] k = "table" -> IF NextTok(s) = "<" THEN table ELSE R(Advance(s), Leaf("table"))
         [] k = "id" -> NamedType(s)
         [] k \in {"interrupt", "("} -> FunctionType(s)
         [] OTHER -> R([s EXCEPT !.unseen = TRUE], None)

\* Where the core is missing, its function returns; a promise without "<" goes on as null.
ParseType(s) ==
    LET flags == Run("flags", <<Keep("volatile"), Keep("const"), Keep("unsigned")>>, s)
        has == [i \in 1 .. 3 |-> flags.t.k[i] # None]
        core == Parse(IF has[3] THEN "unsigned core type" ELSE "core type", flags.s)
        constant == IF has[2] THEN Node("const", <<core.t>>) ELSE core.t
        all == IF has[1] THEN Node("volatile", <<constant>>) ELSE constant
    IN IF core.t = None /\ Cur(flags.s) # "promise" THEN core
       ELSE IF core.t = None /\ NextTok(flags.s) = "<" THEN core
       ELSE TypeSuffixes(all, core.s)

-----------------------------------------------------------------------------
(* The functions by their names *)

\* Declarations and the statements of a script, each in their order
RECURSIVE ModuleLoop(_, _, _)
ModuleLoop(decls, script, s) ==
    LET d == Parse("decls", s)
        r == Parse("stmt", s)
        isDecl == IsStartOfDeclaration(s)
        z == IF isDecl THEN d.s ELSE IF r.t = None THEN Synchronize(r.s) ELSE r.s
    IN IF s.hung \/ Cur(s) = "eof" THEN R(s, Node("module", <<List(decls), List(script)>>))
       ELSE IF Stuck(s, z) THEN R(Hang(z), None)
       ELSE IF isDecl THEN ModuleLoop(decls \o d.t.k, script, z)
       ELSE ModuleLoop(decls, IF r.t = None THEN script ELSE Append(script, r.t), z)

Parse(nt, s) ==
    CASE nt = "stmt" -> ParseStatement(s)          [] nt = "block" -> ParseBlock(s)
      [] nt = "stmts" -> Stmts({"}", "eof"}, <<>>, s)
      [] nt = "loop body" -> LoopBody(s)           [] nt = "catches" -> Catches(<<>>, s)
      [] nt = "cases" -> LoopCases(s)              [] nt = "case value" -> CaseValue(s)
      [] nt = "decls" -> ParseTopLevelDecls(s)     [] nt = "var decls" -> ParseVariableDecls(s)
      [] nt = "import" -> ParseImport(s)           [] nt = "macro" -> ParseMacro(s)
      [] nt = "generic" -> ParseGeneric(s)         [] nt = "enum" -> ParseEnum(s)
      [] nt = "class" -> ParseClass(s)             [] nt = "parents" -> Parents(<<>>, s)
      [] nt = "class members" -> Members("class member", <<>>, s)
      [] nt = "generic members" -> Members("generic member", <<>>, s)
      [] nt = "params" -> IF Cur(s) = ")" THEN R(s, List(<<>>)) ELSE Params(<<>>, s)
      [] nt = "view words" -> ViewWords(<<>>, s)   [] nt = "type param" -> TypeParam(s)
      [] nt = "parent" -> Parent(s)                [] nt = "enum cases" -> EnumCases(<<>>, s)
      [] nt = "macro param" -> MacroParam(s)
      [] nt = "expr" -> ParseAssignment(s)         [] nt = "ternary" -> ParseTernary(s)
      [] nt = "pipe" -> ParsePipe(s)               [] nt = "power" -> ParsePower(s)
      [] nt = "prefix" -> ParsePrefix(s)           [] nt = "postfix" -> ParsePostfix(s)
      [] nt = "primary" -> ParsePrimary(s)         [] nt = "elements" -> Elements(<<>>, s)
      [] nt = "map entry" -> MapEntry(s)           [] nt = "asm operand" -> AsmOperand(s)
      [] nt = "clobber" -> Clobber(s)              [] nt = "asm directives" -> AsmDirectives(<<>>, s)
      [] nt = "type" -> ParseType(s)               [] nt = "segments" -> Segments(<<>>, s)
      [] nt = "type arg" -> TypeArg(s)             [] nt = "import symbols" -> ImportSymbols(<<>>, s)
      [] nt \in {"core type", "unsigned core type"} -> CoreType(nt = "unsigned core type", s)
      [] nt = "module" -> ModuleLoop(<<>>, <<>>, s) [] nt = "parens" -> ParseParens(None, s)
      [] nt \in {"class member", "generic member"} ->
             Member(IF nt = "class member" THEN ClassModifiers ELSE MemberModifiers, s)
      [] OTHER -> ParseBinary(nt, s)

\* The script becomes the function main, which must not be declared as well (names are left out).
ParseModule == Parse("module", Start)
=============================================================================
