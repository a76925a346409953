---------------------------- MODULE ParserCheck ----------------------------
(***************************************************************************)
(* The parser against a printer, and the expansion of the macros of what   *)
(* was parsed.  The printer is the definition of the language that the     *)
(* parser is checked with: it gives every tree its text, with the          *)
(* parentheses that the order of the operators asks for.                   *)
(***************************************************************************)
EXTENDS Macros, FiniteSets

CONSTANT Inputs        \* sets of [text, tree]: the characters of a text, and its tree or None when it need not have one

VARIABLES tree,        \* the tree that the text was printed from
          result,      \* what parseModule returned
          expanded     \* what the macro expander made of it, and in which order it evaluated

vars == <<chars, toks, tree, result, expanded>>

Init ==
    \E f \in DOMAIN Inputs : \E i \in Inputs[f] :
        /\ chars = i.text
        /\ tree = i.tree
        /\ toks = <<>>
        /\ result = [done |-> FALSE, s |-> Start, t |-> None]
        /\ expanded = [dir |-> "none", t |-> None]

\* The lexer is asked for one token at a time, and never sees the parser.
ReadText ==
    /\ toks = <<>>
    /\ toks' = TokensFrom(LexStart)
    /\ UNCHANGED <<chars, tree, result, expanded>>

ParseText ==
    /\ toks # <<>> /\ ~result.done
    /\ result' = [done |-> TRUE] @@ ParseModule
    /\ UNCHANGED <<chars, toks, tree, expanded>>

\* Only a module without errors gets here.
ExpandMacros ==
    /\ result.done /\ ~result.s.bad /\ ~result.s.hung
    /\ expanded.dir = "none"
    /\ \E dir \in {"left", "right"} : expanded' = [dir |-> dir, t |-> ExpandModule(result.t, dir)]
    /\ UNCHANGED <<chars, toks, tree, result>>

Next == ReadText \/ ParseText \/ ExpandMacros
Spec == Init /\ [][Next]_vars

-----------------------------------------------------------------------------
(* The printer *)

\* How tightly the operator of a tree binds, from assignments up to names.
\* |> binds "tighter than ??" and ?? groups to the right, as the tests have it
\* (tests/execution/01_Lexical_and_Syntax/semantic_closure_torture.mox 12, 30);
\* the parser has the two the other way round and groups ?? to the left.
Strength(n) ==
    CASE n \in {"=", "+=", "*=", ">>="} -> 1     [] n = "?:" -> 2
      [] n = "||" -> 3                           [] n = "&&" -> 4
      [] n = "|" -> 5                            [] n = "^" -> 6
      [] n = "&" -> 7                            [] n \in {"==", "!="} -> 8
      [] n \in {"<", "<=", ">", ">="} -> 9       [] n = "??" -> 10
      [] n = "|>" -> 11                          [] n \in {"<<", ">>"} -> 12
      [] n \in {"+", "-"} -> 13                  [] n \in {"*", "/", "%"} -> 14
      [] n = "**" -> 15
      [] n \in {"await", "prefix !", "prefix -", "prefix ~", "prefix ++", "prefix --",
                "prefix &", "prefix *", "prefix ...", "prefix shared"} -> 16
      [] n \in {"lambda expr", "async"} -> 1
      [] OTHER -> 17

Sign(n) ==
    CASE n = "prefix !" -> "!"    [] n = "prefix -" -> "-"    [] n = "prefix ~" -> "~"
      [] n = "prefix ++" -> "++"  [] n = "prefix --" -> "--"  [] n = "prefix &" -> "&"
      [] n = "prefix *" -> "*"    [] n = "prefix ..." -> "..." [] n = "prefix shared" -> "shared"
      [] OTHER -> n

RECURSIVE Unparse(_)

Sep(parts, with) ==
    FoldLeft(LAMBDA all, p : IF all = <<>> THEN p ELSE all \o with \o p, <<>>, parts)
All(kids) == [i \in DOMAIN kids |-> Unparse(kids[i])]
Comma(t) == Sep(All(t.k), <<",">>)
Lines(t) == FlattenSeq(All(t.k))

PrintAt(least, t) ==
    IF t # None /\ Strength(t.n) < least THEN <<"(">> \o Unparse(t) \o <<")">> ELSE Unparse(t)

\* Assignments, ?? and ** group to the right, the other operators to the left.
PrintBinary(t) ==
    LET p == Strength(t.n)
        right == p \in {1, 10, 15}
    IN PrintAt(IF right THEN p + 1 ELSE p, t.k[1]) \o <<" ", t.n, " ">>
       \o PrintAt(IF p = 11 THEN 17 ELSE IF right THEN p ELSE p + 1, t.k[2])

IsType(t) == t.n \in {"name", "const", "volatile", "closure", "=>", "table", "promise", "decimal",
                      "[]", "?", "lock", "view", "weak", "thread", "mut", "void"}

\* Sizes are written from the outermost to the innermost.
RECURSIVE ArrayBase(_)
ArrayBase(t) == IF t.n = "[]" THEN ArrayBase(t.k[1]) ELSE t
RECURSIVE ArraySizes(_)
ArraySizes(t) == IF t.n = "[]" THEN <<"[">> \o Unparse(t.k[2]) \o <<"]">> \o ArraySizes(t.k[1]) ELSE <<>>

PrintType(t) ==
    CASE t.n \in {"const", "volatile", "lock", "view", "mut"} -> <<t.n, " ">> \o Unparse(t.k[1])
      [] t.n \in {"*", "&"} -> <<t.n>> \o Unparse(t.k[1])
      [] t.n = "?" -> IF t.k[1].n = "weak" THEN <<"weak", " ">> \o Unparse(t.k[1].k[1]) ELSE Unparse(t.k[1]) \o <<"?">>
      [] t.n = "[]" -> Unparse(ArrayBase(t)) \o ArraySizes(t)
      [] t.n = "name" -> <<"id">> \o FlattenSeq([i \in DOMAIN t.k[1].k |-> <<".", "id">>])
                         \o IF t.k[2].k = <<>> THEN <<>> ELSE <<"<">> \o Comma(t.k[2]) \o <<">">>
      [] t.n = "promise" -> <<"promise", "<">> \o Unparse(t.k[1]) \o <<">">>
      [] t.n = "table" -> IF t.k = <<>> THEN <<"table">>
                          ELSE <<"table", "<">> \o Unparse(t.k[1]) \o <<",">> \o Unparse(t.k[2]) \o <<">">>
      [] t.n = "decimal" -> <<"decimal", "<", "1", ",", "1", ">">>
      [] t.n = "closure" -> <<"closure", "(">> \o Comma(t.k[1]) \o <<")">>
                            \o IF t.k[2] = Leaf("implicit void") THEN <<>> ELSE <<"->">> \o Unparse(t.k[2])
      [] t.n = "=>" -> <<"(">> \o Comma(t.k[1]) \o <<")", "=>">> \o Unparse(t.k[2])
      [] OTHER -> FlattenSeq([i \in DOMAIN t.k |-> <<"unsigned", " ">>]) \o <<t.n>>

PrintDecl(t) ==
    LET mods(l) == FlattenSeq([i \in DOMAIN l.k |->
                       CASE l.k[i].n = "align" -> <<"align", "(", "1", ")", " ">>
                         [] l.k[i].n = "section" -> <<"section", "(", "str", ")", " ">>
                         [] OTHER -> <<l.k[i].n, " ">>])
        function(name, k) == mods(k[1]) \o name \o <<"(">> \o Comma(k[3]) \o <<")">> \o Lines(k[4])
                             \o IF k[5] = None THEN <<";">> ELSE Unparse(k[5])
        typed(t1) == Unparse(t1) \o <<" ", "id">>
        params(l) == IF l.k = <<>> THEN <<>> ELSE <<"<">> \o Comma(l) \o <<">">>
    IN CASE t.n = "var" ->
                mods(t.k[1]) \o Unparse(t.k[2]) \o <<" ", t.k[5].n>> \o (IF t.k[3] = None THEN <<>> ELSE <<":", "1">>)
                \o (IF t.k[4] \in {None, Leaf("implicit null")} THEN <<>> ELSE <<" ", "=", " ">> \o Unparse(t.k[4]))
                \o <<";">>
         [] t.n = "function" -> function(typed(t.k[2]), t.k)
         [] t.n = "method" ->
                function(IF t.k[1] = None THEN typed(t.k[3])
                         ELSE Unparse(t.k[3]) \o <<" ">> \o Unparse(t.k[1]), Tail(t.k))
         [] t.n = "operator" -> <<"operator">> \o All(t.k)[1] \o IF t.k[1] = Leaf("[") THEN <<"]">> ELSE <<>>
         [] t.n \in {"constructor", "destructor"} -> function(<<t.n>>, t.k)
         [] t.n = "param" -> Unparse(t.k[1]) \o (IF t.k[2] = None THEN <<>> ELSE <<" ", t.k[2].n>>)
                             \o IF t.k[3] = None THEN <<>> ELSE <<"=">> \o Unparse(t.k[3])
         [] t.n = "using" -> <<"using", " ", "id", "=">> \o Unparse(t.k[1]) \o <<";">>
         [] t.n = "class" -> mods(t.k[1]) \o (IF t.k[3] = None THEN <<>> ELSE <<"ref", " ">>)
                             \o <<t.k[2].n, " ", "id">>
                             \o (IF t.k[4] = None THEN <<>> ELSE <<"(">> \o Comma(t.k[4]) \o <<")">>)
                             \o <<"{">> \o Lines(t.k[5]) \o <<"}">>
         [] t.n = "generic class" ->
                <<"generic", " ", "id">> \o params(t.k[1])
                \o (IF t.k[2].k = <<>> THEN <<>> ELSE <<"(">> \o Comma(t.k[2]) \o <<")">>)
                \o <<"{">> \o Lines(t.k[3]) \o <<"}">>
         [] t.n = "generic" -> <<"generic">> \o params(t.k[1]) \o <<" ">> \o Unparse(t.k[2])
         [] t.n = "T" -> FlattenSeq([i \in DOMAIN t.k |-> <<"shared", " ">>]) \o <<"id">>
         [] t.n = "enum" -> <<"enum", " ", "id", "{">> \o Comma(t.k[1]) \o <<"}">>
         [] t.n = "enum case" -> <<"id">> \o IF t.k[1] = None THEN <<>> ELSE <<"=">> \o Unparse(t.k[1])
         [] t.n = "macro" -> <<"macro", " ", t.k[3].n>>
                             \o (IF t.k[1] = None THEN <<>> ELSE <<"(">> \o Comma(t.k[1]) \o <<")">>)
                             \o <<"{">> \o Lines(t.k[2]) \o <<"}">>
         [] t.n = "import" -> <<"import", " ">> \o Unparse(t.k[1])
                              \o (IF Len(t.k) = 1 THEN <<>> ELSE <<" ", "as", " ", "id">>) \o <<";">>
         [] t.n = "from" -> <<"from", " ">> \o Unparse(t.k[1]) \o <<" ", "import", "{">> \o Comma(t.k[2]) \o <<"}", ";">>
         [] t.n = "import from" ->
                <<"import", "{">> \o Comma(t.k[1]) \o <<"}", "from", " ">> \o Unparse(t.k[2]) \o <<";">>
         [] t.n = "symbol" -> Unparse(t.k[1]) \o IF Len(t.k) = 1 THEN <<>> ELSE <<" ", "as", " ", "id">>

Declarations == {"var", "function", "method", "operator", "constructor", "destructor", "param", "using", "class",
                 "generic class", "generic", "T", "enum", "enum case", "macro", "import", "from", "import from",
                 "symbol"}

PrintStmt(t) ==
    LET paren(e) == <<"(">> \o Unparse(e) \o <<")">>
        semi(e) == Unparse(e) \o <<";">>
        default(l) == <<"default", ":">> \o Lines(l)
    IN CASE t.n = "block" -> <<"{">> \o Lines(t.k[1]) \o <<"}">>
         [] t.n = "expr" -> semi(t.k[1])
         [] t.n = "decl" -> Unparse(t.k[1])
         [] t.n = "if" -> <<"if">> \o paren(t.k[1]) \o Unparse(t.k[2])
                          \o IF t.k[3] = None THEN <<>> ELSE <<"else", " ">> \o Unparse(t.k[3])
         [] t.n = "while" -> <<"while">> \o paren(t.k[1]) \o Unparse(t.k[2])
         [] t.n = "do" -> <<"do", " ">> \o Unparse(t.k[1]) \o <<"while">> \o paren(t.k[2]) \o <<";">>
         [] t.n = "for" -> <<"for", "(">> \o (IF t.k[1] = None \/ t.k[1].n # "decl" THEN semi(t.k[1]) ELSE Unparse(t.k[1]))
                           \o semi(t.k[2]) \o Unparse(t.k[3]) \o <<")">> \o Unparse(t.k[4])
         [] t.n = "for in" -> <<"for", "(">> \o Unparse(t.k[1]) \o <<" ", "in", " ">> \o Unparse(t.k[2]) \o <<")">> \o Unparse(t.k[3])
         [] t.n = "names" -> Comma(t)
         [] t.n = "vars" -> Sep([i \in DOMAIN t.k |-> Front(Unparse(t.k[i]))], <<",">>)
         [] t.n = "switch" -> <<"switch">> \o paren(t.k[1]) \o <<"{">> \o Lines(t.k[2]) \o <<"}">>
         [] t.n = "case" -> <<"case", " ">> \o Comma(t.k[1]) \o <<":">> \o Lines(t.k[2])
         [] t.n = ":" -> Unparse(t.k[1]) \o <<":">> \o Unparse(t.k[2])
         [] t.n = "default" -> default(t.k[1])
         [] t.n = "return" -> <<"return">> \o (IF t.k = <<>> THEN <<>> ELSE <<" ">> \o Unparse(t.k[1])) \o <<";">>
         [] t.n \in {"break", "continue"} -> <<t.n, ";">>
         [] t.n = "defer" -> <<"defer", " ">> \o Unparse(t.k[1])
         [] t.n = "throw" -> <<"throw", " ">> \o semi(t.k[1])
         [] t.n = "unsafe" -> <<"unsafe", "{">> \o Lines(t.k[1]) \o <<"}">>
         [] t.n = "lock stmt" -> (IF t.k[1] = None THEN <<>> ELSE <<"async", " ">>) \o <<"lock">>
                            \o (IF Len(t.k) = 2 THEN <<>> ELSE paren(t.k[2])) \o Unparse(Last(t.k))
         [] t.n = "try" -> <<"try">> \o Unparse(t.k[1]) \o Lines(t.k[2])
                           \o IF t.k[3] = None THEN <<>> ELSE <<"finally">> \o Unparse(t.k[3])
         [] t.n = "catch" -> <<"catch", "(">> \o Unparse(t.k[1]) \o <<" ">> \o Unparse(t.k[2]) \o <<")">> \o Unparse(t.k[3])

Statements == {"block", "expr", "decl", "if", "while", "do", "for", "for in", "names", "vars", "switch", "case", ":",
               "default", "return", "break", "continue", "defer", "throw", "unsafe", "lock stmt", "try", "catch"}

PrintExpr(t) ==
    LET after(e, rest) == PrintAt(17, e) \o rest
    IN CASE t.n = "?:" -> PrintAt(3, t.k[1]) \o <<" ", "?", " ">> \o PrintAt(2, t.k[2])
                          \o <<" ", ":", " ">> \o PrintAt(2, t.k[3])
         [] t.n = "await" -> <<"await", " ">> \o PrintAt(16, t.k[1])
         [] Sign(t.n) # t.n -> <<Sign(t.n), " ">> \o PrintAt(16, t.k[1])
         [] t.n = "postfix ++" -> after(t.k[1], <<"++">>)
         [] t.n = "postfix --" -> after(t.k[1], <<"--">>)
         [] t.n = "call" -> after(t.k[1], <<"(">> \o Comma(t.k[2]) \o <<")">>)
         [] t.n \in {".", "?."} -> after(t.k[1], <<t.n, "id">>)
         [] t.n = "index" -> after(t.k[1], <<"[">> \o Unparse(t.k[2]) \o <<"]">>)
         [] t.n = "?index" -> after(t.k[1], <<"?", "[">> \o Unparse(t.k[2]) \o <<"]">>)
         [] t.n \in {"lambda", "lambda expr"} ->
                (CASE t.k[1].n = "&mut" -> <<"&", "mut">> [] t.k[1] = None -> <<>> [] OTHER -> <<t.k[1].n>>)
                \o <<"(">> \o Comma(t.k[2]) \o <<")", "=>">> \o PrintAt(IF t.k[3].n = "map" THEN 18 ELSE 0, t.k[3])
         [] t.n = "async" -> <<"async">> \o Unparse(t.k[1])
         [] t.n \in {"cast", "bitcast"} -> <<t.n, "<">> \o Unparse(t.k[1]) \o <<">", "(">> \o Unparse(t.k[2]) \o <<")">>
         [] t.n \in {"sizeof", "input"} -> <<t.n, "(">> \o Unparse(t.k[1]) \o <<")">>
         [] t.n = "array" -> <<"[">> \o Comma(t.k[1]) \o <<"]">>
         [] t.n = "map" -> <<"{">> \o Comma(t.k[1]) \o <<"}">>
         [] t.n = "entry" -> Unparse(t.k[1]) \o <<":">> \o Unparse(t.k[2])
         [] t.n = "template" -> <<"bq">> \o FlattenSeq([i \in DOMAIN t.k[1].k |->
                LET p == t.k[1].k[i]
                IN CASE p.n = "frag" -> <<"c">>
                     [] p.n = "tmpl" -> <<"bq">>
                     [] OTHER -> <<"$", "{">> \o Unparse(p) \o <<"}">>])
         [] t.n = "new" -> <<"new", " ">> \o Unparse(t.k[1]) \o <<" ">> \o Unparse(t.k[2]) \o <<"(">> \o Comma(t.k[3]) \o <<")">>
         [] t.n = "new thread" -> <<"new", " ">> \o Unparse(t.k[1]) \o <<" ", "thread", "(">> \o Unparse(t.k[2]) \o <<")">>
         [] t.n = "asm" -> <<"asm">> \o (IF Len(t.k) = 1 THEN <<>> ELSE <<"<">> \o Unparse(t.k[1]) \o <<">">>)
                           \o <<"(", "str", ")">> \o Lines(Last(t.k))
         [] t.n \in {"out", "in", "inout", "clobber"} -> <<t.n, "(">> \o Comma(t.k[1]) \o <<")">>
         [] t.n = "operand" -> <<"str", "(">> \o Unparse(t.k[1]) \o <<")">>
         [] Strength(t.n) < 16 -> PrintBinary(t)
         [] OTHER -> <<t.n>>

Unparse(t) ==
    IF t = None THEN <<>>
    ELSE IF t.k = <<>> /\ t.n \notin Declarations \cup Statements \cup {"decimal"} THEN <<t.n>>
    ELSE IF t.n \in Declarations THEN PrintDecl(t)
    ELSE IF t.n \in Statements THEN PrintStmt(t)
    ELSE IF IsType(t) \/ (t.n \in {"*", "&"} /\ Len(t.k) = 1) \/ (t.n \in Scalars /\ t.k # <<>>) THEN PrintType(t)
    ELSE PrintExpr(t)

\* x |> f(y) is a call of f with x before y.
RECURSIVE Meaning(_)
Meaning(t) ==
    LET k == [i \in DOMAIN t.k |-> Meaning(t.k[i])]
    IN IF t.n # "|>" THEN Node(t.n, k)
       ELSE IF k[2].n = "call" THEN Node("call", <<k[2].k[1], List(<<k[1]>> \o k[2].k[2].k)>>)
       ELSE Node("call", <<k[2], List(<<k[1]>>)>>)

-----------------------------------------------------------------------------
(* Properties *)

RECURSIVE NodesOf(_)
NodesOf(t) == {t} \cup UNION {NodesOf(t.k[i]) : i \in DOMAIN t.k}

\* Where the parser and the tests disagree: a ?? b ?? c is (a ?? b) ?? c to the
\* parser, a ?? b |> f() is (a ?? b) |> f(), and a |> f() ?? b is reported
\* (Parser.cpp 2419 to 2497).
Contested(t) ==
    \E u \in NodesOf(t) : u.n = "??" /\ (u.k[1].n = "|>" \/ u.k[2].n \in {"|>", "??"})

\* Texts the parser takes for something else: (a ? b : c) for the parameters of
\* a lambda, a ? [b] : c for an index, &(a) for a closure, a * await b for a
\* declaration; and a template string in another that does not start with ${
Mistaken(text) ==
    LET k == SelectSeq(text, LAMBDA x : x \notin Space)
    IN \E i \in 1 .. Len(k) - 2 :
           \/ k[i] = "(" /\ k[i + 1] = "id" /\ k[i + 2] = "?"
           \/ k[i] # "?" /\ k[i + 1] = "?" /\ k[i + 2] = "["
           \/ k[i] # "&" /\ k[i + 1] = "&" /\ k[i + 2] = "("
           \/ k[i] = "*" /\ IsWord(k[i + 1]) /\ IsWord(k[i + 2])
           \/ k[i] = "{" /\ k[i + 1] = "bq" /\ k[i + 2] = "c"

\* What is printed is read back: the parser groups every combination of
\* operators as the table of their strengths says, and gives every statement,
\* type and declaration back as it was, without a report.  Two kinds of text
\* are not read back: those the parser and the tests read differently
\* (Contested), and those the parser takes for something else (Mistaken).
RoundTrip ==
    result.done /\ tree # None /\ ~Contested(tree) /\ ~Mistaken(chars) =>
        /\ ~result.s.bad
        /\ result.t = Meaning(tree)

\* Tokens that leave no trace in the tree: separators, brackets for grouping,
\* and the words that a declaration of that kind has no use for
Traceless == {"(", ")", ";", ",", " ", "\n", "bq", "mut"} \cup TopModifiers \cup ClassModifiers
Written(k) == CASE k = "frag" -> <<"id">> [] k = "${" -> <<"$", "{">> [] k = "}$" -> <<"}">> [] OTHER -> Glyphs(k)
Count(x, t) == Len(SelectSeq(t, LAMBDA y : y = x))

\* A text about which nothing is reported is in the tree to the last token:
\* error recovery never throws away what it did not complain about, unless
\* parseType gave up (which it does in silence).  (|> leaves no token.)
NothingDropped ==
    LET Kind(x) == IF (IsWord(x) \/ x = "utf") /\ x \notin Keywords THEN "id" ELSE x
        Kinds(lexemes) == [i \in DOMAIN lexemes |-> Kind(lexemes[i])]
        SameCounts(read, printed) ==
            \A x \in (ToSet(read) \cup ToSet(printed)) \ Traceless : Count(x, read) = Count(x, printed)
        piped == \E i \in DOMAIN toks : toks[i].k = "|>"
    IN result.done /\ ~result.s.bad /\ ~result.s.unseen /\ ~result.s.hung /\ ~piped =>
           SameCounts(FlattenSeq([i \in 1 .. Len(toks) - 1 |-> Written(toks[i].k)]),
                      Kinds(Characters(Lines(List(result.t.k[1].k \o result.t.k[2].k)))))

\* The parser comes to an end on every text, at the end of the text.  Three
\* kinds of text are exempt: the loops over the cases of an enum and over the
\* statements in a switch need not end, and neither does the parser when the
\* lexer never comes to the end of the text and goes on giving tokens.
ParseEnds ==
    result.done =>
        /\ result.s.hung => ToSet(chars) \cap {"enum", "switch"} # {} \/ Last(toks).k # "eof"
        /\ ~result.s.hung => Cur(result.s) = "eof"

\* The names that a macro calls its own: its parameters and variables.  The
\* parameters of its closures are not: the expander does not rename them.
OwnNames(m) ==
    LET body == NodesOf(m.k[2])
    IN {p.n : p \in ToSet(m.k[1].k)} \cup {v.k[5].n : v \in {u \in body : u.n = "var"}}
       \cup {v.k[2].n : v \in {u \in body : u.n = "catch"}}
       \cup UNION {{l.n : l \in ToSet(v.k)} : v \in {u \in body : u.n = "names"}}

RECURSIVE Rename(_, _)
Rename(names, t) ==
    Node(IF t.k = <<>> /\ t.n \in names THEN t.n \o "2" ELSE t.n, [i \in DOMAIN t.k |-> Rename(names, t.k[i])])

\* The same module with names of their own in the macros
RenamedApart(m) ==
    Node(m.n, <<List([i \in DOMAIN m.k[1].k |->
                          LET d == m.k[1].k[i]
                          IN IF d.n = "macro" /\ d.k[1] # None
                             THEN Node("macro", <<Rename(OwnNames(d), d.k[1]), Rename(OwnNames(d), d.k[2]), d.k[3]>>) ELSE d]),
                m.k[2]>>)

\* Everything but the macros themselves
Program(m) == Node(m.n, <<List(SelectSeq(m.k[1].k, LAMBDA d : d.n # "macro")), m.k[2]>>)

IsMacro(d) == d.n = "macro" /\ d.k[1] # None

\* Three kinds of macro that the expander does not get right.  A loop or a
\* catch clause declares a variable in its head: cloneStmt copies head and
\* body as arguments of one call, and a compiler that evaluates them from the
\* right copies the body first, which then keeps the old name.
HeadDeclares(m) ==
    \E d \in ToSet(m.k[1].k) : IsMacro(d) /\ \E u \in NodesOf(d.k[2]) :
        u.n = "for in" \/ (u.n = "for" /\ u.k[1].n = "decl") \/ (u.n = "catch" /\ u.k[2] # None)

\* The program outside the macros uses the name of a parameter of one: in an
\* argument it is taken for that parameter and replaced again.
ArgumentsClash(m) ==
    \E d \in ToSet(m.k[1].k) : IsMacro(d) /\ ToSet(d.k[1].k) \cap NodesOf(Program(m)) # {}

\* A macro calls itself in an operand, where the depth is counted anew, or is
\* nothing but return; (the compiler overflows its stack, or reads a null).
Endless(m) ==
    \E d \in ToSet(m.k[1].k) : IsMacro(d) /\
        \/ d.k[2].k = <<Node("return", <<>>)>>
        \/ \E u \in NodesOf(d.k[2]) : u.n # "expr" /\ \E i \in DOMAIN u.k :
               u.k[i].n = "call" /\ u.k[i].k[1] = d.k[3]

\* Where a call of a macro is not taken for one: in conditions, in the operands
\* of unary operators, ternaries, casts, indices and members, as what is
\* called, as the value of a case or a default, and as a body without braces
\* (MacroExpander.cpp 574 to 695, 801 to 853, 866 to 881).
OnlyVisited(t, i) ==
    \/ t.n \in {"if", "while", "do", "for", "for in", "switch", "lock stmt", "defer", "throw",
                "postfix ++", "postfix --", "await", "?:", "cast", "bitcast", "index", "?index", ".", "?.",
                "sizeof", "input", "param"} \cup {n \in {t.n} : Sign(n) # n}
    \/ t.n \in {"case", "call"} /\ i = 1

\* The calls of macros in t that stand anywhere else
RECURSIVE CallsDue(_, _, _)
CallsDue(x, t, visited) ==
    (IF IsMacroCall(x, t) /\ ~visited THEN {t} ELSE {})
    \cup UNION {CallsDue(x, t.k[i], IF t.n \in {"list", "expr"} THEN visited ELSE OnlyVisited(t, i)) : i \in DOMAIN t.k}

\* Macros are hygienic: what an expansion means does not depend on the names
\* that the macros use for their parameters and variables, unless a head
\* declares one and arguments are evaluated from the right (HeadDeclares) or
\* an argument is named like a parameter (ArgumentsClash).  Without a report
\* no call of a macro is left but where calls are only visited, so a macro
\* that calls itself is reported, unless the compiler breaks down (Endless);
\* and a module without macros is left alone.
MacrosHygienic ==
    LET m == result.t
        x == [macros |-> MacroTable(m.k[1].k, expanded.dir)]
        marks == {t.n : t \in NodesOf(Program(expanded.t))} \cap {"reported", "crash"}
    IN expanded.dir # "none" =>
           /\ DOMAIN x.macros = {} => expanded.t = m
           /\ ~(expanded.dir = "right" /\ HeadDeclares(m)) /\ ~ArgumentsClash(m) =>
                  Program(expanded.t) = Program(ExpandModule(RenamedApart(m), expanded.dir))
           /\ "crash" \in marks => Endless(m)
           /\ marks = {} => CallsDue(x, Program(expanded.t), FALSE) = {}
=============================================================================
