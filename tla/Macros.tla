------------------------------- MODULE Macros -------------------------------
(***************************************************************************)
(* The macro expander (frontend/macros/MacroExpander.cpp), which runs      *)
(* between the parser and the type checker.  A call of a macro is replaced *)
(* by a copy of its body in which the parameters are the arguments of the  *)
(* call and the variables of the body have new names.                      *)
(*                                                                         *)
(* Copying goes by the order in which C++ evaluates the arguments of       *)
(* make_unique, which is the compiler's choice: a name is replaced by the  *)
(* new one only if the declaration was copied before.                      *)
(***************************************************************************)
EXTENDS Parser

CONSTANT MaxDepth      \* expansions in expansions (256 in the code)

ASSUME MaxDepthAssumption == MaxDepth \in Nat \ {0}

\* What the compiler reports, and a call that overflows its stack
Reported(t) == Node("reported", <<t>>)
Crash == Leaf("crash")

IsIdentifier(t) ==
    IsName(t) /\ IsWord(t.n) /\ t.n \notin Keywords \cup {"list", "frag", "implicit null", "crash"}

BinaryOps == {"=", "+=", "*=", ">>=", "||", "&&", "|", "^", "&", "==", "!=", "<", "<=", ">", ">=", "??", "<<", ">>",
              "+", "-", "*", "/", "%", "**", ":"}
IsBinary(t) == t.n \in BinaryOps /\ Len(t.k) = 2

-----------------------------------------------------------------------------
(* MacroSubstituter: parameters and arguments, the new names given so far, *)
(* what new names are made of (it stands for the address of a declaration) *)
(* and the order of evaluation                                             *)

Substituter(params, args, hygiene, tag, dir) ==
    [params |-> params, args |-> args, hygiene |-> hygiene, names |-> <<>>, used |-> 0, tag |-> tag, dir |-> dir]

Copy(e, t) == [e |-> e, t |-> t]

RECURSIVE Clone(_, _)

\* Mutant of CloneName: the new names hold in the arguments, too.
CloneNameCapturing(e, t) ==
    LET hits == {i \in DOMAIN e.params : e.params[i] = t.n /\ i <= Len(e.args)}
        first == CHOOSE i \in hits : \A j \in hits : i <= j
    IN IF t.n \in DOMAIN e.names THEN Leaf(e.names[t.n])
       ELSE IF hits = {} THEN t
       ELSE Clone([e EXCEPT !.params = RemoveAt(@, first)], e.args[first]).t

\* A new name, an argument, or the name itself.  In an argument the other
\* parameters are replaced again, by arguments that have kept their places.
CloneName(e, t) ==
    LET hits == {i \in DOMAIN e.params : e.params[i] = t.n /\ i <= Len(e.args)}
        first == CHOOSE i \in hits : \A j \in hits : i <= j
        inner == Substituter(RemoveAt(e.params, first), e.args, e.hygiene, e.tag \o "." \o ToString(first), e.dir)
    IN IF t.n \in DOMAIN e.names THEN Leaf(e.names[t.n])
       ELSE IF hits = {} THEN t
       ELSE Clone(inner, e.args[first]).t

\* The name of a copied declaration: that of the argument when it is a
\* parameter and the argument is a name, or else a new one
DeclName(e, name) ==
    LET Replace(r, i) ==
            IF e.params[i] = r.n /\ i <= Len(e.args) /\ IsIdentifier(e.args[i])
            THEN [n |-> e.args[i].n, hit |-> TRUE] ELSE r
        r == FoldLeft(Replace, [n |-> name.n, hit |-> FALSE], [i \in DOMAIN e.params |-> i])
        unique == "_h" \o e.tag \o "." \o ToString(e.used)
        same == e.names
    IN IF r.hit \/ ~e.hygiene THEN Copy(e, Leaf(r.n))
       ELSE Copy([e EXCEPT !.used = @ + 1,
                           !.names = [n \in DOMAIN same \cup {name.n} |-> IF n = name.n THEN unique ELSE same[n]]],
                 Leaf(unique))

\* Types hold expressions as the sizes of arrays only.
RECURSIVE CloneType(_, _)
CloneType(e, t) ==
    CASE t.n = "[]" -> Node("[]", <<CloneType(e, t.k[1]), Clone(e, t.k[2]).t>>)
      [] t.n = "name" -> Node("name", <<t.k[1], CloneType(e, t.k[2])>>)
      [] OTHER -> Node(t.n, [i \in DOMAIN t.k |-> CloneType(e, t.k[i])])

\* Which children are types, names of declarations, and copied as they are
TypeAt(t, i) ==
    \/ t.n \in {"var", "new"} /\ i = 2
    \/ t.n \in {"param", "cast", "bitcast", "catch", "using"} /\ i = 1
    \/ t.n = "asm" /\ i < Len(t.k)
NameAt(t, i) == t.n = "names" \/ (t.n = "catch" /\ i = 2 /\ t.k[2] # None) \/ (t.n = "var" /\ i = 5)
AsIs(t, i) ==
    \/ t.n = "var" /\ i \in {1, 3}
    \/ t.n \in {"lambda", "lambda expr", "new", "new thread", "lock stmt"} /\ i = 1
    \/ t.n = "param" /\ i = 2

\* The order in which the children are copied: statements, lists and parts
\* with a loop of their own first, the arguments of a constructor by e.dir
Order(e, t) ==
    LET n == Len(t.k)
        Sided(s) == IF e.dir = "left" THEN s ELSE Reverse(s)
        all == [i \in 1 .. n |-> i]
    IN CASE t.n \in {"list", "entry"} -> all
         [] t.n \in {"call", "switch"} -> <<2, 1>>
         [] t.n = "try" -> <<2>> \o Sided(<<1, 3>>)
         [] t.n = "var" -> <<5, 1, 2, 3, 4>>
         [] t.n \in {"names", "vars"} -> Sided(Reverse(all))
         [] t.n \in {"lambda", "lambda expr"} -> all
         [] OTHER -> Sided(all)

CloneChild(e, t, i) ==
    CASE AsIs(t, i) -> Copy(e, t.k[i])
      [] TypeAt(t, i) -> Copy(e, CloneType(e, t.k[i]))
      [] NameAt(t, i) -> DeclName(e, t.k[i])
      [] OTHER -> Clone(e, t.k[i])

\* cloneExpr, cloneStmt and cloneDecl: of the declarations only variables
\* and other names for types are copied.
Clone(e, t) ==
    LET Child(r, i) == LET c == CloneChild(r.e, t, i) IN Copy(c.e, [r.t EXCEPT !.k[i] = c.t])
    IN IF IsIdentifier(t) THEN Copy(e, CloneName(e, t))
       ELSE IF t.n = "decl" /\ t.k[1].n \notin {"var", "using"} THEN Copy(e, Node("decl", <<None>>))
       ELSE FoldLeft(Child, Copy(e, t), Order(e, t))

-----------------------------------------------------------------------------
(* The table of macros: those with parameters, the last of a name counts  *)

MacroTable(decls, dir) ==
    LET macros == SelectSeq(decls, LAMBDA d : d.n = "macro" /\ d.k[1] # None)
        Name(d) == d.k[3].n
        LastOf(n) == macros[CHOOSE i \in DOMAIN macros :
                                Name(macros[i]) = n /\ \A j \in i + 1 .. Len(macros) : Name(macros[j]) # n]
        Entry(d) == [name |-> Name(d), params |-> [i \in DOMAIN d.k[1].k |-> d.k[1].k[i].n],
                     body |-> Clone(Substituter(<<>>, <<>>, FALSE, "", dir), d.k[2]).t.k]
    IN [n \in {Name(macros[i]) : i \in DOMAIN macros} |-> Entry(LastOf(n))]

\* FunctionMacro::expand
Expand(m, args, dir) ==
    IF Len(args) # Len(m.params) THEN <<>>
    ELSE Clone(Substituter(m.params, args, TRUE, m.name, dir), List(m.body)).t.k

-----------------------------------------------------------------------------
(* The walk over the tree.  x: the macros and the order of evaluation;     *)
(* n: expansions under way.  The limit on them is counted anew for every   *)
(* operand, so a macro that calls itself in an operand has no end.         *)

RECURSIVE Visit(_, _, _)
RECURSIVE ExpandExpr(_, _, _, _)

IsMacroCall(x, t) == t.n = "call" /\ IsIdentifier(t.k[1]) /\ t.k[1].n \in DOMAIN x.macros

\* What stands for the call of a macro in an expression.  Several statements
\* become a closure that is called; a statement that is no value stays a call.
InPlaceOf(call, stmts) ==
    LET last == Last(stmts)
        returns == IF last.n = "expr" THEN Append(Front(stmts), Node("return", last.k)) ELSE stmts
        closure == Node("lambda", <<Leaf("&mut"), List(<<>>), Node("block", <<List(returns)>>)>>)
    IN IF Len(stmts) > 1 THEN Node("call", <<closure, List(<<>>)>>)
       ELSE IF stmts = <<>> \/ last.n \notin {"expr", "return"} THEN call
       ELSE IF last.k = <<>> THEN Crash
       ELSE last.k[1]

ExpandExpr(x, depth, n, t) ==
    LET v == Visit(x, n, t)
        stmts == Expand(x.macros[v.k[1].n], v.k[2].k, x.dir)
    IN IF t = None THEN t
       ELSE IF depth > MaxDepth THEN Reported(t)
       ELSE IF n > 3 * MaxDepth THEN Crash
       ELSE IF ~IsMacroCall(x, v) THEN v
       ELSE ExpandExpr(x, depth + 1, n + 1, InPlaceOf(v, stmts))

\* A statement of a block that calls a macro becomes the statements of it.
RECURSIVE ProcessStmt(_, _, _, _)
ProcessStmt(x, depth, n, s) ==
    LET call == s.k[1]
        args == [i \in DOMAIN call.k[2].k |-> ExpandExpr(x, 0, n, call.k[2].k[i])]
        stmts == Expand(x.macros[call.k[1].n], args, x.dir)
    IN IF depth > MaxDepth THEN <<Reported(s)>>
       ELSE IF s.n = "expr" /\ IsMacroCall(x, call)
       THEN FlattenSeq([i \in DOMAIN stmts |-> ProcessStmt(x, depth + 1, n + 1, stmts[i])])
       ELSE <<Visit(x, n, s)>>

VisitBlock(x, n, l) == List(FlattenSeq([i \in DOMAIN l.k |-> ProcessStmt(x, 0, n, l.k[i])]))

\* What a visit does with a child: expand it, visit it, visit it as a block
\* or leave it.  The operands of unary operators, conditions and targets are
\* only visited: a call of a macro is no call of one there.
Treatment(t, i) ==
    CASE t.n \in {"return", "array", "map", "entry", "template", "operand"} \/ IsBinary(t) -> "expand"
      [] t.n = "var" -> IF i = 4 THEN "expand" ELSE "leave"
      [] t.n = "call" -> IF i = 2 THEN "expand" ELSE "visit"
      [] t.n \in {"new", "lambda expr"} -> IF i = 3 THEN "expand" ELSE "visit"
      [] t.n \in {"block", "unsafe", "default"} -> "block"
      [] t.n = "case" -> IF i = 2 THEN "block" ELSE "visit"
      [] t.n \in {"function", "method", "constructor", "destructor"} -> IF i = Len(t.k) THEN "visit" ELSE "leave"
      [] t.n \in {"macro", "enum", "import", "from", "import from"} -> "leave"
      [] OTHER -> "visit"

Visit(x, n, t) ==
    LET Each(how, c) ==
            CASE how = "leave" \/ c = None -> c
              [] how = "block" -> VisitBlock(x, n, c)
              [] how = "expand" -> IF c.n # "list" THEN ExpandExpr(x, 0, n, c)
                                   ELSE List([j \in DOMAIN c.k |-> IF c.k[j].n = "entry" THEN Visit(x, n, c.k[j])
                                                                  ELSE ExpandExpr(x, 0, n, c.k[j])])
              [] OTHER -> Visit(x, n, c)
    IN Node(t.n, [i \in DOMAIN t.k |-> Each(Treatment(t, i), t.k[i])])

\* The script of a module is the body of its main function.
ExpandModule(m, dir) ==
    LET x == [macros |-> MacroTable(m.k[1].k, dir), dir |-> dir]
    IN Node(m.n, <<List([i \in DOMAIN m.k[1].k |-> Visit(x, 0, m.k[1].k[i])]), VisitBlock(x, 0, m.k[2])>>)
=============================================================================
