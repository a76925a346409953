------------------------------- MODULE HirGen -------------------------------
(***************************************************************************)
(* The translation of the checked tree to HIR (HIRGen.cpp).  An HIR        *)
(* expression is a node like those of TypeCheck, with ty its HIR type:     *)
(* char is an 8-bit integer, a reference a pointer, and a pointer forgets  *)
(* the qualifiers of what it points to.                                    *)
(***************************************************************************)
EXTENDS TypeCheck

RECURSIVE LowerType(_)

\* A pointer of the program borrows, one the compiler makes owns nothing (n = 0).
Borrowed(t) == [Of("ptr", t) EXCEPT !.n = 1]

\* The qualifiers around a type, outermost first, and those before a pointee.
RECURSIVE Around(_)
Around(t) == IF t.k \in Qualifiers \ {"weak"} THEN {t.k} \cup Around(Inner(t)) ELSE {}
RECURSIVE Core(_)
Core(t) == IF t.k \in Qualifiers \ {"weak"} THEN Core(Inner(t)) ELSE t
RECURSIVE Pointee(_)
Pointee(t) == IF t.k \in {"view", "mut", "lock", "volatile"} THEN Pointee(Inner(t)) ELSE t

Base(t) ==
    CASE t.k = "char" -> Ty("i8")
      [] t.k = "ref" -> Borrowed(LowerType(Inner(t)))
      [] t.k = "ptr" -> Borrowed(LowerType(Pointee(Inner(t))))
      [] OTHER -> [t EXCEPT !.in = [i \in DOMAIN t.in |-> LowerType(t.in[i])]]

\* Qualifiers are put back in a fixed order; a pointer loses them.
Requalified(t, qs) ==
    FoldLeft(LAMBDA u, q : IF q \in qs THEN Of(q, u) ELSE u, t,
             <<"view", "mut", "lock", "const", "volatile">>)

LowerType(t) ==
    LET base == Base(Core(t))
    IN  IF base.k = "ptr" \/ t = NoType THEN base ELSE Requalified(base, Around(t))

\* determineCastOp looks at the kinds of the two HIR types as they are written.
DetermineCastOp(src, dst) ==
    IF src = NoType \/ src = dst THEN "bitcast"
    ELSE IF IsFloat(src) /\ IsInteger(dst) THEN "floattoint"
    ELSE IF IsInteger(src) /\ IsFloat(dst) THEN "inttofloat"
    ELSE IF IsInteger(src) /\ IsInteger(dst)
    THEN IF Bits[dst.k] < Bits[src.k] THEN "trunc"
         ELSE IF Bits[dst.k] = Bits[src.k] THEN "bitcast"
         ELSE IF src.k \in Signed THEN "sext" ELSE "zext"
    ELSE "bitcast"

RECURSIVE Hir(_)

CompoundOp(op) == CASE op = "+=" -> "+" [] op = "-=" -> "-" [] op = "*=" -> "*"
                    [] op = "/=" -> "/" [] op = "%=" -> "%" [] op = "&=" -> "&"
                    [] op = "|=" -> "|" [] op = "^=" -> "^" [] op = "<<=" -> "<<"
                    [] op = ">>=" -> ">>"

\* a op= b becomes a = (a op b), with the target visited a second time.
HirBinary(e, l, r) ==
    LET t == LowerType(e.ty)
        bin(op, x, y) == WithType(Node("bin", op, 0, NoType, <<x, y>>), t)
    IN  IF e.op \in Compound THEN bin("=", l, bin(CompoundOp(e.op), Hir(e.c[1]), r))
        ELSE bin(e.op, l, r)

HirUnary(e, o) ==
    WithType(CASE e.op = "*" -> Node("deref", "", 0, NoType, <<o>>)
               [] e.op = "&" -> Node("addr", "", 0, NoType, <<o>>)
               [] e.op = "..." -> Node("un", "-", 0, NoType, <<o>>)
               [] OTHER -> Node("un", e.op, e.n, NoType, <<o>>),
             LowerType(e.ty))

\* A name of reference type stands for what it refers to.
HirIdentifier(e) ==
    IF e.ty.k = "ref"
    THEN WithType(Node("deref", "", 0, NoType, <<WithType(e, LowerType(e.ty))>>),
                  LowerType(Inner(e.ty)))
    ELSE WithType(e, LowerType(e.ty))

HirCast(e, o) ==
    LET t == LowerType(e.to)
    IN  WithType(Node("cast", IF e.k = "cast" THEN DetermineCastOp(o.ty, t) ELSE "bitcast",
                      0, NoType, <<o>>), t)

HirElement(e) ==
    IF IsSpread(e) THEN LET o == Hir(e.c[1]) IN WithType(Node("spread", "", 0, NoType, <<o>>), o.ty)
    ELSE Hir(e)

\* The argument of a reference parameter is passed by its address.
HirCall(e) ==
    LET par == Signature[e.op].par
        arg(i) == IF par[i].k = "ref"
                  THEN WithType(Node("addr", "", 0, NoType, <<Hir(e.c[i])>>), LowerType(par[i]))
                  ELSE Hir(e.c[i])
    IN  WithType([e EXCEPT !.c = [i \in DOMAIN e.c |-> arg(i)]], LowerType(e.ty))

HirVariableDecl(d) ==
    LET init == Hir(d.c[1])
        addr == WithType(Node("addr", "", 0, NoType, <<init>>), LowerType(d.to))
    IN  WithType(IF d.c = <<>> THEN d
                 ELSE [d EXCEPT !.c = <<IF d.to.k = "ref" /\ init.k # "addr" THEN addr ELSE init>>],
                 LowerType(d.to))

\* A literal true or false gets no type.
Hir(e) ==
    CASE e.k = "char" -> WithType([e EXCEPT !.k = "int"], LowerType(e.ty))
      [] e.k = "bool" -> WithType(e, NoType)
      [] e.k \in {"int", "float", "str", "null"} -> WithType(e, LowerType(e.ty))
      [] e.k = "id" -> HirIdentifier(e)
      [] e.k = "bin" -> HirBinary(e, Hir(e.c[1]), Hir(e.c[2]))
      [] e.k = "un" -> HirUnary(e, Hir(e.c[1]))
      [] e.k \in {"cast", "bitcast"} -> HirCast(e, Hir(e.c[1]))
      [] e.k = "array" -> WithType([e EXCEPT !.c = [i \in DOMAIN e.c |-> HirElement(e.c[i])]],
                                   LowerType(e.ty))
      [] e.k = "call" -> HirCall(e)
      [] e.k = "decl" -> HirVariableDecl(e)
      [] OTHER -> WithType([e EXCEPT !.c = [i \in DOMAIN e.c |-> Hir(e.c[i])]], LowerType(e.ty))

HirStatement(st) == Hir(st)
=============================================================================
