----------------------------- MODULE LowerExpr -----------------------------
(***************************************************************************)
(* The lowering of expressions and variable declarations to MIR            *)
(* (LowerHIRToMIR.cpp), run as it is lowered: Gen returns the operand that *)
(* the lowering of an HIR node leaves in lastExprValue, and the machine    *)
(* after the instructions it emitted.  What a conversion does is decided   *)
(* by the types of operands, which the lowering knows; only branches look  *)
(* at values.                                                              *)
(***************************************************************************)
EXTENDS LowerConv

-----------------------------------------------------------------------------
(* ConstantFoldingPass on the instructions of an expression.  It runs      *)
(* after the lowering, so what the lowering decided by "is it a constant"  *)
(* stands: a folded operand is no constant to it.  The operands are looked *)
(* at behind all their casts, whatever a cast did to the number, and the   *)
(* arithmetic is that of 64 bits.                                          *)

\* unwrapCasts
RECURSIVE UnwrapCasts(_)
UnwrapCasts(x) ==
    CASE x.by \in {"cast", "bitcast"} -> UnwrapCasts(x.from[1])
      [] x.by = "folded" -> x.from[1]
      [] OTHER -> x

\* ConstantInt and ConstantFloat; a ConstantBool is neither.
Is(k, l, r) == /\ IsConst(l, k) /\ IsConst(r, k)
               /\ l.ty.k # "bool" /\ r.ty.k # "bool"

\* The constant as the back end will write it; the next fold sees what was computed.
Replaced(t, v) == Operand(t, RetypedTo(v, RepOf(t), t), "folded", <<Const(t, v)>>)

As64(t, n) == WrapBits(Bits["i64"], t.k \in Signed, n)

IntMath(op, a, b) ==
    CASE op = "+" -> a + b [] op = "-" -> a - b [] op = "*" -> a * b
      [] op = "/" -> Quot(a, b) [] op = "%" -> Rem(a, b)

\* Floating-point instructions have opcodes of their own, all but the remainder.
FoldsInts(op, t, b) ==
    /\ op \in (IF IsFloat(t) THEN {"%"} ELSE {"+", "-", "*", "/", "%"})
    /\ op \in {"/", "%"} => b # 0
FoldsFloats(op, b) == op \in {"+", "-", "*", "/"} /\ (op = "/" => b # 0)

FoldMath(op, x, y, l, r) ==
    CASE Is("int", l, r) /\ FoldsInts(op, x.ty, r.v.n) ->
             Replaced(x.ty, IntV(As64(x.ty, IntMath(op, As64(x.ty, l.v.n), As64(x.ty, r.v.n)))))
      [] Is("flt", l, r) /\ FoldsFloats(op, r.v.n) ->
             Replaced(x.ty, FltV(FltResult(op, l.v.n, r.v.n)))
      [] OTHER -> Op(x.ty, ArithV(op, x.ty, x.v, y.v))
BinaryInst(op, x, y) == FoldMath(op, x, y, UnwrapCasts(x), UnwrapCasts(y))

FoldCompare(op, x, y, l, r) ==
    CASE IsNullConst(l) /\ IsNullConst(r) /\ op \in {"==", "!="} ->
             Replaced(Ty("bool"), BoolV(op = "=="))
      [] Is("int", l, r) /\ ~IsFloat(x.ty) ->
             Replaced(Ty("bool"), BoolV(Holds(op, As64(l.ty, l.v.n), As64(l.ty, r.v.n))))
      [] Is("flt", l, r) /\ IsFloat(x.ty) ->
             Replaced(Ty("bool"), BoolV(Holds(op, l.v.n, r.v.n)))
      [] OTHER -> Op(Ty("bool"), CompareV(op, x.ty, x.v, y.v))
CompareInst(op, x, y) == FoldCompare(op, x, y, UnwrapCasts(x), UnwrapCasts(y))

-----------------------------------------------------------------------------
(* The lowering.                                                           *)

RECURSIVE Gen(_, _, _, _)
Expr(e, m) == Gen("expr", e, NoType, m)
GenCast(x, t, m) == Gen("bitcast", x, t, m)
GenLoad(r) == Gen("load", r.r, NoType, r.m)
GenBox(x, src, t, m) == Gen("box", [x |-> x, src |-> src], t, m)
GenUnbox(x, t, m) == Gen("unbox", x, t, m)
GenCoerce(x, t, m) == Gen("coerce", x, t, m)
GenText(x, m) == Gen("text", x, NoType, m)
GenBool(r) == Gen("bool", r.r, NoType, r.m)

BoolT == Ty("bool")
AnyT == Ty("any")
\* A number that does not stand for its own type: what a pointer points to.
GenUnwrap(x, t, m) == GenLoad(GenCast(x, Raw(t), m))

\* evaluateAsLValue: a load that was made all the same is taken back.
LValue(e, m) ==
    LET v == Expr(e, [m EXCEPT !.lv = TRUE])
    IN  R(IF v.r.by = "load" THEN v.r.from[1] ELSE v.r, [v.m EXCEPT !.lv = m.lv])
RValue(e, m) ==
    LET v == Expr(e, [m EXCEPT !.lv = FALSE]) IN R(v.r, [v.m EXCEPT !.lv = m.lv])

\* expectedLambdaReturnType: an empty literal takes the type that is wanted.
Wanted(e, t) ==
    IF e.k = "array" /\ e.c = <<>> /\ t.k \in {"slice", "array", "opt", "any"}
    THEN [e EXCEPT !.ty = t] ELSE e

(***************************************************************************)
(* Assignment.                                                             *)
(***************************************************************************)
\* The type of a table that is indexed directly or through a pointer.
Through(t) == IF t.k = "ptr" THEN StripModifiers(Inner(t)) ELSE t
TableType(e) == Through(StripModifiers(e.ty))

Forced(x, t, m) ==
    IF ~IsInteger(t) \/ x.ty = t THEN R(x, m)
    ELSE IF IsConst(x, "int") THEN R(Retype(x, t), m) ELSE GenCast(x, t, m)

\* prepareAnyPtr: a key or a value is boxed at the table's type.
\* At the type any boxing does nothing, and a plain value is spilled as it is.
Spilled(r) == IF r.r.ty.k = "any" THEN r ELSE R(Op(AnyT, Wild), Flag(r.m, TRUE))
BoxedAt(f, t) == IF f.r.ty.k = "any" THEN f ELSE Spilled(GenBox(f.r, t, AnyT, f.m))
PrepareAny(x, t, m) == BoxedAt(Forced(x, t, m), t)

AssignEntry(e, m) ==
    LET col == TableType(e.c[1].c[1])
        base == LValue(e.c[1].c[1], m)
        map == IF base.r.ty.k = "ptr" THEN GenLoad(base) ELSE base
        index == Expr(e.c[1].c[2], map.m)
        key == PrepareAny(index.r, col.in[1], index.m)
        rhs == Expr(e.c[2], key.m)
        val == PrepareAny(rhs.r, col.in[2], rhs.m)
    IN  R(rhs.r, MapInsert(map.r.v, key.r.v, val.r.v, val.m))

\* A cast from the type that is wanted is taken back, whatever it did.
WithoutCast(x, t) ==
    IF x.by \in {"cast", "bitcast"} /\ x.from[1].ty = t THEN x.from[1] ELSE x

NoLoad == {"ptr", "ref", "string", "slice", "map"}

\* The value of an assignment becomes one of the type of the target.
AssignedAs(x, any, t, m) ==
    LET boxed == GenBox(x, x.ty, t, m) IN
    CASE x.ty = t -> R(x, m)
      [] x.ty # t /\ IsConst(x, "int") /\ IsInteger(t) -> R(Retype(x, t), m)
      [] x.ty # t /\ IsConst(x, "flt") /\ IsFloat(t) -> R(Retype(x, t), m)
      [] x.ty # t /\ t.k = "any" -> IF boxed.r.ty = t THEN boxed ELSE GenCast(boxed.r, t, boxed.m)
      [] x.ty # t /\ t.k # "any" /\ any -> GenUnbox(x, t, m)
      [] x.ty.k = "ptr" /\ t.k \notin NoLoad \cup {"any"} /\ ~any -> GenUnwrap(x, t, m)
      [] OTHER -> GenCoerce(x, t, m)

IsOptionalTarget(e) == e.k = "index" /\ e.n = 1

StoreResult(r, p) == R(r.r, Store(r.r, p, r.m))

AssignTo(e, p, m) ==
    LET t == IF p.ty.k = "ptr" THEN Inner(p.ty) ELSE p.ty
        rhs == Expr(Wanted(e.c[2], t), m)
    IN  StoreResult(AssignedAs(WithoutCast(rhs.r, t), e.c[2].ty.k = "any", t, rhs.m), p)

Assign(e, m) ==
    LET p == IF e.c[1].k = "id" THEN R(m.env[e.c[1].op], m) ELSE LValue(e.c[1], m)
    IN  IF IsOptionalTarget(e.c[1]) /\ IsNull(p.r.v) THEN R(Op(e.ty, Wild), p.m)
        ELSE AssignTo(e, p.r, p.m)

IsEntry(e) == e.k = "index" /\ TableType(e.c[1]).k = "map"
VisitAssignment(e, m) == IF IsEntry(e.c[1]) THEN AssignEntry(e, m) ELSE Assign(e, m)

(***************************************************************************)
(* ??, && and ||: the right operand is evaluated only when it is needed.   *)
(***************************************************************************)
RECURSIVE CoreOf(_)
CoreOf(t) == IF t.k \in {"opt", "view", "mut", "lock"} THEN CoreOf(Inner(t)) ELSE t

\* Either side of ?? becomes a value of the result's type.
CoalesceSide(x, t, m) ==
    CASE x.ty = t -> R(x, m)
      [] x.ty # t /\ x.ty.k \in {"ptr", "opt"} /\ IsPrimitive(t) -> GenUnwrap(x, t, m)
      [] OTHER -> GenCast(x, t, m)

CoalesceRight(x, t, m) ==
    IF x.ty # t /\ IsNullConst(x) THEN R(Const(t, Zero(t)), m) ELSE CoalesceSide(x, t, m)

VisitCoalesce(e, m) ==
    LET t == CoreOf(e.ty)
        lhs == Expr(e.c[1], m)
        rhs == Expr(e.c[2], lhs.m)
        side == IF ~IsNull(lhs.r.v) THEN CoalesceSide(lhs.r, t, lhs.m)
                ELSE CoalesceRight(rhs.r, t, rhs.m)
    IN  R(Op(t, side.r.v), side.m)

\* Mutant of VisitLogical: the right operand is always evaluated.
VisitLogicalEager(e, m) ==
    LET lhs == GenBool(Expr(e.c[1], m))
        rhs == GenBool(Expr(e.c[2], lhs.m))
    IN  R(Op(BoolT, IF IsTrue(lhs.r.v) = (e.op = "&&") THEN rhs.r.v ELSE BoolV(e.op = "||")), rhs.m)

VisitLogical(e, m) ==
    LET lhs == GenBool(Expr(e.c[1], m))
        rhs == GenBool(Expr(e.c[2], lhs.m))
    IN  IF IsTrue(lhs.r.v) = (e.op = "&&") THEN R(Op(BoolT, rhs.r.v), rhs.m)
        ELSE R(Op(BoolT, BoolV(e.op = "||")), lhs.m)

(***************************************************************************)
(* The other binary operators.                                             *)
(***************************************************************************)
Concat(l, r, m) ==
    LET lt == GenText(l, m)
        rt == GenText(r, lt.m)
    IN  R(TextOp(TextIn(lt.r.v) \o TextIn(rt.r.v)), rt.m)

Moved(p, n) == IF p.k = "ptr" THEN PtrV(p.n, p.o + n) ELSE Wild
Gep(p, n) == Op(Raw(Inner(p.ty)), Moved(p.v, n))
IndexOf(x) == IF x.v.k = "int" THEN AsSigned(x.ty, x.v.n) ELSE 0

\* Pointers of one object: the distance is counted in elements.
PointerOp(op, l, r) ==
    CASE op = "+" /\ l.ty.k = "ptr" -> Gep(l, IndexOf(r))
      [] op = "+" /\ l.ty.k # "ptr" -> Gep(r, IndexOf(l))
      [] op = "-" /\ r.ty.k # "ptr" -> Gep(l, -IndexOf(r))
      [] op = "-" /\ r.ty.k = "ptr" ->
             Op(Ty("i64"), IF l.v.n = r.v.n THEN IntV(l.v.o - r.v.o) ELSE Wild)
IsPointerOp(op, l, r) ==
    \/ op = "+" /\ l.ty.k = "ptr" /\ IsInteger(r.ty)
    \/ op = "+" /\ l.ty.k # "ptr" /\ r.ty.k = "ptr" /\ IsInteger(l.ty)
    \/ op = "-" /\ l.ty.k = "ptr"

\* A pointer that borrows is read through, whatever the operator.
AutoDeref(x, m) ==
    IF x.ty.k = "ptr" /\ x.ty.n # 0 /\ Inner(x.ty).k \notin {"class", "array", "slice"}
    THEN GenLoad(R(x, m)) ELSE R(x, m)

\* The operands of an operator that works on two values of one type.
PairOf(l, r, m) == [l |-> l, r |-> r, m |-> m]

\* An any is unboxed at the type of the other side, an integer becomes a float.
UnboxPair(l, r, m) ==
    LET ul == GenUnbox(l, r.ty, m)
        ur == GenUnbox(r, l.ty, m)
    IN  CASE l.ty.k = "any" /\ r.ty.k # "any" -> PairOf(ul.r, r, ul.m)
          [] r.ty.k = "any" /\ l.ty.k # "any" -> PairOf(l, ur.r, ur.m)
          [] OTHER -> PairOf(l, r, m)
\* Mutant of PromotePair: an integer on the left of a float stays an integer.
PromotePairRight(l, r, m) ==
    IF IsFloat(l.ty) /\ ~IsFloat(r.ty) THEN PairOf(l, IntToFloat(r, l.ty), m) ELSE PairOf(l, r, m)
PromotePair(l, r, m) ==
    CASE IsFloat(r.ty) /\ ~IsFloat(l.ty) -> PairOf(IntToFloat(l, r.ty), r, m)
      [] IsFloat(l.ty) /\ ~IsFloat(r.ty) -> PairOf(l, IntToFloat(r, l.ty), m)
      [] OTHER -> PairOf(l, r, m)

\* Constants are retyped; otherwise the bits of the right side are taken
\* for a value of the type of the left one.
MatchPair(l, r, m) ==
    LET cast == GenCast(r, l.ty, m)
        number(x, t) == (IsConst(x, "int") /\ IsInteger(t)) \/ (IsConst(x, "flt") /\ IsFloat(t))
    IN  CASE l.ty = r.ty -> PairOf(l, r, m)
          [] l.ty # r.ty /\ number(r, l.ty) -> PairOf(l, Retype(r, l.ty), m)
          [] l.ty # r.ty /\ ~number(r, l.ty) /\ number(l, r.ty) -> PairOf(Retype(l, r.ty), r, m)
          [] OTHER -> PairOf(l, cast.r, cast.m)

Coerced(l, r, m) ==
    LET u == UnboxPair(l, r, m)
        p == PromotePair(u.l, u.r, u.m)
    IN
    CASE l.ty = r.ty -> PairOf(l, r, m)
      [] l.ty # r.ty /\ IsNullConst(r) -> PairOf(l, Const(l.ty, Zero(l.ty)), m)
      [] l.ty # r.ty /\ ~IsNullConst(r) /\ IsNullConst(l) -> PairOf(Const(r.ty, Zero(r.ty)), r, m)
      [] OTHER -> MatchPair(p.l, p.r, p.m)

(***************************************************************************)
(* Comparison.  With an optional operand a null decides; strings and       *)
(* sequences are compared by content, by what the left operand is.         *)
(***************************************************************************)
StringEq(a, b) == IF "wild" \in {a.k, b.k} THEN Wild
                  ELSE BoolV(a = b /\ (a.k = "ptr" => a.n = b.n))
Negated(op, v) == IF v.k = "wild" \/ op # "!=" THEN v ELSE BoolV(~IsTrue(v))

\* By content when both are still strings, by address once they are pointers.
ComparePlain(op, l, r) ==
    IF l.ty.k = "string" THEN Op(BoolT, Negated(op, StringEq(l.v, r.v)))
    ELSE CompareInst(op, l, r)

CompareOpened(op, l, r, lopt, m) ==
    LET cl == GenCoerce(l, r.ty, m)
        cr == GenCoerce(r, l.ty, m)
    IN  CASE l.ty = r.ty -> R(ComparePlain(op, l, r), m)
          [] l.ty # r.ty /\ lopt -> R(ComparePlain(op, cl.r, r), cl.m)
          [] OTHER -> R(ComparePlain(op, l, cr.r), cr.m)

IsOpt(e) == e.ty.k = "opt"
GenOpened(x, e, m) ==
    IF ~IsOpt(e) THEN R(x, m)
    ELSE IF IsPrimitive(Inner(e.ty)) THEN GenUnwrap(x, Inner(e.ty), m)
    ELSE GenCast(x, Raw(Inner(e.ty)), m)

CompareOptional(e, l, r, m) ==
    LET ol == GenOpened(l, e.c[1], m)
        or == GenOpened(r, e.c[2], ol.m)
    IN  IF (IsOpt(e.c[1]) /\ IsNull(l.v)) \/ (IsOpt(e.c[2]) /\ IsNull(r.v))
        THEN R(Op(BoolT, BoolV(e.op = "!=")), m)
        ELSE CompareOpened(e.op, ol.r, or.r, IsOpt(e.c[1]) /\ ~IsOpt(e.c[2]), or.m)

RECURSIVE BehindPointers(_)
BehindPointers(t) == IF t.k \in {"ptr", "opt"} THEN BehindPointers(Inner(t)) ELSE t

\* The elements of a sequence as array_eq sees them: their bytes.
BytesOf(x, t, m) ==
    IF t.k = "slice" THEN ElementsFrom(SliceData(x.v, m), Inner(t), SliceLen(x.v, m), m)
    ELSE IF x.v.k = "agg" THEN [i \in DOMAIN x.v.s |-> Op(Inner(t), x.v.s[i])]
    ELSE ElementsFrom(x.v, Inner(t), t.n, m)
CompareEqual(e, l, r, m) ==
    LET core == BehindPointers(e.c[1].ty)
        other == BehindPointers(e.c[2].ty)
        same == ArrayEq(BytesOf(l, core, m), BytesOf(r, other, m))
        text == core.k = "string" \/ l.ty.k = "string" \/ (l.ty.k = "ptr" /\ IsByte(Inner(l.ty)))
    IN  R(CASE core.k = "string" \/ (text /\ ~IsSequence(core)) ->
                   Op(BoolT, Negated(e.op, StringEq(l.v, r.v)))
            [] IsSequence(core) ->
                   Op(BoolT, IF IsSequence(other) THEN BoolV(same = (e.op = "==")) ELSE Wild)
            [] OTHER -> CompareInst(e.op, l, r), m)

ArithmeticOp(e, p) ==
    CASE e.op \in {"==", "!="} -> CompareEqual(e, p.l, p.r, p.m)
      [] e.op \in {"<", ">", "<=", ">="} -> R(CompareInst(e.op, p.l, p.r), p.m)
      [] OTHER -> R(BinaryInst(e.op, p.l, p.r), p.m)

Relational == {"==", "!=", "<", ">", "<=", ">="}
BinaryValues(e, l, r, m) ==
    IF /\ e.op \in Relational /\ (IsOpt(e.c[1]) \/ IsOpt(e.c[2]))
       /\ ~IsNullConst(l) /\ ~IsNullConst(r)
    THEN CompareOptional(e, l, r, m)
    ELSE ArithmeticOp(e, Coerced(l, r, m))

BinaryOperands(e, l, r, m) ==
    LET dl == AutoDeref(l, m)
        dr == AutoDeref(r, dl.m)
    IN  CASE e.op = "+" /\ "string" \in {l.ty.k, r.ty.k} -> Concat(l, r, m)
          [] IsPointerOp(e.op, l, r) -> R(PointerOp(e.op, l, r), m)
          [] OTHER -> BinaryValues(e, dl.r, dr.r, dr.m)

VisitBinaryExpr(e, m) ==
    LET l == Expr(e.c[1], m)
        r == Expr(e.c[2], l.m)
    IN  CASE e.op = "=" -> VisitAssignment(e, m)
          [] e.op = "??" -> VisitCoalesce(e, m)
          [] e.op \in {"&&", "||"} -> VisitLogical(e, m)
          [] OTHER -> BinaryOperands(e, l.r, r.r, r.m)

(***************************************************************************)
(* Unary operators, pointers.                                              *)
(***************************************************************************)
PlaceOf(x) == IF x.by = "load" THEN x.from[1] ELSE x
One(t) == IF IsFloat(t) THEN FltV(2) ELSE IntV(1)
AddTo(op, x) == Op(x.ty, ArithV(IF op = "++" THEN "+" ELSE "-", x.ty, x.v, One(x.ty)))

\* n = 1: the operator stands in front and gives the new value.
Stepped(e, place, old, new) == R(IF e.n = 1 THEN new ELSE old.r, Store(new, place, old.m))
StepAt(e, place, old) == Stepped(e, place, old, AddTo(e.op, old.r))
VisitIncDec(e, at) == StepAt(e, PlaceOf(at.r), GenLoad(R(PlaceOf(at.r), at.m)))

UnaryValue(op, x) ==
    CASE op = "!" -> Op(BoolT, IF x.v.k = "wild" THEN Wild ELSE BoolV(x.v = Zero(x.ty)))
      [] op = "~" -> BinaryInst("^", x, Const(x.ty, IntV(-1)))
      [] op = "-" -> BinaryInst("-", Const(x.ty, Zero(x.ty)), x)

UnaryResult(op, r) == R(UnaryValue(op, r.r), r.m)

\* The operand of ~ is visited twice.
VisitUnaryExpr(e, m) ==
    LET v == Expr(e.c[1], m) IN
    CASE e.op \in {"++", "--"} ->
             VisitIncDec(e, IF e.c[1].k = "id" THEN R(m.env[e.c[1].op], m) ELSE v)
      [] e.op = "~" -> UnaryResult(e.op, Expr(e.c[1], v.m))
      [] OTHER -> UnaryResult(e.op, v)

VisitDerefExpr(e, m) ==
    LET p == RValue(e.c[1], m) IN IF m.lv THEN GenCast(p.r, p.r.ty, p.m) ELSE GenLoad(p)

RECURSIVE BehindCasts(_)
BehindCasts(e) == IF e.k = "cast" THEN BehindCasts(e.c[1]) ELSE e

As(r, t) == IF r.r.ty = t THEN r ELSE GenCast(r.r, t, r.m)
AddressOf(o, m) == IF o.k = "id" THEN R(m.env[o.op], m) ELSE LValue(o, m)
VisitAddressOfExpr(e, m) == As(AddressOf(BehindCasts(e.c[1]), m), e.ty)

(***************************************************************************)
(* Conditional operator, casts, templates.                                 *)
(***************************************************************************)
ArmAs(r, t) ==
    IF r.r.ty = t THEN r
    ELSE IF "any" \in {t.k, r.r.ty.k} THEN Gen("anycast", r.r, t, r.m) ELSE GenCast(r.r, t, r.m)
Phi(r, t) == R(Op(t, r.r.v), r.m)
VisitTernaryExpr(e, m) ==
    LET cond == GenBool(Expr(e.c[1], m))
    IN  Phi(ArmAs(Expr(e.c[IF IsTrue(cond.r.v) THEN 2 ELSE 3], cond.m), e.ty), e.ty)

\* An array becomes a slice that looks at the array's own memory.
ViewedArray(x, col, t, m) ==
    LET at == IF x.by = "load" \/ x.ty.k = "ptr" THEN R(PlaceOf(x), m) ELSE Alloc(x, m)
        view == ArrayView(at.r.v, col.n, at.m)
    IN  R(Op(t, view.r), view.m)

NumericCast(op, x, t, m) ==
    CASE op = "inttofloat" -> R(IntToFloat(x, t), m)
      [] op = "floattoint" -> R(FloatToInt(x, t), m)
      [] op \in {"trunc", "sext", "zext"} -> R(CastInt(x, t), m)
      [] OTHER -> GenCast(x, t, m)

CastValue(op, x, t, m) ==
    LET want == CoreOf(StripModifiers(t))
        col == IF x.ty.k = "ptr" THEN Inner(x.ty) ELSE x.ty
    IN  CASE t.k = "string" -> GenText(x, m)
          [] t.k # "string" /\ want.k = "slice" /\ col.k = "array" -> ViewedArray(x, col, t, m)
          [] t.k = "any" -> GenBox(x, x.ty, t, m)
          [] t.k \notin {"any", "string"} /\ x.ty.k = "any" -> GenUnbox(x, t, m)
          [] "any" \notin {t.k, x.ty.k} /\ "opt" \in {t.k, x.ty.k} /\ col.k # "array" ->
                 GenCoerce(x, t, m)
          [] OTHER -> NumericCast(op, x, t, m)

\* A cast back to the type an earlier cast came from takes that one back.
CastAgain(op, x, t, m) ==
    IF x.ty = t \/ WithoutCast(x, t) # x THEN R(WithoutCast(x, t), m) ELSE CastValue(op, x, t, m)

VisitCastExpr(e, m) ==
    LET v == Expr(Wanted(e.c[1], CoreOf(StripModifiers(e.ty))), m) IN
    IF e.ty.k = "ptr" /\ IsSequence(e.c[1].ty) THEN As(LValue(e.c[1], m), e.ty)
    ELSE CastAgain(e.op, v.r, e.ty, v.m)

VisitTemplate(e, m) ==
    FoldLeft(LAMBDA acc, part : LET v == Expr(part, acc.m)
                                    s == GenText(v.r, v.m)
                                IN  R(TextOp(TextIn(acc.r.v) \o TextIn(s.r.v)), s.m),
             R(TextOp(""), m), e.c)

(***************************************************************************)
(* Literals of arrays and tables.  All elements of an array are evaluated  *)
(* before the first is stored.                                             *)
(***************************************************************************)
VisitElement(e, m) ==
    LET v == Expr(IF e.k = "spread" THEN e.c[1] ELSE e, m)
    IN  IF e.k # "spread" /\ v.r.ty.k = "ptr" /\ Inner(v.r.ty).k = "array" THEN GenLoad(v) ELSE v

ElementValues(es, m) ==
    FoldLeft(LAMBDA acc, e : LET v == VisitElement(e, acc.m) IN R(Append(acc.r, v.r), v.m),
             R(<<>>, m), es)

ElementAs(x, t, m) ==
    CASE x.ty = t -> R(x, m)
      [] x.ty # t /\ IsNullConst(x) -> R(Const(t, Zero(t)), m)
      [] x.ty # t /\ ~IsNullConst(x) /\ t.k = "any" -> GenBox(x, x.ty, t, m)
      [] OTHER -> GenCast(x, t, m)

\* A spread sequence as a slice: of an array, a slice of its memory.
SpreadOf(x, t, m) ==
    LET p == GenCast(x, VoidPtr, m)
    IN  IF t.k = "array" THEN ArrayView(p.r.v, t.n, p.m) ELSE R(x.v, m)

AddElement(v, e, x, elem, m) ==
    LET src == SpreadOf(x, e.ty, m)
        val == ElementAs(x, elem, m)
    IN  IF e.k = "spread" THEN ArrayExtend(v, elem, src.r, src.m) ELSE ArrayPush(v, elem, val.r, val.m)

Count(es, xs, m) ==
    FoldLeft(LAMBDA n, i : n + (IF es[i].k # "spread" THEN 1
                                ELSE IF es[i].ty.k = "array" THEN es[i].ty.n
                                ELSE SliceLen(xs[i].v, m)), 0, [i \in DOMAIN es |-> i])

SliceLiteral(es, xs, elem, t, m) ==
    LET new == ArrayAlloc(elem, Count(es, xs, m), m)
    IN  R(Op(t, new.r),
          FoldLeft(LAMBDA acc, i : AddElement(new.r, es[i], xs[i], elem, acc),
                   new.m, [i \in DOMAIN es |-> i]))

ArrayLiteral(xs, elem, m) ==
    LET vs == FoldLeft(LAMBDA acc, x : LET v == ElementAs(x, elem, acc.m)
                                       IN  R(Append(acc.r, v.r.v), v.m), R(<<>>, m), xs)
    IN  Alloc(Op(ArrayOf(Len(xs), elem), AggV(vs.r)), vs.m)

VisitArrayLiteral(e, m) ==
    LET col == StripModifiers(CoreOf(StripModifiers(e.ty)))
        xs == ElementValues(e.c, m)
    IN  CASE col.k = "slice" -> SliceLiteral(e.c, xs.r, Inner(col), e.ty, xs.m)
          [] col.k = "array" -> ArrayLiteral(xs.r, Inner(col), xs.m)
          [] OTHER -> ArrayLiteral(xs.r, IF e.c = <<>> THEN AnyT ELSE e.c[1].ty, xs.m)

\* Keys and values are boxed as they come.
Boxed(r) == IF r.r.ty = AnyT THEN r ELSE GenBox(r.r, r.r.ty, AnyT, r.m)
VisitMapLiteral(e, m) ==
    LET new == MapCreate(m)
        entry(i, acc) ==
            LET k == Boxed(Expr(e.c[2 * i - 1], acc))
                v == Boxed(Expr(e.c[2 * i], k.m))
            IN  MapInsert(new.r, k.r.v, v.r.v, v.m)
    IN  R(Op(e.ty, new.r),
          FoldLeft(LAMBDA acc, i : entry(i, acc), new.m, [i \in 1..(Len(e.c) \div 2) |-> i]))

(***************************************************************************)
(* Indexing.                                                               *)
(***************************************************************************)
PointerKinds == {"ptr", "ref", "string", "map", "promise", "array", "slice"}

\* What an entry gives at type t: an optional number is the box itself.
DataOf(any) == Op(VoidPtr, IF any.v.k = "any" THEN any.v.s[1] ELSE Wild)
EntryAs(any, t, m) ==
    LET in == IF t.k = "opt" THEN Inner(t) ELSE t
        typed == GenCast(DataOf(any), Raw(in), m)
    IN  CASE in.k = "any" -> R(any, m)
          [] in.k \in PointerKinds -> GenCast(DataOf(any), in, m)
          [] OTHER -> IF t.k = "opt" THEN typed ELSE GenLoad(typed)

\* A missing entry is null, or a zero of the type.
EntryValue(get, t) ==
    LET any == GenLoad(R(Op(Raw(AnyT), get.r), get.m))
    IN  IF IsNull(get.r) THEN R(Op(t, Zero(t)), get.m) ELSE Phi(EntryAs(any.r, t, any.m), t)

LookUp(col, base, key) ==
    IF col.k = "map" THEN R(MapGet(base.v, key.r.v, key.m), key.m)
    ELSE AnyGet(base.v, key.r.v, key.m)
KeyOfType(col, x, m) == Boxed(IF col.k = "map" THEN Forced(x, col.in[1], m) ELSE R(x, m))
IndexEntry(e, col, base, idx) == EntryValue(LookUp(col, base, KeyOfType(col, idx.r, idx.m)), e.ty)

\* The place of an element; a sequence knows its length.
LengthOf(col, v, m) == IF col.k = "slice" THEN SliceLen(v, m) ELSE col.n
OutOfBounds(col, v, i, m) == IsSequence(col) /\ (i < 0 \/ i >= LengthOf(col, v, m))
FirstOf(col, v, m) == IF col.k = "slice" THEN SliceData(v, m) ELSE v
ElementPlace(e, col, v, i, m) ==
    R(Op(Raw(IF IsSequence(col) THEN Inner(col) ELSE StripModifiers(e.ty)),
         Moved(FirstOf(col, v, m), i)), Panic(m, OutOfBounds(col, v, i, m)))
IndexElement(e, col, base, idx) ==
    LET p == ElementPlace(e, col, base.v, IndexOf(idx.r), idx.m)
    IN  IF idx.m.lv THEN p ELSE GenLoad(p)

\* a?[i]: a number found is spilled, and the optional points there.
OptionalElement(e, r) ==
    LET spill == Alloc(r.r, r.m)
        boxed == GenBox(r.r, r.r.ty, e.ty, r.m)
    IN  CASE r.m.lv \/ r.r.ty = e.ty -> r
          [] ~r.m.lv /\ r.r.ty # e.ty /\ e.ty.k = "opt" /\ IsPrimitive(Inner(e.ty)) /\ r.r.ty.k # "ptr" ->
                 R(Op(e.ty, spill.r.v), spill.m)
          [] ~r.m.lv /\ r.r.ty # e.ty /\ e.ty.k = "any" -> GenCast(boxed.r, e.ty, boxed.m)
          [] OTHER -> GenCast(r.r, e.ty, r.m)

\* The address of a variable that holds a sequence is loaded, that of an
\* array is kept, except by an optional access.
IndexBase(e, b) ==
    IF b.r.ty.k = "ptr" /\ (Inner(b.r.ty).k # "array" \/ e.n = 1) THEN GenLoad(b) ELSE b

IndexValue(e, base, m) ==
    LET idx == RValue(e.c[2], m)
        core == StripModifiers(base.ty)
        col == CoreOf(StripModifiers(IF core.k = "ptr" THEN Inner(core) ELSE core))
    IN  IF col.k \in {"map", "any"} THEN IndexEntry(e, col, base, idx)
        ELSE IndexElement(e, col, base, idx)

VisitIndexExpr(e, m) ==
    LET b == LValue(e.c[1], m)
        base == IndexBase(e, b)
        v == IndexValue(e, base.r, base.m)
    IN  CASE e.n = 1 /\ IsNull(b.r.v) -> R(Op(e.ty, Zero(e.ty)), b.m)
          [] e.n = 1 /\ ~IsNull(b.r.v) -> OptionalElement(e, v)
          [] OTHER -> v

(***************************************************************************)
(* Calls.  An argument becomes one of the parameter's type.  What the      *)
(* program's own functions do is not modelled: they leave a mark and give  *)
(* back their first argument, or a value of their own.                     *)
(***************************************************************************)
ArgumentAs(r, t) ==
    CASE r.r.ty = t -> r
      [] r.r.ty # t /\ t.k = "any" -> GenBox(r.r, r.r.ty, t, r.m)
      [] r.r.ty # t /\ t.k # "any" /\ r.r.ty.k = "any" -> GenUnbox(r.r, t, r.m)
      [] OTHER -> GenCoerce(r.r, t, r.m)

Arguments(es, types, m) ==
    FoldLeft(LAMBDA acc, i :
                 LET v == RValue(es[i], acc.m)
                     a == IF i \in DOMAIN types THEN ArgumentAs(v, types[i]) ELSE v
                 IN  R(Append(acc.r, a.r), a.m), R(<<>>, m), [i \in DOMAIN es |-> i])

Called(e, xs, m) ==
    R(IF xs = <<>> THEN Op(e.ty, Signature[e.op].val) ELSE Op(e.ty, xs[1].v),
      [m EXCEPT !.out = IF m.dead THEN @ ELSE Append(@, e.op)])
VisitCall(e, m) ==
    LET args == Arguments(e.c, Signature[e.op].par, m) IN Called(e, args.r, args.m)

\* Functions of the library on slices and tables.
SliceCall(op, v, elem, xs, m) ==
    LET i == IndexOf(xs[2]) IN
    CASE op = "length" -> R(Op(Ty("i32"), IntV(SliceLen(v, m))), m)
      [] op = "push" -> R(Op(Ty("void"), Null), ArrayPush(v, elem, xs[2], m))
      [] op = "insert" -> R(Op(Ty("void"), Null), ArrayInsert(v, elem, i, xs[3], m))
      [] op = "extend" -> R(Op(Ty("void"), Null), ArrayExtend(v, elem, xs[2].v, m))
      [] op = "resize" -> R(Op(Ty("void"), Null), ArrayResize(v, elem, i, m))
      [] op = "clear" -> R(Op(Ty("void"), Null), ArrayClear(v, m))
      [] op = "reverse" -> R(Op(Ty("void"), Null), ArrayReverse(v, m))
      [] op = "pop" -> LET p == ArrayPop(v, m) IN R(Op(VoidPtr, p.r), p.m)
      [] op = "remove" -> LET p == ArrayRemove(v, i, m) IN R(Op(VoidPtr, p.r), p.m)
      [] op = "slice" -> LET p == ArraySlice(v, i, IndexOf(xs[3]), m) IN R(Op(VoidPtr, p.r), p.m)
      [] op = "clone" -> LET p == ArrayClone(v, elem, m) IN R(Op(VoidPtr, p.r), p.m)

MapCall(op, v, xs, m) ==
    CASE op = "length" -> R(Op(Ty("i32"), IntV(MapLength(v, m))), m)
      [] op = "has" -> R(Op(BoolT, BoolV(MapHas(v, xs[2].v, m))), m)
      [] op = "remove" -> R(Op(Ty("void"), Null), MapRemove(v, xs[2].v, m))
      [] op = "clear" -> R(Op(Ty("void"), Null), MapClear(v, m))

\* A pointer to the element found is read, unless it is taken for the element.
ReferenceKinds == {"string", "slice", "map", "any", "promise", "array"}
ResultAs(r, t) ==
    CASE r.r.ty = t \/ t.k = "void" -> r
      [] r.r.ty.k = "ptr" /\ t.k \notin ReferenceKinds \cup {"ptr", "void"} -> GenUnwrap(r.r, t, r.m)
      [] r.r.ty.k = "ptr" /\ t.k = "any" -> GenBox(r.r, r.r.ty, t, r.m)
      [] OTHER -> GenCast(r.r, t, r.m)

VisitBuiltin(e, m) ==
    LET args == Arguments(e.c, <<>>, m)
        col == CoreOf(StripModifiers(BehindCasts(e.c[1]).ty))
    IN  ResultAs(IF col.k = "map" THEN MapCall(e.op, DataOf(args.r[1]).v, args.r, args.m)
                 ELSE SliceCall(e.op, args.r[1].v, Inner(col), args.r, args.m), e.ty)

(***************************************************************************)
(* Names, literals, declarations.                                          *)
(***************************************************************************)
NameAs(r, t) ==
    CASE r.r.ty = t -> r
      [] r.r.ty # t /\ t.k = "any" -> GenBox(r.r, r.r.ty, t, r.m)
      [] r.r.ty # t /\ t.k # "any" /\ r.r.ty.k = "any" -> GenUnbox(r.r, t, r.m)
      [] OTHER -> GenCast(r.r, t, r.m)
VisitIdentifierExpr(e, m) ==
    IF m.lv THEN R(m.env[e.op], m) ELSE NameAs(GenLoad(R(m.env[e.op], m)), e.ty)

VisitLiteral(e) ==
    CASE e.k = "int" -> Const(e.ty, IntV(Wrap(e.ty, e.n)))
      [] e.k = "float" -> Const(e.ty, FltV(e.n))
      [] e.k = "bool" -> Const(BoolT, IntV(e.n))
      [] e.k = "str" -> TextOp(e.op)
      [] e.k = "null" -> Const(e.ty, Zero(e.ty))

Declared(name, t, v, m) ==
    LET slot == Alloc(Op(t, v), m)
    IN  R(Op(t, v), [slot.m EXCEPT !.env = [x \in DOMAIN @ \cup {name} |->
                                            IF x = name THEN slot.r ELSE @[x]]])

\* The initial value becomes one of the variable's type.
InitAs(x, t, m) ==
    CASE x.ty = t -> R(x, m)
      [] x.ty # t /\ IsConst(x, "int") /\ IsInteger(t) -> R(Retype(x, t), m)
      [] x.ty # t /\ IsConst(x, "flt") /\ IsFloat(t) -> R(Retype(x, t), m)
      [] x.ty # t /\ IsNullConst(x) -> R(Const(t, Zero(t)), m)
      [] x.ty # t /\ ~IsNullConst(x) /\ t.k = "any" -> Gen("anycast", x, t, m)
      [] x.ty.k = "ptr" /\ ~IsNullConst(x) /\ t.k \notin NoLoad \cup {"any"} -> GenUnwrap(x, t, m)
      [] x.ty.k = "any" /\ t.k # "any" /\ ~IsNullConst(x) -> GenUnbox(x, t, m)
      [] OTHER -> GenCoerce(x, t, m)

\* A pointer to an array keeps its own type.
ActualType(x, t) ==
    IF ResolveType(t).k = "ptr" /\ x.ty.k = "ptr" /\ Inner(x.ty).k = "array" THEN x.ty
    ELSE ResolveType(t)
InitValue(r, t) == LET v == InitAs(r.r, ActualType(r.r, t), r.m) IN As(v, t)

VisitVarDeclStmt(d, m) ==
    LET init == InitValue(Expr(Wanted(d.c[1], d.ty), m), d.ty)
    IN  IF d.c = <<>> THEN Declared(d.op, d.ty, Zero(d.ty), m)
        ELSE Declared(d.op, d.ty, init.r.v, init.m)

VisitExpr(e, m) ==
    CASE e.k \in {"int", "float", "str", "bool", "null"} -> R(VisitLiteral(e), m)
      [] e.k = "id" -> VisitIdentifierExpr(e, m)
      [] e.k = "bin" -> VisitBinaryExpr(e, m)
      [] e.k = "un" -> VisitUnaryExpr(e, m)
      [] e.k = "deref" -> VisitDerefExpr(e, m)
      [] e.k = "addr" -> VisitAddressOfExpr(e, m)
      [] e.k = "cond" -> VisitTernaryExpr(e, m)
      [] e.k = "cast" -> VisitCastExpr(e, m)
      [] e.k = "tmpl" -> VisitTemplate(e, m)
      [] e.k = "array" -> VisitArrayLiteral(e, m)
      [] e.k = "map" -> VisitMapLiteral(e, m)
      [] e.k = "index" -> VisitIndexExpr(e, m)
      [] e.k = "call" -> VisitCall(e, m)
      [] e.k = "builtin" -> VisitBuiltin(e, m)
      [] e.k = "decl" -> VisitVarDeclStmt(e, m)

Gen(k, x, t, m) == IF k = "expr" THEN VisitExpr(x, m) ELSE Conv(k, x, t, m)
=============================================================================
