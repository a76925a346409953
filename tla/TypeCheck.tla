----------------------------- MODULE TypeCheck -----------------------------
(***************************************************************************)
(* The type checker's visit of expressions and variable declarations       *)
(* (TypeChecker.cpp).  The checker gives every expression a type, rewrites *)
(* the tree (it puts casts in front of values that are converted without   *)
(* being asked for) and remembers whether it reported an error.            *)
(*                                                                         *)
(* An expression is a record: kind, operator or name, number, target type  *)
(* of a cast or declaration, the type the checker gave it, and children.   *)
(* Visit returns the rewritten tree and the checker's state:               *)
(*   vars   the type of each variable in scope   consts  those never set   *)
(*   init   the variables that have a value      locks   locks held        *)
(*   want   currentExpectedReturnType            lhs     isLHSOfAssignment *)
(***************************************************************************)
EXTENDS Types, FiniteSets, SequencesExt

Node(k, op, n, to, c) == [k |-> k, op |-> op, n |-> n, to |-> to, ty |-> NoType, c |-> c]
WithType(e, t) == [e EXCEPT !.ty = t]
Cast(t, e) == WithType(Node("cast", "", 0, t, <<e>>), t)
ConvertTo(t, e) == IF e.ty = t THEN e ELSE Cast(t, e)

Fresh == [vars |-> <<>>, consts |-> {}, init |-> {}, locks |-> {},
          want |-> NoType, lhs |-> FALSE, err |-> FALSE]
Unless(ok, s) == [s EXCEPT !.err = s.err \/ ~ok]

RECURSIVE Visit(_, _)

\* The expressions of a list, in order; the last state comes with the trees.
And(es, v) == [es |-> Append(es, v.e), s |-> v.s]
VisitAll(es, s) ==
    FoldLeft(LAMBDA acc, e : And(acc.es, Visit(e, acc.s)), [es |-> <<>>, s |-> s], es)

Result(e, t, s) == [e |-> WithType(e, t), s |-> s]

(***************************************************************************)
(* Literals and names.                                                     *)
(***************************************************************************)
LiteralType(e) ==
    CASE e.k = "int" -> Ty(IF e.op \in (Signed \cup Unsigned) THEN e.op ELSE "i32")
      [] e.k = "float" -> Ty(IF e.op \in Floats THEN e.op ELSE "f64")
      [] e.k = "str" -> Ty("string")
      [] OTHER -> Ty(e.k)

VisitIdentifier(e, s) ==
    IF e.op \notin DOMAIN s.vars THEN Result(e, Ty("any"), Unless(FALSE, s))
    ELSE Result(e, s.vars[e.op], Unless(s.lhs \/ e.op \in s.init, s))

(***************************************************************************)
(* Array literals: the elements take the type the context expects, or the  *)
(* common type of all of them.                                             *)
(***************************************************************************)
IsSpread(e) == e.k = "un" /\ e.op = "..."

VisitElements(e, s, want, v) ==
    LET common == IF want # NoType THEN want
                  ELSE IF v.es = <<>> THEN Ty("any")
                  ELSE FoldLeft(LAMBDA t, x : CommonSuperType(t, x.ty),
                                Head(v.es).ty, Tail(v.es))
        slice == \/ \E i \in DOMAIN v.es : IsSpread(v.es[i])
                 \/ s.want # NoType /\ LogicalElement(s.want) # NoType /\ IsDynamic(s.want)
    IN  Result([e EXCEPT !.c = [i \in DOMAIN v.es |-> ConvertTo(common, v.es[i])]],
               IF slice THEN Of("slice", common) ELSE ArrayOf(Len(v.es), common),
               Unless(want = NoType \/ \A i \in DOMAIN v.es : IsCompatible(want, v.es[i].ty),
                      [v.s EXCEPT !.want = s.want]))

VisitArrayLiteral(e, s, want) ==
    VisitElements(e, s, want, VisitAll(e.c, [s EXCEPT !.want = want]))

(***************************************************************************)
(* Table literals: keys and values alternate among the children.  A key    *)
(* that is a literal may not be given twice.                               *)
(***************************************************************************)
Half(seq, r) == [i \in 1..(Len(seq) \div 2) |-> seq[2 * i - r]]

DuplicateKey(keys) ==
    \E i, j \in DOMAIN keys :
        /\ i < j /\ keys[i].k = keys[j].k
        /\ keys[i].k \in {"str", "int", "float", "bool", "char", "null"}
        /\ keys[i].n = keys[j].n /\ (keys[i].k = "str" => keys[i].op = keys[j].op)

VisitMapEntries(e, s, wants) ==
    FoldLeft(LAMBDA acc, i :
                 And(acc.es, Visit(e.c[i], [acc.s EXCEPT !.want = wants[((i + 1) % 2) + 1]])),
             [es |-> <<>>, s |-> s], [i \in DOMAIN e.c |-> i])

CommonOf(want, es) ==
    LET first == IF want # NoType THEN want ELSE Head(es).ty
    IN  FoldLeft(LAMBDA t, x : CommonSuperType(t, x.ty), first, es)

ConvertMap(e, s, wants, v) ==
    LET key == CommonOf(wants[1], Half(v.es, 1))
        val == CommonOf(wants[2], Half(v.es, 0))
    IN  Result([e EXCEPT !.c = [i \in DOMAIN v.es |->
                                ConvertTo(IF i % 2 = 1 THEN key ELSE val, v.es[i])]],
               MapOf(key, val),
               Unless(/\ ~DuplicateKey(Half(e.c, 1))
                      /\ \A i \in DOMAIN v.es :
                            \/ wants[1] = NoType
                            \/ IsCompatible(wants[IF i % 2 = 1 THEN 1 ELSE 2], v.es[i].ty),
                      [v.s EXCEPT !.want = s.want]))

VisitMapLiteral(e, s) ==
    LET wants == IF s.want.k = "map" THEN s.want.in ELSE <<NoType, NoType>> IN
    IF e.c = <<>>
    THEN Result(e, IF s.want.k = "map" THEN s.want ELSE MapOf(Ty("any"), Ty("any")), s)
    ELSE ConvertMap(e, s, wants, VisitMapEntries(e, s, wants))

(***************************************************************************)
(* Assignment.  The target must be mutable: a variable that is no constant,*)
(* or a place reached through something declared mut or lock.              *)
(***************************************************************************)
RECURSIVE BaseOf(_)
BaseOf(e) == IF e.k \in {"index", "member"} THEN BaseOf(e.c[1]) ELSE e

MutablePlace(e, s) ==
    LET base == BaseOf(e) IN
    \/ HasMutOrLock(e.ty)
    \/ base.k = "un" /\ base.op = "*" /\ HasMutOrLock(base.c[1].ty)
    \/ /\ base.k = "id"
       /\ IF IsPtrOrRef(s.vars[base.op]) THEN HasMutOrLock(s.vars[base.op])
          ELSE ~HasView(s.vars[base.op]) /\ base.op \notin s.consts
    \/ base.k \in {"call", "cast"}

\* Lines 1513 to 1601: only "=" and "^=" look at the target.
CheckTarget(l, s) ==
    LET base == BaseOf(l)
        s1 == IF base.k = "id" THEN [s EXCEPT !.init = @ \cup {base.op}] ELSE s
    IN  Unless(IF l.k = "id" THEN l.op \notin s.consts ELSE MutablePlace(l, s), s1)

\* A locked value does not leave its lock, a view does not become mutable.
QualifiersKept(dst, src, e, s) ==
    LET raw == UnwrapConcurrency(dst) IN
    IF HasLock(src) /\ ~HasLock(dst) THEN e.k = "id" /\ e.op \in s.locks
    ELSE ~(/\ HasView(src) /\ ~HasView(dst) /\ ~HasLock(dst)
           /\ ~(IsNumericOrChar(raw) \/ raw.k \in {"bool", "string"}))

\* The value is converted to the target's type by a cast the checker adds.
VisitAssign(e, l, r, s) ==
    LET ok == IsCompatible(l.ty, r.ty) IN
    Result([e EXCEPT !.c = <<l, IF ok THEN ConvertTo(l.ty, r) ELSE r>>], l.ty,
           Unless(ok /\ QualifiersKept(l.ty, r.ty, r, s), s))

(***************************************************************************)
(* Binary operators.                                                       *)
(***************************************************************************)
MathOps == {"+", "-", "*", "/", "%"}
CompareOps == {"==", "!=", "<", ">", "<=", ">="}
BitOps == {"&", "|", "^", "<<", ">>"}
Compound == {"+=", "-=", "*=", "/=", "%=", "&=", "|=", "^=", "<<=", ">>="}

MathType(op, l, r) ==
    LET lt == UnwrapConcurrency(l.ty)  rt == UnwrapConcurrency(r.ty) IN
    IF op = "+" /\ "string" \in {l.ty.k, r.ty.k} THEN Ty("string")
    ELSE IF op \in {"+", "-"} /\ lt.k = "ptr" /\ IsIntegerOrChar(rt) THEN l.ty
    ELSE IF op = "+" /\ rt.k = "ptr" /\ IsIntegerOrChar(lt) THEN r.ty
    ELSE IF op = "-" /\ lt.k = "ptr" /\ rt.k = "ptr" THEN Ty("i64")
    ELSE IF IsNumericOrChar(lt) /\ IsNumericOrChar(rt) THEN CommonSuperType(l.ty, r.ty)
    ELSE Ty("any")

MathAllowed(op, l, r) ==
    LET lt == UnwrapConcurrency(l.ty)  rt == UnwrapConcurrency(r.ty) IN
    \/ op = "+" /\ "string" \in {l.ty.k, r.ty.k}
    \/ op \in {"+", "-"} /\ lt.k = "ptr" /\ IsIntegerOrChar(rt)
    \/ op = "+" /\ rt.k = "ptr" /\ IsIntegerOrChar(lt)
    \/ op = "-" /\ lt.k = "ptr" /\ rt.k = "ptr" /\ IsCompatible(lt, rt)
    \/ /\ IsNumericOrChar(lt) /\ IsNumericOrChar(rt)
       /\ ~(op \in {"/", "%"} /\ r.k \in {"int", "float"} /\ r.n = 0)

ShiftAllowed(op, l, r) ==
    LET t == UnwrapConcurrency(l.ty) IN
    ~(op \in {"<<", ">>"} /\ r.k = "int" /\ r.n >= Bits[t.k])

\* Both operands have been visited.
BinaryType(e, l, r, s) ==
    CASE e.op \notin {"=", "^="} /\ "any" \in {l.ty.k, r.ty.k} ->
             Result(e, Ty("any"), s)
      [] e.op = "??" ->
             IF l.ty.k # "opt" THEN Result(e, l.ty, s)
             ELSE Result(e, r.ty, Unless(\/ IsCompatible(Inner(l.ty), r.ty)
                                         \/ IsCompatible(l.ty, r.ty), s))
      [] e.op \in MathOps ->
             Result(e, MathType(e.op, l, r), Unless(MathAllowed(e.op, l, r), s))
      [] e.op \in CompareOps ->
             Result(e, Ty("bool"), Unless(IsCompatible(l.ty, r.ty) \/ IsCompatible(r.ty, l.ty), s))
      [] e.op \in {"&&", "||"} ->
             Result(e, Ty("bool"), Unless(/\ UnwrapConcurrency(l.ty).k = "bool"
                                          /\ UnwrapConcurrency(r.ty).k = "bool", s))
      [] e.op = "=" -> VisitAssign(e, l, r, CheckTarget(l, s))
      [] e.op \in BitOps ->
             IF ~(IsIntegerOrChar(l.ty) /\ IsIntegerOrChar(r.ty))
             THEN Result(e, Ty("any"), Unless(FALSE, s))
             ELSE Result(e, CommonSuperType(UnwrapConcurrency(l.ty), UnwrapConcurrency(r.ty)),
                         Unless(ShiftAllowed(e.op, l, r), s))
      [] e.op = "^=" -> Result(e, l.ty, CheckTarget(l, s))
      [] OTHER -> Result(e, l.ty, s)

VisitRight(e, l, s) ==
    LET want == IF e.op \in {"=", "^="} /\ l.e.ty.k # "any" THEN l.e.ty ELSE s.want
        r == Visit(e.c[2], [l.s EXCEPT !.lhs = s.lhs, !.want = want])
    IN  BinaryType([e EXCEPT !.c = <<l.e, r.e>>], l.e, r.e, [r.s EXCEPT !.want = s.want])

VisitBinary(e, s) ==
    VisitRight(e, Visit(e.c[1], [s EXCEPT !.lhs = @ \/ e.op = "="]), s)

(***************************************************************************)
(* Unary operators.                                                        *)
(***************************************************************************)
IsLValue(e) ==
    \/ e.k \in {"id", "member", "index", "call", "cast"}
    \/ e.k = "un" /\ e.op = "*"

AddressType(o, s) ==
    LET fixed == \/ o.ty.k \in {"const", "view"}
                 \/ BaseOf(o).k = "id" /\ BaseOf(o).op \in s.consts
    IN  Of("ptr", IF fixed \/ HasMutOrLock(o.ty) THEN o.ty ELSE Of("mut", o.ty))

PointeeType(t) ==
    LET raw == UnwrapConcurrency(Inner(UnwrapConcurrency(t))) IN
    IF IsNumericOrChar(raw) \/ raw.k = "bool" THEN raw ELSE Inner(UnwrapConcurrency(t))

UnaryType(e, o, s) ==
    CASE e.op = "..." ->
             LET t == UnwrapConcurrency(o.ty) IN
             IF IsSequence(t) THEN Result(e, Inner(t), s) ELSE Result(e, Ty("any"), Unless(FALSE, s))
      [] e.op = "!" -> Result(e, Ty("bool"), s)
      [] e.op = "-" -> Result(e, o.ty, Unless(IsNumericOrChar(o.ty), s))
      [] e.op \in {"++", "--"} ->
             Result(e, o.ty, Unless(/\ IsIntegerOrChar(o.ty) \/ IsFloat(o.ty)
                                    /\ IsLValue(o)
                                    /\ o.k = "id" => o.op \notin s.consts, s))
      [] e.op = "~" -> Result(e, o.ty, Unless(IsIntegerOrChar(o.ty), s))
      [] e.op = "&" -> Result(e, AddressType(o, s), s)
      [] e.op = "*" ->
             IF UnwrapConcurrency(o.ty).k # "ptr" THEN Result(e, Ty("any"), Unless(FALSE, s))
             ELSE Result(e, PointeeType(o.ty),
                         Unless(HasLock(o.ty) => o.k = "id" /\ o.op \in s.locks, s))

(***************************************************************************)
(* Indexing.  a?[i] and an optional a give an optional element.            *)
(***************************************************************************)
ElementType(t, idx) ==
    CASE IsSequence(t) -> Inner(t)
      [] PointsToSequence(t) -> ElementPointer(Inner(t))
      [] t.k = "ptr" /\ ~PointsToSequence(t) -> Inner(t)
      [] t.k = "map" -> t.in[2]
      [] t.k = "string" -> Ty("char")
      [] OTHER -> Ty("any")

IndexAllowed(t, idx) ==
    CASE t.k = "map" -> IsCompatible(t.in[1], idx)
      [] IsSequence(t) \/ t.k \in {"ptr", "string"} -> IsIntegerOrChar(idx)
      [] OTHER -> t.k = "any"

IndexType(e, a, i, s) ==
    LET optional == e.n = 1 \/ a.ty.k = "opt"
        t == UnwrapConcurrency(IF a.ty.k = "opt" THEN Inner(a.ty) ELSE a.ty)
        el == ElementType(t, i.ty)
    IN  IF a.ty.k = "opt" /\ e.n = 0 THEN Result(e, Ty("any"), Unless(FALSE, s))
        ELSE Result(e, IF optional /\ el.k \notin {"any", "opt"} THEN Of("opt", el) ELSE el,
                    Unless(IndexAllowed(t, i.ty), s))

VisitIndex(e, s, a) ==
    LET i == Visit(e.c[2], [a.s EXCEPT !.lhs = FALSE])
    IN  IndexType([e EXCEPT !.c = <<a.e, i.e>>], a.e, i.e, [i.s EXCEPT !.lhs = s.lhs])

(***************************************************************************)
(* Casts, the conditional operator, calls of the program's own functions.  *)
(***************************************************************************)
CastType(e, v) == Result([e EXCEPT !.c = <<v.e>>], e.to, Unless(IsCastAllowed(v.e.ty, e.to), v.s))

BitcastType(e, v) ==
    LET src == UnwrapConcurrency(v.e.ty)  dst == UnwrapConcurrency(e.to) IN
    Result([e EXCEPT !.c = <<v.e>>], e.to,
           Unless(~(\/ IsPtrOrRef(src) /\ IsIntegerOrChar(dst)
                    \/ IsIntegerOrChar(src) /\ IsPtrOrRef(dst)), v.s))

TernaryType(e, v) ==
    LET cond == UnwrapConcurrency(v.es[1].ty) IN
    Result([e EXCEPT !.c = v.es], CommonSuperType(v.es[2].ty, v.es[3].ty),
           Unless(cond.k \in {"bool", "ptr"} \/ IsInteger(cond) \/ IsFloat(cond), v.s))

CallType(e, v) ==
    LET par == Signature[e.op].par IN
    Result([e EXCEPT !.c = [i \in DOMAIN v.es |-> ConvertTo(par[i], v.es[i])]],
           Signature[e.op].ret,
           Unless(\A i \in DOMAIN v.es : IsCompatible(par[i], v.es[i].ty), v.s))

\* Functions of the library on slices.  The elements given to push and insert
\* are converted; an element of a slice of any is left as it is.
SliceArgument(t) ==
    LET u == UnwrapConcurrency(t)
        v == IF IsPtrOrRef(u) THEN UnwrapConcurrency(Inner(u)) ELSE u
    IN  IF v.k = "opt" THEN UnwrapConcurrency(Inner(v)) ELSE v
ElementGiven(elem, e) == IF elem.k = "any" THEN e ELSE ConvertTo(elem, e)

SliceCallAllowed(op, elem, ts) ==
    CASE op = "push" -> IsCompatible(elem, ts[2])
      [] op = "insert" -> IsIntegerOrChar(ts[2]) /\ IsCompatible(elem, ts[3])
      [] op \in {"remove", "resize"} -> IsIntegerOrChar(ts[2])
      [] op = "extend" -> /\ SliceArgument(ts[2]).k = "slice"
                          /\ IsCompatible(elem, Inner(SliceArgument(ts[2])))
      [] op = "slice" -> \A i \in {2, 3} : IsCompatible(Ty("i32"), ts[i])
      [] OTHER -> TRUE
SliceCallType(op, t) ==
    CASE op \in {"pop", "remove"} -> Inner(t)
      [] op \in {"slice", "clone"} -> t
      [] op = "length" -> Ty("i32")
      [] OTHER -> Ty("void")

SliceBuiltin(e, t, es, s) ==
    LET at == CASE e.op = "push" -> 2 [] e.op = "insert" -> 3 [] OTHER -> 0
    IN  IF t.k # "slice" THEN Result(e, Ty("any"), Unless(FALSE, s))
        ELSE Result([e EXCEPT !.c = [i \in DOMAIN es |-> IF i = at THEN ElementGiven(Inner(t), es[i])
                                                         ELSE es[i]]],
                    SliceCallType(e.op, t),
                    Unless(SliceCallAllowed(e.op, Inner(t), [i \in DOMAIN es |-> es[i].ty]), s))

\* Functions of the library on tables take their arguments as any.
MapBuiltin(e, es, s) ==
    Result([e EXCEPT !.c = [i \in DOMAIN es |-> ConvertTo(Ty("any"), es[i])]],
           CASE e.op = "has" -> Ty("bool") [] e.op = "length" -> Ty("i32") [] OTHER -> Ty("void"),
           Unless(e.op \in {"length", "has", "remove", "clear"}, s))

\* remove and clear of an optional table are taken for the ones of slices.
BuiltinType(e, v) ==
    LET t == SliceArgument(v.es[1].ty)
    IN  IF t.k = "map" /\ (e.op \in {"remove", "clear"} => UnwrapConcurrency(v.es[1].ty).k # "opt")
        THEN MapBuiltin(e, v.es, v.s) ELSE SliceBuiltin(e, t, v.es, v.s)

(***************************************************************************)
(* Declarations.  n = 1 marks a constant.  The initializer is visited with *)
(* the variable's type as the expected one.                                *)
(***************************************************************************)
Declare(d, s) ==
    [s EXCEPT !.vars = [x \in DOMAIN s.vars \cup {d.op} |-> IF x = d.op THEN d.to ELSE s.vars[x]],
              !.consts = IF d.n = 1 THEN @ \cup {d.op} ELSE @,
              !.init = IF d.c # <<>> \/ d.to.k = "array" THEN @ \cup {d.op} ELSE @ \ {d.op},
              !.err = @ \/ d.op \in DOMAIN s.vars]

\* Mutant of Initialize: the type of the initializer is not looked at.
InitializeUnchecked(d, v) ==
    [e |-> WithType([d EXCEPT !.c = <<ConvertTo(d.to, v.e)>>], d.to), s |-> Declare(d, v.s)]

Initialize(d, v) ==
    LET ok == IsCompatible(d.to, v.e.ty) IN
    [e |-> WithType([d EXCEPT !.c = <<IF ok THEN ConvertTo(d.to, v.e) ELSE v.e>>], d.to),
     s |-> Declare(d, Unless(ok /\ QualifiersKept(d.to, v.e.ty, v.e, v.s), v.s))]

Restored(v, want) == [v EXCEPT !.s.want = want]
VisitVariableDecl(d, s) ==
    IF d.c = <<>> THEN [e |-> WithType(d, d.to), s |-> Declare(d, s)]
    ELSE LET want == IF d.to.k = "any" THEN s.want ELSE d.to
         IN  Initialize(d, Restored(Visit(d.c[1], [s EXCEPT !.want = want]), s.want))

Visit(e, s) ==
    CASE e.k = "decl" -> VisitVariableDecl(e, s)
      [] e.k \in {"int", "float", "str", "bool", "char", "null"} -> Result(e, LiteralType(e), s)
      [] e.k = "id" -> VisitIdentifier(e, s)
      [] e.k = "bin" -> VisitBinary(e, s)
      [] e.k = "un" -> LET v == Visit(e.c[1], s)
                       IN  UnaryType([e EXCEPT !.c = <<v.e>>], v.e, v.s)
      [] e.k = "array" ->
             VisitArrayLiteral(e, s, IF s.want = NoType THEN NoType ELSE LogicalElement(s.want))
      [] e.k = "map" -> VisitMapLiteral(e, s)
      [] e.k = "index" -> VisitIndex(e, s, Visit(e.c[1], s))
      [] e.k = "cast" -> CastType(e, Visit(e.c[1], s))
      [] e.k = "bitcast" -> BitcastType(e, Visit(e.c[1], s))
      [] e.k = "cond" -> TernaryType(e, VisitAll(e.c, s))
      [] e.k = "tmpl" -> LET v == VisitAll(e.c, s) IN Result([e EXCEPT !.c = v.es], Ty("string"), v.s)
      [] e.k = "call" -> CallType(e, VisitAll(e.c, s))
      [] e.k = "builtin" -> BuiltinType(e, VisitAll(e.c, s))

CheckProgram(p) == VisitAll(p, Fresh)
=============================================================================
