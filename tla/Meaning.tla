------------------------------ MODULE Meaning ------------------------------
(***************************************************************************)
(* What a checked program means, told without the compiler: Eval gives the *)
(* value of an expression of the type checker's tree and the state after   *)
(* it.  Numbers are as large as their type, nothing is boxed, an array is  *)
(* a value, a slice or a table is a number in the heap, a pointer is the   *)
(* place it points to, and what an any holds comes with its type.          *)
(*                                                                         *)
(* The state: vars and heap; out, the calls made so far; shown, the texts  *)
(* of the templates; dead, after a panic; stuck, when an operation on a    *)
(* plain type meets null; open, where the language leaves the result open  *)
(* (a number that does not fit, an any that is indexed); faults, the names *)
(* V1 to V29 of what the compiler is known to do otherwise than the        *)
(* Handbook, the tests or the types say (README, section 5), and "stray"   *)
(* for the program's own: a pointer that is used out of its sequence.      *)
(***************************************************************************)
EXTENDS Backend

Start == [vars |-> <<>>, heap |-> <<>>, out |-> <<>>, shown |-> <<>>,
          dead |-> FALSE, open |-> FALSE, faults |-> {}, stuck |-> FALSE]
E(v, s) == [v |-> v, s |-> s]
Settled(s) == ~s.open /\ s.faults = {} /\ ~s.stuck
Open(when, s) == [s EXCEPT !.open = @ \/ (when /\ ~s.dead)]
Fault(name, when, s) == [s EXCEPT !.faults = IF when /\ ~s.dead THEN @ \cup {name} ELSE @]
Stuck(bad, s) == [s EXCEPT !.stuck = @ \/ (bad /\ Settled(s) /\ ~s.dead)]
Stop(bad, s) == [s EXCEPT !.dead = @ \/ bad]

Dyn(t, v) == V("dyn", 0, 0, <<t, v>>)
Plain(v) == IF v.k = "dyn" THEN v.s[2] ELSE v
IsNumber(t) == IsInteger(t) \/ IsFloat(t) \/ t.k \in {"bool", "char"}
FitsIn(t, v) == v.k = "int" => Wrap(t, v.n) = v.n

RECURSIVE ZeroValue(_)
ZeroValue(t) ==
    CASE t.k = "array" -> AggV([i \in 1..t.n |-> ZeroValue(Inner(t))])
      [] IsFloat(t) -> FltV(0)
      [] IsNumber(t) /\ ~IsFloat(t) -> IntV(0)
      [] OTHER -> Null

(***************************************************************************)
(* Texts.                                                                  *)
(***************************************************************************)
RECURSIVE TextOf(_, _, _)
ElementTexts(t, vs, heap) == [i \in DOMAIN vs |-> TextOf(t, vs[i], heap)]
Listed(texts) ==
    FoldLeft(LAMBDA acc, i : acc \o (IF i > 1 THEN ", " ELSE "") \o texts[i], "",
             [i \in DOMAIN texts |-> i])
EntryTexts(t, entries, heap) ==
    [i \in DOMAIN entries |-> TextOf(t.in[1], entries[i].key, heap) \o ": "
                              \o TextOf(t.in[2], entries[i].val, heap)]

TextOf(t, v, heap) ==
    IF v = Null THEN "null" ELSE
    CASE t.k = "bool" -> IF v.n = 1 THEN "true" ELSE "false"
      [] t.k \in {"char", "i8"} -> "'" \o ToString(v.n)
      [] IsFloat(t) -> ToString(v.n) \o "h"
      [] IsInteger(t) /\ t.k # "i8" -> ToString(v.n)
      [] t.k = "string" -> v.s[1]
      [] t.k = "opt" -> TextOf(Inner(t), v, heap)
      [] t.k = "any" -> TextOf(v.s[1], v.s[2], heap)
      [] t.k = "array" -> "[" \o Listed(ElementTexts(Inner(t), v.s, heap)) \o "]"
      [] t.k = "slice" -> "[" \o Listed(ElementTexts(Inner(t), heap[v.n], heap)) \o "]"
      [] t.k = "map" -> "{ " \o Listed(EntryTexts(t, heap[v.n], heap)) \o " }"
      [] OTHER -> "?"

\* V16: the text of an optional that holds no number is the text of its address.
Unreadable(t, v) == t.k = "opt" /\ v # Null /\ ~IsNumber(Inner(t))

(***************************************************************************)
(* Conversions.                                                            *)
(***************************************************************************)
NewRef(k, contents, s) ==
    E(V(k, Len(s.heap) + 1, 0, <<>>), [s EXCEPT !.heap = Append(@, contents)])

ConvertNumber(v, f, t, s) ==
    CASE IsFloat(t) -> E(IF v.k = "int" THEN FltV(2 * v.n) ELSE v, s)
      [] IsFloat(f) /\ ~IsFloat(t) -> E(IntV(Quot(v.n, 2)), Open(~FitsIn(t, IntV(Quot(v.n, 2))), s))
      [] OTHER -> E(IntV(Wrap(t, v.n)), s)

RECURSIVE ConvertValue(_, _, _, _)
\* A cast looks at the tag: "tag mismatch causes CastException" (Handbook.md 350),
\* and so does null (pipe_and_cast_errors.mox 74 to 90).  V21: unboxValue has no
\* such check.  V2: what is given to an optional is read through the data pointer.
FromAny(v, t, s) ==
    LET held == IF t.k = "opt" THEN Inner(t) ELSE t
        mismatch == IF v = Null THEN t.k # "opt" ELSE v.s[1] # held
    IN  E(IF mismatch THEN ZeroValue(t) ELSE Plain(v),
          Stop(mismatch, Fault("V2", t.k = "opt", Fault("V21", mismatch, s))))

\* A pointer, a sequence or a table keeps the types it leads to.
SameInside(f, t) ==
    \A i \in DOMAIN f.in : UnwrapConcurrency(f.in[i]) = UnwrapConcurrency(t.in[i])

ConvertValue(v, f, t, s) ==
    CASE f = t \/ t.k = "void" -> E(v, s)
      [] f # t /\ t.k = "string" -> E(StrV(TextOf(f, v, s.heap)), Fault("V16", Unreadable(f, v), s))
      [] f # t /\ t.k = "any" -> 
             E(IF v = Null THEN v ELSE Dyn(IF f.k = "opt" THEN Inner(f) ELSE f, v), Fault("V16", Unreadable(f, v), s))
      [] f.k = "any" /\ t.k \notin {"any", "string"} -> FromAny(v, t, s)
      [] t.k = "opt" /\ f.k # "any" /\ f # t ->
             IF v = Null THEN E(v, s)
             ELSE IF f.k = "opt" THEN ConvertValue(v, Inner(f), Inner(t), s)
             ELSE ConvertValue(v, f, Inner(t), Fault("V1", f # Inner(t), s))
      [] f.k = "opt" /\ t.k \notin {"opt", "any", "string"} ->
             IF v = Null THEN E(ZeroValue(t), Stop(TRUE, Fault("V28", TRUE, s))) ELSE ConvertValue(v, Inner(f), t, s)
      [] f.k = "array" /\ t.k = "slice" -> NewRef("slice", v.s, Fault("V14", Inner(f) # Inner(t), s))
      [] f.k = t.k /\ t.k \in {"ptr", "slice", "array", "map"} /\ f # t ->
             E(IF SameInside(f, t) THEN v ELSE ZeroValue(t),
               Fault(IF t.k = "ptr" THEN "V13" ELSE "V14", ~SameInside(f, t), s))
      [] IsNumber(f) /\ IsNumber(t) /\ f # t -> ConvertNumber(v, f, t, s)
      [] OTHER -> E(v, s)

Convert(v, f, t, s) == ConvertValue(v, UnwrapConcurrency(f), UnwrapConcurrency(t), s)

(***************************************************************************)
(* Places.                                                                 *)
(***************************************************************************)
VarPlace(x) == V("var", 0, 0, <<x>>)
InArray(x, i) == V("in", 0, i, <<x>>)
InSlice(id, i) == V("at", id, i, <<>>)
InTable(id, key) == V("entry", id, 0, <<key>>)

EntryOf(entries, key) ==
    LET found == {i \in DOMAIN entries : entries[i].key = key}
    IN  IF found = {} THEN 0 ELSE CHOOSE i \in found : TRUE

Missing(p, s) == p.k = "entry" /\ EntryOf(s.heap[p.n], p.s[1]) = 0

GetPlace(p, t, s) ==
    CASE p.k = "var" -> s.vars[p.s[1]]
      [] p.k = "in" -> s.vars[p.s[1]].s[p.o + 1]
      [] p.k = "at" -> s.heap[p.n][p.o + 1]
      [] p.k = "entry" /\ ~Missing(p, s) -> s.heap[p.n][EntryOf(s.heap[p.n], p.s[1])].val
      [] OTHER -> ZeroValue(t)

\* To read the entry of a key that a table does not have is a panic (Handbook.md
\* 1042 to 1044, runtime_panics.mox 18, panic.c 102).  V22: visitIndexExpr gives
\* a zero instead.  So is going through null (Handbook.md 1038 to 1040).  V28: the
\* compiled code reads and writes through null pointers without a look.
ReadPlace(p, t, s) ==
    LET missing == Missing(p, s)
    IN  E(GetPlace(p, t, s), Stop(missing \/ p = Null, Fault("V22", missing, Fault("V28", p = Null, s))))

\* "Arrays and Tables are Value Types" (core_semantics_and_dispatch.mox 33; of
\* slices language_spec_final.mox 45 says the contrary).  V27: tables are shared.
HoldersOf(v, s) ==
    {<<"var", x>> : x \in {y \in DOMAIN s.vars : Plain(s.vars[y]) = v}}
    \cup UNION {{<<"heap", i, j>> : j \in {k \in DOMAIN s.heap[i] :
                    Plain(IF "val" \in DOMAIN s.heap[i][k] THEN s.heap[i][k].val ELSE s.heap[i][k]) = v}}
                : i \in DOMAIN s.heap}
TableShared(id, s) == Cardinality(HoldersOf(V("map", id, 0, <<>>), s)) > 1

\* Pointer arithmetic may leave the sequence it points into.
Outside(p, s) ==
    \/ p.k = "in" /\ p.o \notin 0..(Len(s.vars[p.s[1]].s) - 1)
    \/ p.k = "at" /\ p.o \notin 0..(Len(s.heap[p.n]) - 1)

PutEntry(entries, key, v) ==
    LET at == EntryOf(entries, key)
    IN  IF at = 0 THEN Append(entries, [key |-> key, val |-> v]) ELSE [entries EXCEPT ![at].val = v]
PutPlace(p, v, s) ==
    IF s.dead THEN s
    ELSE IF Outside(p, s) THEN Fault("stray", TRUE, s)
    ELSE CASE p.k = "var" -> [s EXCEPT !.vars = [@ EXCEPT ![p.s[1]] = v]]
           [] p.k = "in" -> [s EXCEPT !.vars = [@ EXCEPT ![p.s[1]] =
                                                  AggV([@.s EXCEPT ![p.o + 1] = v])]]
           [] p.k = "at" -> [s EXCEPT !.heap = [@ EXCEPT ![p.n] = [@ EXCEPT ![p.o + 1] = v]]]
           [] p.k = "entry" -> [Fault("V27", TableShared(p.n, s), s) EXCEPT
                                    !.heap = [@ EXCEPT ![p.n] = PutEntry(@, p.s[1], v)]]
           [] OTHER -> Stop(TRUE, Fault("V28", TRUE, s))

RECURSIVE Eval(_, _)
EvalAll(es, s) ==
    FoldLeft(LAMBDA acc, e : LET x == Eval(e, acc.s) IN [vs |-> Append(acc.vs, x.v), s |-> x.s],
             [vs |-> <<>>, s |-> s], es)

RECURSIVE PlaceIn(_, _)
ElementAt(base, b, i, s) ==
    LET len == IF b.k = "agg" THEN Len(b.s) ELSE IF b = Null THEN 0 ELSE Len(s.heap[b.n])
        out == i < 0 \/ i >= len
    IN  CASE out -> E(Null, Stop(TRUE, Stuck(b = Null, s)))
          [] b.k = "slice" /\ ~out -> E(InSlice(b.n, i), s)
          [] OTHER -> E(InArray(base.s[1], i), s)

IndexPlace(e, base, s) ==
    LET read == ReadPlace(base, e.c[1].ty, s)
        b == read.v
        i == Eval(e.c[2], read.s)
        key == UnwrapConcurrency(e.c[1].ty).in[1]
    IN  IF b.k = "map"
        THEN E(InTable(b.n, Convert(i.v, e.c[2].ty, key, i.s).v),
               Fault("V12", key.k = "any" /\ e.c[2].ty.k # "any", i.s))
        ELSE ElementAt(base, b, i.v.n, i.s)

\* A sequence that is no variable is put where it can be pointed to.
PlaceIn(e, s) ==
    LET v == Eval(e, s)
        b == PlaceIn(e.c[1], s)
    IN  CASE e.k = "id" -> E(VarPlace(e.op), s)
          [] e.k = "un" /\ e.op = "*" -> Eval(e.c[1], s)
          [] e.k = "index" -> IndexPlace(e, b.v, b.s)
          [] OTHER -> E(InSlice(Len(v.s.heap) + 1, 0), [v.s EXCEPT !.heap = Append(@, <<v.v>>)])

(***************************************************************************)
(* Operators.  Operands of two types are compared and combined when each   *)
(* can be written in the type of the other one.                            *)
(***************************************************************************)
OperandType(t, other) == IF t.k = "any" THEN other ELSE IF t.k = "opt" THEN Inner(t) ELSE t
SameKind(lt, rt) ==
    lt = rt \/ IsFloat(lt) \/ IsFloat(rt) \/ lt.k = "string" \/ rt.k = "string"
Agree(lt, rt, a, b) ==
    SameKind(lt, rt) \/ (IsNumber(lt) /\ IsNumber(rt) /\ FitsIn(lt, b) /\ FitsIn(rt, a))
\* V5: a narrower negative right operand is filled with zeros.
ZeroFilled(lt, rt, a, b) ==
    ~SameKind(lt, rt) /\ Agree(lt, rt, a, b) /\ Width(rt) < Width(lt) /\ b.n < 0
\* V24: the back end divides, shifts and orders as if every number had a sign.
SignMatters(op, t, a, b) ==
    /\ t.k \in Unsigned /\ op \in {"/", "%", ">>", "<", ">", "<=", ">="}
    /\ AsSigned(t, a.n) # a.n \/ AsSigned(t, b.n) # b.n

AsFloat(v) == IF v.k = "int" THEN FltV(2 * v.n) ELSE v
NumberResult(op, t, a, b) ==
    IF "flt" \in {a.k, b.k} THEN FltV(FltResult(op, AsFloat(a).n, AsFloat(b).n))
    ELSE IntV(Wrap(t, IntResult(op, t, a.n, b.n)))
Exact(op, a, b) == op \in {"*", "/"} /\ "flt" \in {a.k, b.k} =>
                       IF op = "*" THEN (AsFloat(a).n * AsFloat(b).n) % 2 = 0
                       ELSE b.n # 0 /\ (2 * AsFloat(a).n) % Abs(AsFloat(b).n) = 0

\* A zero divisor is a panic ("Trigger runtime panic/exception", tests/execution/
\* 06_Concurrency_and_Async/combined6.mox 600).  V25: the back end gives 0 instead.
DividesByZero(op, a, b) == op \in {"/", "%"} /\ b.n = 0 /\ "flt" \notin {a.k, b.k}

Arith(op, lt, rt, a, b, s) ==
    IF \/ ~(IsNumber(lt) /\ IsNumber(rt))
       \/ op \notin {"+", "-", "*", "/", "%"} /\ "flt" \in {a.k, b.k}
    THEN E(ZeroValue(lt), Open(TRUE, s))
    ELSE IF Null \in {a, b} THEN E(ZeroValue(lt), Stuck(TRUE, s))
    ELSE IF DividesByZero(op, a, b) THEN E(ZeroValue(lt), Stop(TRUE, Fault("V25", TRUE, s)))
    ELSE E(NumberResult(op, lt, a, b),
           Fault("V5", ZeroFilled(lt, rt, a, b), Fault("V24", SignMatters(op, lt, a, b),
           Open(~(/\ Agree(lt, rt, a, b) /\ Exact(op, a, b)
                  /\ op \in {"<<", ">>"} => b.n \in 0..(Width(lt) - 1)
                  /\ lt # rt => FitsIn(lt, NumberResult(op, lt, a, b))), s))))

SameValue(a, b, s) ==
    IF "flt" \in {a.k, b.k} /\ "int" \in {a.k, b.k} THEN AsFloat(a) = AsFloat(b)
    ELSE IF a.k = b.k /\ a.k \in {"slice", "map"} THEN s.heap[a.n] = s.heap[b.n]
    ELSE a.k = b.k /\ a = b

\* V26: two null optionals are unequal.  V8: slices, tables and texts are ordered.
\* V14: an array and a slice are compared as if both were slices.
\* V27 again: tables compare by what they hold ("structurally",
\* core_semantics_and_dispatch.mox 61), and the compiler compares addresses.
Compare(op, lt, rt, a, b, s) ==
    LET equality == op \in {"==", "!="}
    IN  IF Null \in {a, b} THEN E(BoolV((op = "==" /\ a = b) \/ (op = "!=" /\ a # b)),
                                  Fault("V26", equality /\ a = b, s))
        ELSE E(BoolV(IF equality THEN SameValue(a, b, s) = (op = "==")
                     ELSE Holds(op, AsFloat(a).n, AsFloat(b).n)),
               Fault("V5", ZeroFilled(lt, rt, a, b),
               Fault("V8", ~equality /\ ~(IsNumber(lt) /\ IsNumber(rt)),
               Fault("V24", lt = rt /\ SignMatters(op, lt, a, b),
               Fault("V14", {lt.k, rt.k} = {"array", "slice"},
               Fault("V27", a.k = "map" /\ a # b /\ SameValue(a, b, s),
               Open(~Agree(lt, rt, a, b), s)))))))

Joining(l, r, lt, rt, s) ==
    E(StrV(TextOf(lt, l, s.heap) \o TextOf(rt, r, s.heap)),
      Fault("V16", Unreadable(lt, l) \/ Unreadable(rt, r), s))

\* What an any holds must have the type of the other operand (V21 again).
Opening(v, t, s) ==
    IF v.k = "dyn" THEN E(v.s[2], Fault("V21", v.s[1] # t, s)) ELSE E(v, s)
\* V7: an any that is given null keeps the table of what it held.
NullAnyIn(lt, rt, a, b) ==
    (lt.k = "any" /\ a = Null) \/ (rt.k = "any" /\ b = Null)

\* V29: beside an optional an any is read as a pointer.
BinaryOp(op, lt, rt, a, b, s) ==
    LET ot == OperandType(lt, rt)  pt == OperandType(rt, lt) IN
    CASE op = "+" /\ "string" \in {lt.k, rt.k} -> Joining(a, b, lt, rt, s)
      [] NullAnyIn(lt, rt, a, b) -> E(ZeroValue(lt), Fault("V7", TRUE, s))
      [] {lt.k, rt.k} = {"any", "opt"} -> E(ZeroValue(lt), Fault("V29", TRUE, s))
      [] op \in {"+", "-"} /\ lt.k = "ptr" /\ rt.k # "ptr" ->
             E([a EXCEPT !.o = IF op = "+" THEN @ + b.n ELSE @ - b.n], Open(a.k \notin {"in", "at"}, s))
      [] op = "-" /\ lt.k = "ptr" /\ rt.k = "ptr" ->
             E(IntV(a.o - b.o), Open(a.k # b.k \/ a.n # b.n, s))
      [] OTHER ->
             LET x == Opening(a, pt, s)
                 y == Opening(b, ot, x.s)
             IN  IF op \in {"==", "!=", "<", ">", "<=", ">="} THEN Compare(op, ot, pt, x.v, y.v, y.s)
                 ELSE Arith(op, ot, pt, x.v, y.v, y.s)

Assignments == {"=", "+=", "-=", "*=", "/=", "%=", "&=", "|=", "^=", "<<=", ">>="}
OpOf(op) == CASE op = "+=" -> "+" [] op = "-=" -> "-" [] op = "*=" -> "*" [] op = "/=" -> "/"
              [] op = "%=" -> "%" [] op = "&=" -> "&" [] op = "|=" -> "|" [] op = "^=" -> "^"
              [] op = "<<=" -> "<<" [] op = ">>=" -> ">>"

\* V4: the checker looks at neither operand of a compound assignment.
CompoundOk(t, u) == \/ IsNumber(t) /\ IsNumber(u) /\ (IsFloat(u) => IsFloat(t))
                    \/ t.k = "string"
StoreIn(p, x) == E(x.v, PutPlace(p, x.v, x.s))

\* V23: the operand of ~ and the place of a compound assignment are lowered twice.
RECURSIVE Calls(_)
Calls(e) == e.k = "call" \/ \E i \in DOMAIN e.c : Calls(e.c[i])

EvalAssign(e, p, s) ==
    LET t == UnwrapConcurrency(e.c[1].ty)
        old == ReadPlace(p, t, s)
        u == UnwrapConcurrency(e.c[2].ty)
        rhs == Eval(e.c[2], IF e.op = "=" THEN s ELSE Fault("V23", Calls(e.c[1]), old.s))
    IN  IF e.op = "=" THEN StoreIn(p, rhs)
        ELSE IF ~CompoundOk(t, u) THEN E(old.v, Fault("V4", TRUE, s))
        ELSE StoreIn(p, BinaryOp(OpOf(e.op), t, u, old.v, rhs.v, rhs.s))

\* V6: both sides of ?? must have the type of the result, or they are bitcast to it.
SideOf(e, t, x) == IF e.ty = t /\ t.k # "opt" THEN x ELSE E(ZeroValue(e.ty), Fault("V6", TRUE, x.s))
EvalCoalesce(e, lt, l) ==
    IF l.v = Null THEN SideOf(e, UnwrapConcurrency(e.c[2].ty), Eval(e.c[2], Fault("V7", lt.k = "any", l.s)))
    ELSE SideOf(e, IF lt.k = "opt" THEN Inner(lt) ELSE lt, l)

EvalLogical(e, l) ==
    IF e.ty.k = "any" THEN E(Null, Fault("V3", TRUE, l.s))
    ELSE IF (l.v.n = 1) = (e.op = "&&") THEN Eval(e.c[2], l.s) ELSE l

\* With an any among the operands the result is an any.
KindOf(v, t) == CASE v.k = "str" -> Ty("string") [] v.k = "flt" -> Ty("f64")
                  [] OTHER -> t
AsAny(e, t, x) ==
    IF e.ty.k # "any" THEN x ELSE E(Dyn(KindOf(x.v, t), x.v), x.s)
RECURSIVE Uncast(_)
Uncast(e) == IF e.k = "cast" THEN Uncast(e.c[1]) ELSE e

\* An integer literal in front of another integer type takes that type.
Literals == {"int", "float"}
Orders == {"==", "!=", "<", ">", "<=", ">="}
LiteralFirst(e, lt, rt, a) ==
    \/ lt = rt \/ ~IsInteger(lt) \/ ~IsInteger(rt)
    \/ Uncast(e.c[1]).k \notin Literals \/ e.c[2].k \in Literals
    \/ (e.op \in Orders /\ FitsIn(rt, a))

\* The folding of constants looks through casts: they must keep the number.
RECURSIVE Constant(_)
Constant(e) == \/ e.k \in Literals
               \/ e.k \in {"un", "bin", "cast"} /\ \A i \in DOMAIN e.c : Constant(e.c[i])
CastKeeps(e, s) == e.k = "cast" /\ Constant(e) => Eval(Uncast(e), s).v = Eval(e, s).v

EvalRight(e, lt, rt, l) ==
    LET r == Eval(e.c[2], l.s)
        t == IF e.op \in Orders THEN Ty("bool") ELSE OperandType(lt, rt)
    IN  AsAny(e, t, BinaryOp(e.op, lt, rt, l.v, r.v,
                             Fault("V19", ~LiteralFirst(e, lt, rt, l.v),
                             Fault("V20", ~CastKeeps(e.c[1], l.s) \/ ~CastKeeps(e.c[2], l.s), r.s))))

EvalBinary(e, s) ==
    LET l == Eval(e.c[1], s)
        p == PlaceIn(e.c[1], s)
    IN  CASE e.op \in Assignments -> EvalAssign(e, p.v, p.s)
          [] e.op = "??" -> EvalCoalesce(e, UnwrapConcurrency(e.c[1].ty), l)
          [] e.op \in {"&&", "||"} -> EvalLogical(e, l)
          [] OTHER -> EvalRight(e, UnwrapConcurrency(e.c[1].ty), UnwrapConcurrency(e.c[2].ty), l)

NotBits(t, n) == Wrap(t, -n - 1)
Step(e, p, old, s) ==
    LET t == UnwrapConcurrency(e.c[1].ty)
        new == Arith(IF e.op = "++" THEN "+" ELSE "-", t, t, old, IF IsFloat(t) THEN FltV(2) ELSE IntV(1), s)
    IN  E(IF e.n = 1 THEN new.v ELSE old, PutPlace(p, new.v, new.s))

EvalUnary(e, s) ==
    LET v == Eval(e.c[1], s)
        p == PlaceIn(e.c[1], s)
        t == UnwrapConcurrency(e.ty)
    IN  CASE e.op = "!" -> E(BoolV(v.v = Null \/ (v.v.k \in {"int", "flt"} /\ v.v.n = 0)),
                               Fault("V3", e.c[1].ty.k = "any", v.s))
          [] e.op = "-" -> Arith("-", t, t, ZeroValue(t), v.v, v.s)
          [] e.op = "~" -> E(IntV(NotBits(t, v.v.n)), Fault("V23", Calls(e.c[1]), v.s))
          [] e.op \in {"++", "--"} ->
                 Step(e, p.v, GetPlace(p.v, t, p.s), Fault("V10", p.v.k = "entry", p.s))
          [] e.op = "&" -> p
          [] e.op = "*" -> IF Outside(v.v, v.s) THEN E(ZeroValue(t), Fault("stray", TRUE, v.s))
                           ELSE ReadPlace(v.v, t, v.s)

(***************************************************************************)
(* Literals of sequences and tables, calls.                                *)
(***************************************************************************)
Spread(e) == e.k = "un" /\ e.op = "..."
Elements(v, s) == IF v.k = "agg" THEN v.s ELSE IF v = Null THEN <<>> ELSE s.heap[v.n]
EvalElements(es, s) ==
    FoldLeft(LAMBDA acc, e :
                 LET x == Eval(IF Spread(e) THEN e.c[1] ELSE e, acc.s)
                 IN  [vs |-> acc.vs \o (IF Spread(e) THEN Elements(x.v, x.s) ELSE <<x.v>>),
                      s |-> Stop(Spread(e) /\ x.v = Null, x.s)],
             [vs |-> <<>>, s |-> s], es)
EvalArray(e, xs) ==
    IF e.ty.k = "slice" THEN NewRef("slice", xs.vs, xs.s) ELSE E(AggV(xs.vs), xs.s)

Entries(vs) ==
    FoldLeft(LAMBDA acc, i : PutEntry(acc, vs[2 * i - 1], vs[2 * i]), <<>>,
             [i \in 1..(Len(vs) \div 2) |-> i])

\* A function of the program leaves a mark and gives back its first argument.
EvalCall(e, xs) ==
    E(IF xs.vs = <<>> THEN Signature[e.op].val ELSE xs.vs[1],
      [xs.s EXCEPT !.out = IF xs.s.dead THEN @ ELSE Append(@, e.op)])

SetHeap(id, contents, s) == IF s.dead THEN s ELSE [s EXCEPT !.heap = [@ EXCEPT ![id] = contents]]
Within(i, cells, s, v, contents, id) ==
    IF i \in 0..(Len(cells) - 1) THEN E(v, SetHeap(id, contents, s)) ELSE E(Null, Stop(TRUE, s))

OnSlice(op, id, cells, t, vs, s) ==
    LET i == vs[2].n
        done(contents) == E(Null, SetHeap(id, contents, s))
        from == IF i < 0 THEN 0 ELSE i
        to == IF vs[3].n > Len(cells) THEN Len(cells) ELSE vs[3].n
    IN
    CASE op = "length" -> E(IntV(Len(cells)), s)
      [] op = "push" -> done(Append(cells, vs[2]))
      [] op = "insert" -> IF i \in 0..Len(cells) THEN done(InsertAt(cells, i + 1, vs[3]))
                          ELSE E(Null, Stop(TRUE, s))
      [] op = "extend" -> done(cells \o s.heap[vs[2].n])
      [] op = "clear" -> done(<<>>)
      [] op = "reverse" -> done(Reverse(cells))
      [] op = "resize" -> done([j \in 1..(IF i < 0 THEN Len(cells) ELSE i) |->
                                IF j \in DOMAIN cells THEN cells[j] ELSE ZeroValue(t)])
      [] op = "pop" -> Within(Len(cells) - 1, cells, s, Last(cells), Front(cells), id)
      [] op = "remove" -> Within(i, cells, s, cells[i + 1], RemoveAt(cells, i + 1), id)
      [] op = "slice" -> NewRef("slice", SubSeq(cells, from + 1, to), Open(vs[3].n < 0, s))
      [] op = "clone" -> NewRef("slice", cells, s)

OnTable(op, id, entries, vs, s) ==
    LET at == EntryOf(entries, Plain(vs[2])) IN
    CASE op = "length" -> E(IntV(Len(entries)), s)
      [] op = "has" -> E(BoolV(at # 0), s)
      [] op = "clear" -> E(Null, SetHeap(id, <<>>, Fault("V27", TableShared(id, s), s)))
      [] op = "remove" -> E(Null, SetHeap(id, IF at = 0 THEN entries ELSE RemoveAt(entries, at),
                                          Fault("V27", TableShared(id, s), s)))

EvalBuiltin(e, xs) ==
    LET v == Plain(xs.vs[1]) IN
    CASE v = Null -> E(ZeroValue(e.ty),
                       Stuck(TRUE, Fault("V18", UnwrapConcurrency(e.c[1].ty).k \in {"opt", "any"}, xs.s)))
      [] v.k = "slice" -> OnSlice(e.op, v.n, xs.s.heap[v.n], Inner(UnwrapConcurrency(e.c[1].ty)), xs.vs, xs.s)
      [] OTHER -> OnTable(e.op, v.n, xs.s.heap[v.n], xs.vs, xs.s)

\* a?[i] of null is null.  V15: it panics, and reads a text as a slice.  What an
\* any or a text gives without ? is open.
EvalIndex(e, s) ==
    LET b == Eval(e.c[1], s)
        p == PlaceIn(e, s)
        of == UnwrapConcurrency(e.c[1].ty).k
        dynamic == b.v.k \in {"dyn", "str"} \/ (b.v = Null /\ of \in {"any", "opt"})
    IN  IF e.n = 1 /\ (b.v = Null \/ b.v.k = "str") THEN E(Null, Fault("V15", TRUE, b.s))
        ELSE IF of = "ptr" /\ b.v = Null THEN E(ZeroValue(e.ty), Stop(TRUE, Fault("V28", TRUE, b.s)))
        ELSE IF dynamic THEN E(ZeroValue(e.ty), Open(TRUE, b.s))
        ELSE IF p.s.dead THEN E(ZeroValue(e.ty), p.s)
        ELSE ReadPlace(p.v, e.ty, p.s)

EvalTemplate(e, xs) ==
    LET text == FoldLeft(LAMBDA acc, i : acc \o TextOf(UnwrapConcurrency(e.c[i].ty), xs.vs[i], xs.s.heap), "",
                         [i \in DOMAIN e.c |-> i])
    IN  E(StrV(text), Fault("V16", \E i \in DOMAIN e.c : Unreadable(UnwrapConcurrency(e.c[i].ty), xs.vs[i]), xs.s))

\* V17: a cast to a qualified any or optional boxes nothing.
BoxesNothing(t) == t.k \in Qualifiers /\ UnwrapConcurrency(t).k \in {"any", "opt"}
EvalCast(e, v) == Convert(v.v, e.c[1].ty, e.to, Fault("V17", BoxesNothing(e.to), v.s))

DeclareAs(d, x) ==
    E(x.v, [x.s EXCEPT !.vars = [y \in DOMAIN @ \cup {d.op} |-> IF y = d.op THEN x.v ELSE @[y]]])

Eval(e, s) ==
    CASE e.k = "decl" ->
             DeclareAs(e, IF e.c = <<>> THEN E(ZeroValue(e.to), s) ELSE Eval(e.c[1], s))
      [] e.k \in {"int", "char", "bool"} -> E(IntV(e.n), s)
      [] e.k = "float" -> E(FltV(e.n), s)
      [] e.k = "str" -> E(StrV(e.op), s)
      [] e.k = "null" -> E(Null, s)
      [] e.k = "id" -> E(s.vars[e.op], s)
      [] e.k = "bin" -> EvalBinary(e, s)
      [] e.k = "un" -> EvalUnary(e, s)
      [] e.k = "array" -> EvalArray(e, EvalElements(e.c, s))
      [] e.k = "map" -> LET xs == EvalAll(e.c, s)
                        IN  NewRef("map", Entries(xs.vs), Fault("V11", e.ty.in[2].k = "opt", xs.s))
      [] e.k = "index" -> EvalIndex(e, s)
      [] e.k = "cast" -> EvalCast(e, Eval(e.c[1], s))
      [] e.k = "cond" -> LET c == Eval(e.c[1], s)
                             arm == e.c[IF c.v.n = 1 THEN 2 ELSE 3]
                             v == Eval(arm, c.s)
                         IN  Convert(v.v, arm.ty, e.ty, v.s)
      [] e.k = "tmpl" -> EvalTemplate(e, EvalAll(e.c, s))
      [] e.k = "call" -> EvalCall(e, EvalAll(e.c, s))
      [] e.k = "builtin" -> EvalBuiltin(e, EvalAll(e.c, s))

Shows(st, x) ==
    IF st.k = "tmpl" /\ ~x.s.dead THEN [x.s EXCEPT !.shown = Append(@, x.v.s[1])] ELSE x.s
Perform(st, s) == Shows(st, Eval(st, s))
=============================================================================
