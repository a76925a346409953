----------------------------- MODULE LowerConv -----------------------------
(***************************************************************************)
(* The conversions that the lowering to MIR puts into the code             *)
(* (LowerHIRToMIR.cpp): wrapping values into any and into optionals,       *)
(* unwrapping them, making truth values and texts of them.  Each operator  *)
(* stands for the instructions the lowering emits, run where it emits      *)
(* them: a pair of blocks joined by a phi is an IF.                        *)
(*                                                                         *)
(* A conversion takes an operand (box: with the type it is taken for) and  *)
(* the machine, and returns both as they are afterwards.                   *)
(***************************************************************************)
EXTENDS Runtime

RECURSIVE Conv(_, _, _, _)
BitCast(x, t, m) == Conv("bitcast", x, t, m)
LoadAt(r) == Conv("load", r.r, NoType, r.m)
AnyCast(x, m) == Conv("anycast", x, NoType, m)
Box(x, src, t, m) == Conv("box", [x |-> x, src |-> src], t, m)
Unbox(x, t, m) == Conv("unbox", x, t, m)
Coerce(x, t, m) == Conv("coerce", x, t, m)
ToText(x, m) == Conv("text", x, NoType, m)

\* A pointer type of the compiler's own, with no ownership.
Raw(t) == Of("ptr", t)
IsPrimitive(t) == IsInteger(t) \/ IsFloat(t) \/ t.k = "bool"

\* stripMemoryModifiers also looks behind a pointer and into an array.
RECURSIVE StripModifiers(_)
StripModifiers(t) ==
    CASE t.k \in Qualifiers \ {"weak"} -> StripModifiers(Inner(t))
      [] t.k \in {"ptr", "array"} -> [t EXCEPT !.in = <<StripModifiers(Inner(t))>>]
      [] OTHER -> t

\* resolveType: pointers all the way down lose their ownership.
RECURSIVE ResolveType(_)
ResolveType(t) ==
    LET u == StripModifiers(t) IN IF u.k = "ptr" THEN Raw(ResolveType(Inner(u))) ELSE u

IsByte(t) == t.k \in {"i8", "u8"}
IsByteArray(t) == t.k = "array" /\ IsByte(Inner(t))
IsCString(t) ==
    IsByteArray(t) \/ (t.k = "ptr" /\ (IsByte(Inner(t)) \/ IsByteArray(Inner(t))))

(***************************************************************************)
(* What an optional holds: a number is loaded from its box, anything else  *)
(* is taken for a pointer to it.                                           *)
(***************************************************************************)
Opened(x, in, m) ==
    IF IsPrimitive(in) THEN LoadAt(BitCast(x, Raw(in), m)) ELSE BitCast(x, Raw(in), m)

BoxOptional(x, in, t, m) ==
    LET inside == Opened(x, in, m)
        boxed == Box(inside.r, in, t, inside.m)
    IN  IF IsNull(x.v) THEN R(Op(t, Zero(t)), m) ELSE R(Op(t, boxed.r.v), boxed.m)

\* Kinds that are pointers already: their value is the data of an any.
References == {"any", "promise", "null", "string", "map", "slice", "ptr", "ref"}
BoxReference(x, t, m) == IF t.k = "any" THEN AnyCast(x, m) ELSE BitCast(x, t, m)

\* An array is copied into a box of its own.
BoxArray(x, core, t, m) ==
    LET from == IF x.ty.k \in {"ptr", "opt"} THEN R(x, m) ELSE Alloc(x, m)
        copy == ReadAt(from.r.v, core, from.m)
        box == Alloc(Op(core, copy), Flag(from.m, IsWild(copy)))
    IN  BoxReference(box.r, t, box.m)

\* Mutant of BoxScalar: every box has the size of a bool.
BoxScalarSmall(x, core, t, m) ==
    LET box == Alloc(Op(Ty("bool"), Zero(Ty("bool"))), m)
    IN  BoxReference(Op(Raw(x.ty), box.r.v), t, Store(x, box.r, box.m))

\* The box has room for the source type and is written at the value's type.
BoxScalar(x, core, t, m) ==
    LET box == Alloc(Op(core, Zero(core)), m)
    IN  BoxReference(Op(Raw(x.ty), box.r.v), t, Store(x, box.r, box.m))

\* boxValue for a type that is no optional.
BoxPlain(x, src, t, m) ==
    LET text == ToText(x, m)
        core == StripModifiers(src)
    IN  CASE t.k \notin {"any", "opt"} -> R(x, m)
          [] IsCString(src) -> BoxReference(text.r, t, text.m)
          [] src.k \in References /\ ~IsCString(src) -> BoxReference(x, t, m)
          [] core.k = "array" /\ ~IsCString(src) -> BoxArray(x, core, t, m)
          [] OTHER -> BoxScalar(x, core, t, m)

BoxValue(x, src, t, m) ==
    LET core == StripModifiers(src) IN
    IF src = NoType \/ (src.k = "any" /\ t.k = "any") THEN R(x, m)
    ELSE IF core.k = "opt" THEN BoxOptional(x, Inner(core), t, m)
    ELSE BoxPlain(x, src, t, m)

\* unboxValue trusts the type it is asked for.
UnboxValue(x, t, m) ==
    LET data == Op(Raw(Ty("void")), IF x.v.k = "any" THEN x.v.s[1] ELSE Wild) IN
    IF x.ty.k # "any" \/ t.k = "any" THEN R(x, m)
    ELSE IF t.k \in References \cup {"array"} THEN BitCast(data, t, m)
    ELSE LoadAt(BitCast(data, Raw(t), m))

(***************************************************************************)
(* coerceValue.  A value becomes an optional only when it has exactly the  *)
(* type inside; an optional is opened without a test for null.             *)
(***************************************************************************)
IntoOptional(x, t, m) ==
    LET ptr == BitCast(x, Raw(Inner(t)), m) IN
    IF IsPrimitive(Inner(t)) \/ IsSequence(Inner(t)) THEN Box(x, x.ty, t, m)
    ELSE BitCast(ptr.r, t, ptr.m)

CoerceValue(x, t, m) ==
    LET inside == Opened(x, Inner(x.ty), m) IN
    CASE x.ty = t -> R(x, m)
      [] x.ty # t /\ t.k = "opt" /\ x.ty = Inner(t) -> IntoOptional(x, t, m)
      [] x.ty # t /\ t.k = "opt" /\ x.ty # Inner(t) /\ IsNullConst(x) -> R(Const(t, Zero(t)), m)
      [] x.ty.k = "opt" /\ x.ty # t /\ ~(t.k = "opt" /\ (x.ty = Inner(t) \/ IsNullConst(x))) ->
             Coerce(inside.r, t, inside.m)
      [] IsInteger(x.ty) /\ IsFloat(t) -> R(IntToFloat(x, t), m)
      [] IsFloat(x.ty) /\ IsInteger(t) -> R(FloatToInt(x, t), m)
      [] OTHER -> BitCast(x, t, m)

CoerceToBool(x, m) ==
    LET test(b) == R(Op(Ty("bool"), IF x.v.k = "wild" THEN Wild ELSE BoolV(b)), m) IN
    CASE x.ty.k = "bool" -> R(x, m)
      [] x.ty.k # "bool" /\ Strip(x.ty).k = "bool" -> BitCast(x, Ty("bool"), m)
      [] x.ty.k \in {"ptr", "opt"} -> test(~IsNull(x.v))
      [] IsInteger(x.ty) \/ IsFloat(x.ty) -> test(x.v.n # 0)
      [] OTHER -> R(x, m)

(***************************************************************************)
(* Texts.  A text is the text of the program's output; the text of a       *)
(* number, of a character and of an address are told apart.                *)
(***************************************************************************)
TextOp(text) == Op(Ty("string"), StrV(text))
\* What a string is joined to others as: a null string is empty.
TextIn(v) == IF v.k = "str" THEN v.s[1] ELSE ""
TextOfPointer(v) == IF v.k = "str" THEN "address" ELSE "#" \o ToString(v.n)

NumberText(t, v) ==
    CASE v.k = "wild" -> "?"
      [] t.k = "bool" -> IF v.n # 0 THEN "true" ELSE "false"
      [] t.k = "i8" -> "'" \o ToString(v.n)
      [] IsFloat(t) -> ToString(v.n) \o "h"
      [] OTHER -> ToString(v.n)

\* The texts of a sequence of operands, in order, the machine with them.
TextsOf(xs, m) ==
    FoldLeft(LAMBDA acc, x : LET s == ToText(x, acc.m)
                             IN  R(Append(acc.r, TextIn(s.r.v)), s.m), R(<<>>, m), xs)
Joined(texts, sep) ==
    FoldLeft(LAMBDA acc, i : acc \o (IF i > 1 THEN sep ELSE "") \o texts[i], "",
             [i \in DOMAIN texts |-> i])

ElementsFrom(p, elem, n, m) ==
    [i \in 1..n |-> Operand(elem, ReadAt(PtrV(p.n, p.o + i - 1), elem, m), "load", <<>>)]
AllBitsZero(v) == IsNull(v) \/ (v.k = "agg" /\ \A i \in DOMAIN v.s : IsNull(v.s[i]) \/ v.s[i].n = 0)

Bracketed(xs, m) ==
    LET texts == TextsOf(xs, Flag(m, \E i \in DOMAIN xs : IsWild(xs[i].v)))
    IN  R(TextOp("[" \o Joined(texts.r, ", ") \o "]"), texts.m)

\* getOrCreateArrayStringifier, for an array, a slice or a pointer to one:
\* a fixed array all of whose bits are zero passes the test for null.
ArrayText(x, t, m) ==
    LET col == IF t.k = "ptr" THEN Inner(t) ELSE t
        slice == IF t.k = "ptr" THEN LoadAt(R(Op(Raw(col), x.v), m)) ELSE R(x, m)
        array == BitCast(x, Raw(Inner(col)), m)
    IN  CASE AllBitsZero(x.v) -> R(TextOp("null"), m)
          [] col.k = "slice" /\ ~AllBitsZero(x.v) ->
                 Bracketed(ElementsFrom(SliceData(slice.r.v, slice.m), Inner(col),
                                        SliceLen(slice.r.v, slice.m), slice.m), slice.m)
          [] OTHER -> Bracketed(ElementsFrom(array.r.v, Inner(col), col.n, array.m), array.m)

\* getOrCreateMapStringifier: keys and values are unboxed at the declared types.
MapText(x, t, m) ==
    LET col == IF t.k = "ptr" THEN Inner(t) ELSE t
        map == IF t.k = "ptr" THEN LoadAt(R(Op(Raw(col), x.v), m)) ELSE R(x, m)
        cells == EntriesOf(map.r.v, map.m)
        parts == FoldLeft(LAMBDA acc, i :
                              LET u == Unbox(Op(Ty("any"), cells[i].v), col.in[2 - (i % 2)], acc.m)
                              IN  R(Append(acc.r, u.r), u.m),
                          R(<<>>, map.m), [i \in DOMAIN cells |-> i])
        texts == TextsOf(parts.r, parts.m)
        entries == [i \in 1..(Len(texts.r) \div 2) |-> texts.r[2 * i - 1] \o ": " \o texts.r[2 * i]]
    IN  IF IsNull(x.v) THEN R(TextOp("null"), m)
        ELSE R(TextOp("{ " \o Joined(entries, ", ") \o " }"), texts.m)

RECURSIVE Mentions(_, _)
Mentions(t, k) == t.k = k \/ \E i \in DOMAIN t.in : Mentions(t.in[i], k)

\* __moksha_any_to_string calls the function the vtable was made with.
AnyText(v, m) ==
    LET ty == VTableType(v.n, m)
        data == Op(ty, v.s[1])
        number == LoadAt(R(data, m))
    IN  CASE IsNull(v) \/ IsNull(v.s[1]) -> R(TextOp("null"), m)
          [] Mentions(ty, "map") -> MapText(data, ty, m)
          [] ~Mentions(ty, "map") /\ (Mentions(ty, "slice") \/ Mentions(ty, "array")) ->
                 ArrayText(data, ty, m)
          [] ty.k = "ptr" /\ IsPrimitive(Inner(ty)) ->
                 R(TextOp(NumberText(Inner(ty), number.r.v)), number.m)
          [] ty.k = "string" -> R(TextOp(TextIn(v.s[1])), m)
          [] OTHER -> R(TextOp(TextOfPointer(v.s[1])), m)

OptionalText(x, in, m) ==
    LET inside == Opened(x, in, m)
    IN  IF IsNull(x.v) THEN R(TextOp("null"), m) ELSE ToText(inside.r, inside.m)

CoerceToString(x, t, m) ==
    LET col == IF t.k = "ptr" THEN Inner(t) ELSE t IN
    CASE x.ty.k = "string" -> R(x, m)
      [] t.k = "opt" -> OptionalText(x, Inner(t), m)
      [] IsPrimitive(t) -> R(TextOp(NumberText(t, x.v)), m)
      [] t.k = "any" -> IF x.v.k = "any" THEN AnyText(x.v, m) ELSE R(TextOp("?"), m)
      [] IsCString(t) -> R(TextOp(IF IsNull(x.v) THEN "null" ELSE TextIn(x.v)), m)
      [] IsSequence(col) /\ ~IsCString(t) -> ArrayText(x, t, m)
      [] col.k = "map" -> MapText(x, t, m)
      [] OTHER -> R(TextOp(TextOfPointer(x.v)), m)

Conv(k, x, t, m) ==
    CASE k = "bitcast" -> BitCastOp(x, t, m)
      [] k = "load" -> Load(x, m)
      [] k = "anycast" -> AnyCastOp(x, m)
      [] k = "box" -> BoxValue(x.x, x.src, t, m)
      [] k = "unbox" -> UnboxValue(x, t, m)
      [] k = "coerce" -> CoerceValue(x, t, m)
      [] k = "bool" -> CoerceToBool(x, m)
      [] k = "text" -> CoerceToString(x, StripModifiers(x.ty), m)
=============================================================================
