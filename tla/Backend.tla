------------------------------ MODULE Backend ------------------------------
(***************************************************************************)
(* What the instructions of MIR do once the back end has translated them   *)
(* (MIRToMLIR.cpp, MLIRToLLVM.cpp, TypeLowering.cpp): the values they work *)
(* on, the memory they read and write, and the conversions between         *)
(* representations, which do not ask what a value means.                   *)
(*                                                                         *)
(* A value is a record: kind, number, offset, parts.                       *)
(*   int  n: the number, as its type reads it    flt  n: twice the number  *)
(*   ptr  n: the object (0 is null), o: a cell   str  s: <<the text>>      *)
(*   any  n: the key of its vtable (0 is none), s: <<the data pointer>>    *)
(*   agg  s: the elements of an array            wild: bits of another kind*)
(* An operand of an instruction has a MIR type, a value, what made it (a   *)
(* constant, a load, a cast or another instruction) and what that used.    *)
(*                                                                         *)
(* The machine: mem, a sequence of objects that are sequences of cells, a  *)
(* cell being a value with the type it was stored at; env, the address of  *)
(* each variable; vt, the type each vtable was made for; out, what calls   *)
(* were made; lv, whether the place of an expression is asked for rather   *)
(* than its value; dead, set by a panic; wild, set when memory is used as  *)
(* what it does not hold.                                                  *)
(***************************************************************************)
EXTENDS Types, FiniteSets, SequencesExt, Bitwise

V(k, n, o, s) == [k |-> k, n |-> n, o |-> o, s |-> s]
IntV(n) == V("int", n, 0, <<>>)
FltV(n) == V("flt", n, 0, <<>>)
PtrV(obj, o) == V("ptr", obj, o, <<>>)
StrV(text) == V("str", 0, 0, <<text>>)
AnyV(key, data) == V("any", key, 0, <<data>>)
AggV(s) == V("agg", 0, 0, s)
Null == PtrV(0, 0)
NullAny == AnyV(0, Null)
Wild == V("wild", 0, 0, <<>>)

BoolV(b) == IntV(IF b THEN 1 ELSE 0)
IsTrue(v) == v.k = "int" /\ v.n = 1
IsNull(v) == v = Null \/ v = NullAny

Operand(t, v, by, from) == [ty |-> t, v |-> v, by |-> by, from |-> from]
Op(t, v) == Operand(t, v, "inst", <<>>)
Const(t, v) == Operand(t, v, "const", <<>>)
IsConst(x, k) == x.by = "const" /\ x.v.k = k
IsNullConst(x) == x.by = "const" /\ x.v.k \in {"ptr", "any"}

Empty == [mem |-> <<>>, env |-> <<>>, vt |-> <<>>, out |-> <<>>,
          lv |-> FALSE, dead |-> FALSE, wild |-> FALSE]

\* A program that has panicked does nothing more.
Flag(m, bad) == [m EXCEPT !.wild = @ \/ (bad /\ ~m.dead)]
Panic(m, bad) == [m EXCEPT !.dead = @ \/ bad]

(***************************************************************************)
(* The representation of a type.  An optional of something that is a       *)
(* pointer, or an any, is represented like it; any other optional is a     *)
(* pointer to a box.                                                       *)
(***************************************************************************)
IntKinds == (Signed \cup Unsigned)
Strip(t) == UnwrapConcurrency(t)

\* The type the back end sees: an optional is what it points to, or a pointer.
LoweredOptional(u) ==
    IF Strip(u).k \in {"string", "slice", "map", "any", "ptr"} THEN Strip(u) ELSE Of("ptr", u)
LoweredRaw(u) == IF u.k = "opt" THEN LoweredOptional(Inner(u)) ELSE u
Lowered(t) == LoweredRaw(Strip(t))

RepOfKind(k) ==
    CASE k \in IntKinds \cup {"bool"} -> "int"
      [] k \in Floats -> "flt"
      [] k = "any" -> "any"
      [] k = "array" -> "agg"
      [] OTHER -> "ptr"
RepOf(t) == RepOfKind(Lowered(t).k)

WidthOf(k, rep) ==
    IF rep \in {"flt", "ptr"} THEN Bits[IF k = "f32" THEN "i32" ELSE "i64"] ELSE Bits[k]
Width(t) == WidthOf(Strip(t).k, RepOf(t))

WrapTo(w, signed, m) == IF signed /\ m >= 2 ^ (w - 1) THEN m - 2 ^ w ELSE m
WrapBits(w, signed, n) == WrapTo(w, signed, n % (2 ^ w))
Wrap(t, n) == WrapBits(Width(t), Strip(t).k \in Signed, n)

\* The bits of an integer read as a signed number.
AsSigned(t, n) == WrapBits(Width(t), TRUE, n)

\* Division and remainder round towards zero; a zero divisor gives zero.
Abs(n) == IF n < 0 THEN -n ELSE n
Quot(a, b) == IF b = 0 THEN 0
              ELSE IF (a < 0) = (b < 0) THEN Abs(a) \div Abs(b) ELSE -(Abs(a) \div Abs(b))
Rem(a, b) == IF b = 0 THEN 0 ELSE a - b * Quot(a, b)

ZeroOf(rep) == CASE rep = "int" -> IntV(0) [] rep = "flt" -> FltV(0)
                 [] rep = "any" -> NullAny [] OTHER -> Null
ZeroArray(t) == AggV([i \in 1..t.n |-> ZeroOf(RepOf(Inner(t)))])
Zero(t) == IF RepOf(t) = "agg" THEN ZeroArray(Strip(t)) ELSE ZeroOf(RepOf(t))

\* A constant takes the type it is asked for; the bits of an integer are cut.
RetypedTo(v, rep, t) ==
    CASE v.k = "int" /\ rep = "int" -> IntV(Wrap(t, v.n))
      [] v.k = "int" /\ rep = "flt" -> FltV(2 * v.n)
      [] v.k = "flt" /\ rep = "flt" -> v
      [] OTHER -> Zero(t)
Retype(x, t) == Const(t, RetypedTo(x.v, RepOf(t), t))

(***************************************************************************)
(* Memory.                                                                 *)
(***************************************************************************)
Cell(t, v) == [ty |-> t, v |-> v]
CellsOf(t, v) ==
    IF v.k = "agg" THEN [i \in DOMAIN v.s |-> Cell(Inner(Strip(t)), v.s[i])]
    ELSE <<Cell(t, v)>>

R(x, m) == [r |-> x, m |-> m]

\* A new object that holds the value x, and the address of it.
Alloc(x, m) ==
    R(Op(Of("ptr", x.ty), PtrV(Len(m.mem) + 1, 0)),
      [m EXCEPT !.mem = Append(@, CellsOf(x.ty, x.v))])

\* The machine reads what a cell holds at the type of the load.
CellRead(c, t, rep, from) ==
    CASE rep # from \/ c.v.k = "wild" -> Wild
      [] rep = "int" -> IF Width(t) <= Width(c.ty) THEN IntV(Wrap(t, c.v.n)) ELSE Wild
      [] rep = "flt" -> IF Width(t) = Width(c.ty) THEN c.v ELSE Wild
      [] OTHER -> c.v
CellAs(c, t) == CellRead(c, t, RepOf(t), RepOf(c.ty))

InMemory(v, m, len) ==
    /\ v.k = "ptr" /\ v.n \in DOMAIN m.mem
    /\ v.o >= 0 /\ v.o + len <= Len(m.mem[v.n])

ReadCells(v, elem, n, m) ==
    IF InMemory(v, m, n) THEN [i \in 1..n |-> CellAs(m.mem[v.n][v.o + i], elem)] ELSE <<Wild>>
ReadValue(v, t, u, m) ==
    IF RepOf(t) = "agg" THEN AggV(ReadCells(v, Inner(u), u.n, m)) ELSE ReadCells(v, t, 1, m)[1]
ReadAt(v, t, m) == ReadValue(v, t, Strip(t), m)

IsWild(v) == v.k = "wild" \/ (v.k = "agg" /\ \E i \in DOMAIN v.s : v.s[i].k = "wild")

LoadType(p) == IF p.ty.k = "ptr" THEN Inner(p.ty) ELSE p.ty

LoadValue(p, v, m) ==
    R(Operand(LoadType(p), v, "load", <<p>>), Flag(m, IsWild(v)))
Load(p, m) == LoadValue(p, ReadAt(p.v, LoadType(p), m), m)

\* A store may not be wider than the cell it goes to.
Fits(c, t) == /\ RepOf(c.ty) = RepOf(t)
              /\ RepOf(t) \in {"int", "flt"} => Width(t) <= Width(c.ty)

StoreCells(cells, v, m) ==
    IF InMemory(v, m, Len(cells))
    THEN Flag([m EXCEPT !.mem[v.n] = [i \in DOMAIN @ |-> IF i \in (v.o + 1)..(v.o + Len(cells))
                                                         THEN cells[i - v.o] ELSE @[i]]],
              \E i \in DOMAIN cells : ~Fits(m.mem[v.n][v.o + i], cells[i].ty))
    ELSE Flag(m, TRUE)
Store(x, p, m) == StoreCells(CellsOf(x.ty, x.v), p.v, m)

(***************************************************************************)
(* Conversions.  BitCast keeps the bits where the sizes agree and guesses  *)
(* where they do not: a wider integer is filled with zeros, whatever the   *)
(* sign.  Casting back to the type a bitcast came from undoes it.          *)
(***************************************************************************)
IntToInt(s, t, v) == IntV(Wrap(t, IF Width(t) > Width(s) THEN v.n % (2 ^ Width(s)) ELSE v.n))
Truncated(n) == Quot(n, 2)

\* The bits of a zero are the same in every representation.
Reinterpret(t, v) == IF v.n = 0 /\ v.k \in {"int", "flt", "ptr"} THEN Zero(t) ELSE Wild

NumberCast(s, t, v, const) ==
    CASE v.k = "wild" -> Wild
      [] v.k # "wild" /\ RepOf(s) = RepOf(t) -> IF v.k = "flt" THEN v ELSE IntToInt(s, t, v)
      [] const \/ Width(s) = Width(t) -> Reinterpret(t, v)
      [] RepOf(t) = "flt" -> FltV(2 * AsSigned(s, v.n))
      [] OTHER -> IntV(Wrap(t, Truncated(v.n)))

Numbers == {"int", "flt"}
Aggregates == {"any", "agg"}

Casted(x, t, v, m) == R(Operand(t, v, "bitcast", <<x>>), m)

BitCastTo(x, s, d, t, m) ==
    CASE x.by = "bitcast" /\ x.from[1].ty = t -> R(x.from[1], m)
      [] s = d /\ s \notin Numbers -> Casted(x, t, x.v, m)
      [] s \in Numbers /\ d \in Numbers ->
             Casted(x, t, NumberCast(x.ty, t, x.v, x.by = "const"), m)
      [] s \in Aggregates /\ d = "ptr" ->
             Casted(x, t, PtrV(Len(m.mem) + 1, 0), Alloc(x, m).m)
      [] s = "ptr" /\ d \in Aggregates ->
             LET v == ReadAt(x.v, t, m) IN Casted(x, t, v, Flag(m, IsWild(v)))
      [] s \in Aggregates /\ d \in Aggregates -> Casted(x, t, Wild, m)
      [] OTHER -> Casted(x, t, Reinterpret(t, x.v), m)
BitCastOp(x, t, m) == BitCastTo(x, RepOf(x.ty), RepOf(t), t, m)

\* trunc, sext, zext: the sign of the source decides.
CastInt(x, t) == Operand(t, IF x.v.k = "wild" THEN Wild ELSE IntV(Wrap(t, x.v.n)), "cast", <<x>>)
IntToFloat(x, t) == Operand(t, IF x.v.k = "wild" THEN Wild ELSE FltV(2 * x.v.n), "cast", <<x>>)
FloatToInt(x, t) ==
    Operand(t, IF x.v.k = "wild" THEN Wild ELSE IntV(Wrap(t, Truncated(x.v.n))), "cast", <<x>>)

(***************************************************************************)
(* Boxing into any.  The vtable is named after the type's number alone, so *)
(* it is made for the first type of that number and used for all of them.  *)
(***************************************************************************)
TypeIds == <<"bool", "i8", "u8", "i16", "u16", "i32", "u32", "i64", "u64", "f32", "f64",
             "string", "map", "array", "slice", "ptr">>
IdKind(k) == CASE k = "char" -> "i8" [] k = "slice" -> "array" [] OTHER -> k
TypeId(t) == IF \E i \in DOMAIN TypeIds : TypeIds[i] = IdKind(t.k)
             THEN CHOOSE i \in DOMAIN TypeIds : TypeIds[i] = IdKind(t.k) ELSE Len(TypeIds)

KeyOf(u) == IF u.k = "ptr" THEN 2 * TypeId(Strip(Inner(u))) + 1 ELSE 2 * TypeId(u)
VTableKey(t) == KeyOf(Lowered(t))

AddVTable(key, t, m) ==
    IF \E i \in DOMAIN m.vt : m.vt[i].key = key THEN m
    ELSE [m EXCEPT !.vt = Append(@, [key |-> key, ty |-> t])]
WithVTable(t, m) == AddVTable(VTableKey(t), Lowered(t), m)

VTableType(key, m) == m.vt[CHOOSE i \in DOMAIN m.vt : m.vt[i].key = key].ty

\* Only a pointer can become the data of an any.
AnyCastOp(x, m) ==
    R(Operand(Ty("any"), IF RepOf(x.ty) = "ptr" THEN AnyV(VTableKey(x.ty), x.v) ELSE Wild,
              "cast", <<x>>),
      Flag(WithVTable(x.ty, m), RepOf(x.ty) # "ptr"))

(***************************************************************************)
(* Arithmetic and comparison.  The types of LLVM carry no sign: division,  *)
(* remainder, shift right and order are those of signed numbers.           *)
(***************************************************************************)
IntOp(op, w, a, b, sa, sb) ==
    CASE op = "+" -> a + b
      [] op = "-" -> a - b
      [] op = "*" -> a * b
      [] op = "/" -> Quot(sa, sb)
      [] op = "%" -> Rem(sa, sb)
      [] op = "&" -> (a % (2 ^ w)) & (b % (2 ^ w))
      [] op = "|" -> (a % (2 ^ w)) | (b % (2 ^ w))
      [] op = "^" -> (a % (2 ^ w)) ^^ (b % (2 ^ w))
      [] op = "<<" -> a * (2 ^ (b % w))
      [] op = ">>" -> sa \div (2 ^ (b % w))
IntResult(op, t, a, b) == IntOp(op, Width(t), a, b, AsSigned(t, a), AsSigned(t, b))

FltResult(op, a, b) ==
    CASE op = "+" -> a + b
      [] op = "-" -> a - b
      [] op = "*" -> Quot(a * b, 2)
      [] op = "/" -> Quot(2 * a, b)
      [] op = "%" -> Rem(a, b)

ArithV(op, t, a, b) ==
    CASE "wild" \in {a.k, b.k} -> Wild
      [] RepOf(t) = "int" -> IntV(Wrap(t, IntResult(op, t, a.n, b.n)))
      [] RepOf(t) = "flt" /\ op \in {"+", "-", "*", "/", "%"} -> FltV(FltResult(op, a.n, b.n))
      [] OTHER -> Wild

Holds(op, a, b) ==
    CASE op = "==" -> a = b  [] op = "!=" -> a # b  [] op = "<" -> a < b
      [] op = "<=" -> a <= b [] op = ">" -> a > b  [] op = ">=" -> a >= b

\* Strings have addresses of their own: two strings are never the same pointer.
SameBits(a, b) == a.k = b.k /\ a.k # "str" /\ a = b

CompareV(op, t, a, b) ==
    CASE "wild" \in {a.k, b.k} -> Wild
      [] RepOf(t) = "int" -> BoolV(IF t.k = "bool" THEN Holds(op, a.n, b.n)
                                   ELSE Holds(op, AsSigned(t, a.n), AsSigned(t, b.n)))
      [] RepOf(t) = "flt" -> BoolV(Holds(op, a.n, b.n))
      [] op \in {"==", "!="} -> BoolV(SameBits(a, b) = (op = "=="))
      [] a.k = "ptr" /\ b.k = "ptr" /\ a.n = b.n -> BoolV(Holds(op, a.o, b.o))
      [] OTHER -> Wild
=============================================================================
