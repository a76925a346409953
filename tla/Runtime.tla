------------------------------ MODULE Runtime ------------------------------
(***************************************************************************)
(* What compiled code sees of the run-time library's collections           *)
(* (array.c, map.c).  A slice is a pointer to a header of three cells: the *)
(* data pointer, the length and the capacity, counted in elements; a view  *)
(* has no capacity of its own.  A table is a pointer to an object whose    *)
(* cells are keys and values in turn, all of them any (module Table has    *)
(* its buckets and lists).                                                 *)
(***************************************************************************)
EXTENDS Backend

VoidPtr == Of("ptr", Ty("void"))
I64 == Ty("i64")

(***************************************************************************)
(* Slices.                                                                 *)
(***************************************************************************)
Header(data, len, cap) == <<Cell(VoidPtr, data), Cell(I64, IntV(len)), Cell(I64, IntV(cap))>>
SliceAt(v, m) == InMemory(v, m, 3)
SliceData(v, m) == IF SliceAt(v, m) THEN m.mem[v.n][1].v ELSE Null
SliceLen(v, m) == IF SliceAt(v, m) THEN m.mem[v.n][2].v.n ELSE 0
SliceCap(v, m) == IF SliceAt(v, m) THEN m.mem[v.n][3].v.n ELSE 0

NewObject(cells, m) ==
    R(PtrV(Len(m.mem) + 1, 0), [m EXCEPT !.mem = Append(@, cells)])
SetHeader(v, data, len, cap, m) == [m EXCEPT !.mem[v.n] = Header(data, len, cap)]
Room(elem, n) == [i \in 1..n |-> Cell(elem, Wild)]

ArrayView(data, len, m) == NewObject(Header(data, len, 0), m)

ArrayAlloc(elem, cap, m) ==
    LET data == NewObject(Room(elem, cap), m)
    IN  IF cap = 0 THEN ArrayView(Null, 0, m) ELSE NewObject(Header(data.r, 0, cap), data.m)

\* The cells of a slice, as many as its length says.
CellsIn(data, len, m) ==
    IF InMemory(data, m, len) THEN SubSeq(m.mem[data.n], data.o + 1, data.o + len)
    ELSE [i \in 1..len |-> Cell(VoidPtr, Wild)]
SliceCells(v, m) == CellsIn(SliceData(v, m), SliceLen(v, m), m)

\* The memory of a data pointer that was given back.
Freed(data, m) == IF data.n \in DOMAIN m.mem THEN [m EXCEPT !.mem[data.n] = <<>>] ELSE m

\* ensure_capacity: growing moves the elements; a view gets memory of its own.
MaxOf(a, b) == IF a < b THEN b ELSE a
NewCapacity(cap, needed) == MaxOf(needed, IF cap = 0 THEN 4 ELSE 2 * cap)
GrowTo(v, cells, cap, elem, m) ==
    LET data == NewObject(cells \o Room(elem, cap - Len(cells)), m)
        kept == IF SliceCap(v, m) > 0 THEN Freed(SliceData(v, m), data.m) ELSE data.m
    IN  SetHeader(v, data.r, Len(cells), cap, kept)
EnsureCapacity(v, needed, elem, m) ==
    IF ~SliceAt(v, m) \/ SliceCap(v, m) >= needed THEN m
    ELSE GrowTo(v, SliceCells(v, m), NewCapacity(SliceCap(v, m), needed), elem, m)

\* The slice holds these cells from now on; its memory has room for them.
SetCells(v, cells, m) ==
    SetHeader(v, SliceData(v, m), Len(cells), SliceCap(v, m),
              StoreCells(cells, SliceData(v, m), m))

CopyAs(elem, x) == Cell(elem, CellAs(Cell(x.ty, x.v), elem))

ArrayPush(v, elem, x, m) ==
    LET big == EnsureCapacity(v, SliceLen(v, m) + 1, elem, m)
    IN  IF ~SliceAt(v, m) THEN Flag(m, TRUE)
        ELSE SetCells(v, Append(SliceCells(v, big), CopyAs(elem, x)), big)

\* pop and remove return a copy of the element.
TakenAt(v, i, m) ==
    LET copy == NewObject(<<SliceCells(v, m)[i + 1]>>, m)
    IN  R(copy.r, SetCells(v, RemoveAt(SliceCells(v, m), i + 1), copy.m))
InRange(v, i, m) == i >= 0 /\ i < SliceLen(v, m)
ArrayRemove(v, i, m) == IF InRange(v, i, m) THEN TakenAt(v, i, m) ELSE R(Null, Panic(m, TRUE))
ArrayPop(v, m) == ArrayRemove(v, SliceLen(v, m) - 1, m)

ArrayInsert(v, elem, i, x, m) ==
    LET big == EnsureCapacity(v, SliceLen(v, m) + 1, elem, m)
    IN  IF ~SliceAt(v, m) \/ i < 0 \/ i > SliceLen(v, m) THEN Panic(m, TRUE)
        ELSE SetCells(v, InsertAt(SliceCells(v, big), i + 1, CopyAs(elem, x)), big)

ArrayExtend(v, elem, src, m) ==
    LET big == EnsureCapacity(v, SliceLen(v, m) + SliceLen(src, m), elem, m)
    IN  IF ~SliceAt(v, m) \/ SliceLen(src, m) = 0 THEN m
        ELSE SetCells(v, SliceCells(v, big) \o SliceCells(src, big), big)

ArrayClone(src, elem, m) ==
    LET new == ArrayAlloc(elem, SliceLen(src, m), m)
    IN  IF ~SliceAt(src, m) THEN R(Null, m)
        ELSE R(new.r, IF SliceLen(src, m) = 0 THEN new.m
                      ELSE SetCells(new.r, SliceCells(src, m), new.m))

\* A view of the elements from start to end, end excluded.  A negative end is
\* compared as an unsigned number and means the whole rest.
ViewFrom(v, from, to, m) ==
    IF from >= to THEN ArrayView(Null, 0, m)
    ELSE ArrayView(PtrV(SliceData(v, m).n, SliceData(v, m).o + from), to - from, m)
ArraySlice(v, from, to, m) ==
    IF ~SliceAt(v, m) THEN R(Null, m)
    ELSE ViewFrom(v, MaxOf(0, from),
                  IF to < 0 \/ to > SliceLen(v, m) THEN SliceLen(v, m) ELSE to, m)

ArrayClear(v, m) == IF SliceAt(v, m) THEN SetHeader(v, SliceData(v, m), 0, SliceCap(v, m), m) ELSE m

ArrayResize(v, elem, n, m) ==
    LET big == EnsureCapacity(v, n, elem, m)
        old == SliceLen(v, m)
    IN  CASE ~SliceAt(v, m) \/ n < 0 -> m
          [] SliceAt(v, m) /\ n > old ->
                 SetCells(v, SliceCells(v, big) \o [i \in 1..(n - old) |-> Cell(elem, Zero(elem))], big)
          [] OTHER -> SetHeader(v, SliceData(v, m), n, SliceCap(v, m), m)

ArrayReverse(v, m) == IF SliceLen(v, m) <= 1 THEN m ELSE SetCells(v, Reverse(SliceCells(v, m)), m)

\* Equality of sequences: by length and by bytes.
ArrayEq(a, b) ==
    Len(a) = Len(b) /\ \A i \in DOMAIN a : SameBits(a[i].v, b[i].v)

(***************************************************************************)
(* Tables.                                                                 *)
(***************************************************************************)
EntriesOf(v, m) == IF v.k = "ptr" /\ v.n \in DOMAIN m.mem THEN m.mem[v.n] ELSE <<>>

\* The number in the vtable of an any; boxes of numbers and strings of one
\* number are compared by content, everything else by address.
AnyType(v) == v.n \div 2
ByContent == {"i32", "u32", "f32", "i64", "u64", "f64"}
ContentOf(v, m) ==
    IF TypeIds[AnyType(v)] \in ByContent THEN ReadAt(v.s[1], Ty(TypeIds[AnyType(v)]), m) ELSE v.s[1]
CmpAny(a, b, m) ==
    \/ a.s[1] = b.s[1]
    \/ /\ ~IsNull(a.s[1]) /\ ~IsNull(b.s[1])
       /\ AnyType(a) = AnyType(b) /\ ContentOf(a, m) = ContentOf(b, m)

\* Where the value of an equal key is, counted from one; zero when nowhere.
FirstIn(found) == IF found = {} THEN 0 ELSE 1 + CHOOSE i \in found : \A j \in found : i <= j
EntryAt(cells, key, m) ==
    FirstIn({i \in DOMAIN cells : i % 2 = 1 /\ CmpAny(cells[i].v, key, m)})

AnyCell(v) == Cell(Ty("any"), v)

MapCreate(m) == NewObject(<<>>, m)

EntrySet(v, at, key, val, m) ==
    IF at = 0 THEN [m EXCEPT !.mem[v.n] = @ \o <<AnyCell(key), AnyCell(val)>>]
    ELSE [m EXCEPT !.mem[v.n][at] = AnyCell(val)]
MapInsert(v, key, val, m) ==
    IF v.n \notin DOMAIN m.mem \/ key.k # "any" \/ IsNull(key.s[1]) THEN m
    ELSE EntrySet(v, EntryAt(m.mem[v.n], key, m), key, val, m)

\* A pointer to the value in the entry, or null.
ValueAt(v, at) == IF at = 0 THEN Null ELSE PtrV(v.n, at - 1)
MapGet(v, key, m) ==
    IF IsNull(key.s[1]) THEN Null ELSE ValueAt(v, EntryAt(EntriesOf(v, m), key, m))

MapHas(v, key, m) == ~IsNull(MapGet(v, key, m))
MapLength(v, m) == Len(EntriesOf(v, m)) \div 2
MapClear(v, m) == IF EntriesOf(v, m) = <<>> THEN m ELSE [m EXCEPT !.mem[v.n] = <<>>]
Unlinked(v, at, m) ==
    IF at = 0 THEN m ELSE [m EXCEPT !.mem[v.n] = RemoveAt(RemoveAt(@, at), at - 1)]
MapRemove(v, key, m) == Unlinked(v, EntryAt(EntriesOf(v, m), key, m), m)

\* any_get: what an any holds is looked at; a sequence is taken for a slice
\* of any, whatever its elements are.
IndexTypes == {"i32", "u32", "i64", "u64"}
AnySliceGet(slice, index, m) ==
    IF InRange(slice, index.n, m)
    THEN R(PtrV(SliceData(slice, m).n, SliceData(slice, m).o + index.n), m)
    ELSE R(Null, Panic(m, TRUE))
AnyGetOf(kind, data, key, m) ==
    CASE kind = "map" -> R(MapGet(data, key, m), m)
      [] kind = "array" /\ TypeIds[AnyType(key)] \in IndexTypes ->
             AnySliceGet(data, ContentOf(key, m), m)
      [] OTHER -> R(Null, Panic(m, TRUE))
AnyGet(v, key, m) ==
    IF v.k # "any" \/ IsNull(v) \/ IsNull(v.s[1]) THEN R(Null, m)
    ELSE AnyGetOf(TypeIds[AnyType(v)], v.s[1], key, m)
=============================================================================
