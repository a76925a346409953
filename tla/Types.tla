------------------------------- MODULE Types -------------------------------
(***************************************************************************)
(* The types of the language and the rules of the type checker that        *)
(* compare them (TypeChecker.cpp, Type.cpp).  A type is a record: its      *)
(* kind, the size of an array or the number of a class, and the types it   *)
(* is made of.  Two types are equivalent when the records are equal.       *)
(* Aliases and generic arguments are resolved before these rules look.     *)
(***************************************************************************)
EXTENDS Integers, Sequences

CONSTANT Parents,   \* Parents[c]: the classes that class number c inherits from
         RefClass,  \* the numbers of the classes declared "ref class"
         Bits,      \* the width in bits of bool and of each integer type
         Signature  \* the functions of the program: parameter types, result

Ty(k) == [k |-> k, n |-> 0, in |-> <<>>]
Of(k, t) == [k |-> k, n |-> 0, in |-> <<t>>]
ArrayOf(n, t) == [k |-> "array", n |-> n, in |-> <<t>>]
MapOf(key, val) == [k |-> "map", n |-> 0, in |-> <<key, val>>]
Class(c) == [k |-> "class", n |-> c, in |-> <<>>]
NoType == Ty("none")
Inner(t) == t.in[1]

Signed == {"i8", "i16", "i32", "i64", "char"}
Unsigned == {"u8", "u16", "u32", "u64"}
Floats == {"f32", "f64"}
IsInteger(t) == t.k \in (Signed \ {"char"}) \cup Unsigned
IsFloat(t) == t.k \in Floats
IsPtrOrRef(t) == t.k \in {"ptr", "ref"}

(***************************************************************************)
(* lock, view, mut, volatile, const and weak qualify a type.               *)
(***************************************************************************)
Qualifiers == {"lock", "view", "mut", "volatile", "const", "weak"}

RECURSIVE UnwrapConcurrency(_)
UnwrapConcurrency(t) ==
    IF t.k \in Qualifiers THEN UnwrapConcurrency(Inner(t)) ELSE t

RECURSIVE HasMutOrLock(_)
HasMutOrLock(t) ==
    \/ t.k \in {"mut", "lock"}
    \/ /\ t.k \in {"const", "view", "volatile", "weak", "ptr", "ref", "array", "slice"}
       /\ HasMutOrLock(Inner(t))

\* A pointer or a reference that nothing makes mutable is a view.
RECURSIVE HasView(_)
HasView(t) ==
    \/ t.k \in {"view", "const"}
    \/ IsPtrOrRef(t) /\ ~HasMutOrLock(Inner(t))
    \/ t.k \in {"volatile", "weak", "lock", "mut", "array", "slice"} /\ HasView(Inner(t))

RECURSIVE HasLock(_)
HasLock(t) ==
    \/ t.k = "lock"
    \/ t.k \in {"ptr", "ref", "view", "mut"} /\ HasLock(Inner(t))

IsIntegerOrChar(t) == LET u == UnwrapConcurrency(t) IN IsInteger(u) \/ u.k = "char"
IsNumericOrChar(t) == IsIntegerOrChar(t) \/ IsFloat(UnwrapConcurrency(t))
IsCharType(t) == UnwrapConcurrency(t).k \in {"char", "u8", "i8"}

(***************************************************************************)
(* The element type of an array, of a slice, or of a pointer to one: the   *)
(* element seen through a pointer is a pointer with its qualifier.         *)
(***************************************************************************)
IsSequence(t) == t.k \in {"array", "slice"}
PointsToSequence(t) == t.k = "ptr" /\ IsSequence(UnwrapConcurrency(Inner(t)))

ElementPointer(pointee) ==
    LET elem == Inner(UnwrapConcurrency(pointee)) IN
    Of("ptr", IF HasLock(pointee) THEN Of("lock", elem)
              ELSE IF HasMutOrLock(pointee) THEN Of("mut", elem)
              ELSE IF HasView(pointee) THEN Of("view", elem) ELSE elem)

LogicalElement(t) ==
    IF IsSequence(t) THEN Inner(t)
    ELSE IF PointsToSequence(t) THEN ElementPointer(Inner(t)) ELSE NoType

IsDynamic(t) ==
    t.k = "slice" \/ (PointsToSequence(t) /\ UnwrapConcurrency(Inner(t)).k = "slice")
ArraySize(t) == IF t.k = "array" THEN t.n ELSE UnwrapConcurrency(Inner(t)).n

RECURSIVE IsSubclassOf(_, _)
IsSubclassOf(child, parent) ==
    child = parent \/ \E p \in Parents[child] : IsSubclassOf(p, parent)

(***************************************************************************)
(* isCompatible: may a value of type act be given where exp is expected?   *)
(* The tests are made in this order, and the first that applies decides.   *)
(***************************************************************************)
RECURSIVE IsCompatible(_, _)

CompatibleSequences(exp, act) ==
    /\ IsCompatible(LogicalElement(exp), LogicalElement(act))
    /\ \/ IsDynamic(exp)
       \/ ~IsDynamic(act) /\ ArraySize(exp) = ArraySize(act)

\* A class is expected: an instance of a subclass will do, through a pointer
\* when the class is a reference class.
CompatibleClass(exp, act) ==
    LET obj == IF act.k = "ptr" /\ exp.n \in RefClass THEN UnwrapConcurrency(Inner(act))
               ELSE act
    IN  obj.k = "class" /\ IsSubclassOf(obj.n, exp.n)

CompatiblePointers(exp, act) ==
    /\ UnwrapConcurrency(Inner(exp)).k = "opt" <=> UnwrapConcurrency(Inner(act)).k = "opt"
    /\ IsCompatible(Inner(exp), Inner(act))

\* The rules for text: a string and a sequence of characters stand for each other.
CompatibleText(exp, act) ==
    \/ LogicalElement(exp) # NoType /\ IsCharType(LogicalElement(exp)) /\ act.k = "string"
    \/ /\ exp.k = "string"
       /\ \/ LogicalElement(act) # NoType /\ IsCharType(LogicalElement(act))
          \/ act.k = "ptr" /\ IsCharType(Inner(act))

CompatibleScalars(exp, act) ==
    \/ IsIntegerOrChar(exp) /\ IsIntegerOrChar(act)
    \/ IsFloat(exp) /\ (IsFloat(act) \/ IsIntegerOrChar(act))

\* exp and act are given as written and without their outer qualifiers.
CompatibleRaw(exp, act, e, a) ==
    IF e.k = "ptr" /\ PointsToSequence(e) /\ IsCompatible(UnwrapConcurrency(Inner(e)), a)
    THEN TRUE
    ELSE IF /\ IsPtrOrRef(e) /\ IsPtrOrRef(a) /\ HasMutOrLock(exp)
            /\ (HasView(act) \/ (~HasLock(exp) /\ HasLock(act)))
    THEN FALSE
    ELSE IF e = a THEN TRUE
    ELSE IF e.k = "class" /\ a.k = "class" THEN FALSE
    ELSE IF LogicalElement(e) # NoType /\ LogicalElement(a) # NoType
    THEN CompatibleSequences(e, a)
    ELSE IF e.k = "map" /\ a.k = "map"
    THEN IsCompatible(e.in[1], a.in[1]) /\ IsCompatible(e.in[2], a.in[2])
    ELSE IF "any" \in {e.k, a.k} THEN TRUE
    ELSE IF e.k = "ptr" /\ a.k = "null" THEN TRUE
    ELSE IF e.k = "opt"
    THEN a.k = "null" \/ IsCompatible(Inner(e), IF a.k = "opt" THEN Inner(a) ELSE a)
    ELSE IF e.k = "ptr" /\ a.k = "ptr" THEN CompatiblePointers(e, a)
    ELSE IF e.k = "promise" /\ IsCompatible(Inner(e), IF a.k = "promise" THEN Inner(a) ELSE a)
    THEN TRUE
    ELSE IF e.k = "ref" THEN IsCompatible(Inner(e), a)
    ELSE IF a.k = "ref" THEN IsCompatible(e, Inner(a))
    ELSE \/ CompatibleScalars(exp, act)
         \/ e.k = "class" /\ CompatibleClass(e, a)
         \/ CompatibleText(e, a)

IsCompatible(exp, act) ==
    \/ exp = act
    \/ IF exp.k = "opt" THEN act.k = "null" \/ IsCompatible(Inner(exp), act)
       ELSE CompatibleRaw(exp, act, UnwrapConcurrency(exp), UnwrapConcurrency(act))

\* isCastAllowed: what an explicit cast may do beyond an implicit conversion.
CastAllowed(src, dst) ==
    \/ IsCompatible(dst, src)
    \/ "any" \in {src.k, dst.k}
    \/ dst.k = "string"
    \/ /\ IsSequence(src) /\ dst.k = "slice"
       /\ IsCompatible(Inner(src), Inner(dst))
    \/ IsNumericOrChar(src) /\ IsNumericOrChar(dst)
    \/ src.k = "ptr" /\ (dst.k = "ptr" \/ IsIntegerOrChar(dst))
    \/ dst.k = "ptr" /\ (src.k = "null" \/ IsIntegerOrChar(src))

IsCastAllowed(src, dst) == CastAllowed(UnwrapConcurrency(src), UnwrapConcurrency(dst))

\* getCommonSuperType: the left operand's type wins whenever it can.
CommonSuperType(t1, t2) ==
    IF IsCompatible(t1, t2) THEN t1
    ELSE IF IsCompatible(t2, t1) THEN t2
    ELSE IF t1.k = "class" /\ t2.k = "class" /\ IsSubclassOf(t1.n, t2.n) THEN t2
    ELSE IF t1.k = "class" /\ t2.k = "class" /\ IsSubclassOf(t2.n, t1.n) THEN t1
    ELSE Ty("any")
=============================================================================
