------------------------------- MODULE Values -------------------------------
(***************************************************************************)
(* A program on its way through the compiler: the type checker looks at it *)
(* (TypeCheck), HIRGen translates what it accepted (HirGen), and the       *)
(* lowering, the back end and the library run it (LowerExpr, Backend,      *)
(* Runtime), one statement after the other.  Beside it the checked program *)
(* is run by its meaning (Meaning).  They must agree.                      *)
(***************************************************************************)
EXTENDS LowerExpr, Meaning

CONSTANT Programs   \* the programs compiled: sequences of statements

Checker == INSTANCE HirGen

VARIABLES
    prog,     \* the program
    stage,    \* how far the compiler is: "source", "running", "rejected"
    tree,     \* the checked statements that have not run yet
    mach,     \* the machine that runs the compiled program
    shown,    \* the texts it has made
    ref       \* the state of the program by its meaning

vars == <<prog, stage, tree, mach, shown, ref>>

Begin(p) ==
    /\ prog = p
    /\ stage = "source"
    /\ tree = <<>>
    /\ mach = Empty
    /\ shown = <<>>
    /\ ref = Start

Init == \E p \in Programs : Begin(p)

Accept(c) ==
    IF c.s.err THEN stage' = "rejected" /\ tree' = tree
    ELSE stage' = "running" /\ tree' = c.es

\* TypeChecker::check on the whole program; the first error ends the compilation.
Check ==
    /\ stage = "source"
    /\ Accept(Checker!CheckProgram(prog))
    /\ UNCHANGED <<prog, mach, shown, ref>>

\* A template is a text the program shows.
ShownBy(st, g) ==
    IF st.k = "tmpl" /\ ~g.m.dead THEN Append(shown, TextIn(g.r.v)) ELSE shown

Executed(st, g) == mach' = g.m /\ shown' = ShownBy(st, g)

\* One statement: translated to HIR, lowered and executed.
Run ==
    /\ stage = "running" /\ tree # <<>> /\ Settled(ref) /\ ~(mach.dead /\ ref.dead)
    /\ tree' = Tail(tree)
    /\ Executed(Head(tree), Expr(Checker!HirStatement(Head(tree)), mach))
    /\ ref' = Perform(Head(tree), ref)
    /\ UNCHANGED <<prog, stage>>

Done ==
    /\ \/ stage = "rejected"
       \/ stage = "running" /\ (tree = <<>> \/ ~Settled(ref) \/ (mach.dead /\ ref.dead))
    /\ UNCHANGED vars

Next == Check \/ Run \/ Done

Spec == Init /\ [][Next]_vars

(***************************************************************************)
(* Properties.                                                             *)
(***************************************************************************)

\* What the compiled program shows is what the program means: conversions to
\* and from any and optionals, texts and arithmetic (coerceValue, boxValue,
\* unboxValue, coerceToString, visit(HIRBinaryExpr)) lose nothing.  It is said
\* of programs up to the first thing that the language leaves open or that the
\* compiler is known to do otherwise (V1 to V29 in Meaning): the Handbook's
\* panics on a missing key (V22) and a wrong cast of an any (V21) are two.
ValuesKept == Settled(ref) => shown = ref.shown

\* What makes compiled code read memory as what it does not hold: numbers and
\* anys given to optionals (V1, V2), compound assignments nobody checks (V4),
\* the sides of ?? (V6), an any given null (V7), ++m[k] (V10), arrays compared
\* with slices (V14), x?[i] (V15), built-ins on optionals (V18), an any cast to
\* what it does not hold or beside an optional (V21, V29), null pointers (V28),
\* and pointers that the program lets stray.
MisreadsMemory == {"V1", "V2", "V4", "V6", "V7", "V10", "V14", "V15", "V18", "V21", "V28", "V29", "stray"}

\* Compiled code never reads or writes memory as something it does not hold,
\* but for the faults just listed: the size and kind of every load and store
\* is that of the cell.
NoWildRead == ref.faults \cap MisreadsMemory = {} /\ ~ref.stuck => ~mach.wild

\* What the Handbook and the tests say panics and does not, or the other way
\* round: x?[i] of null (V15), an any or null cast to what it is not (V21,
\* V28), a missing key (V22), a zero divisor (V25); and what is evaluated
\* twice: the operand of ~ and the place of a compound assignment (V23).
AltersEffects == {"V15", "V21", "V22", "V23", "V25", "V28"}

\* Every call is made once, in the order it was written, and only when its
\* branch is taken, and the program panics exactly where it should, but for
\* the faults just listed.
EffectsOnce == ref.faults \cap AltersEffects = {} /\ ~ref.stuck =>
                   mach.out = ref.out /\ mach.dead = ref.dead

\* An accepted program never has null where a plain type was declared: the
\* checker lets no optional through without ?? or a cast.
NullSafe == ~ref.stuck
=============================================================================
