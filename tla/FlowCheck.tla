------------------------------ MODULE FlowCheck ------------------------------
(***************************************************************************)
(* The flow analyses of the type checker (TypeChecker.cpp) over the        *)
(* statements of module Lower: code after a statement that always leaves,  *)
(* returns on all paths, and definite assignment.  They are recursive      *)
(* functions over the tree, and are translated as such.                    *)
(*                                                                         *)
(* The state of definite assignment is st: init, the set initializedVars   *)
(* ("y", the variable declared without a value, and "null", the marker for *)
(* unreachable code); brk, the stack loopBreakStates; ok, no error so far. *)
(***************************************************************************)
EXTENDS Naturals, Sequences

(* Statements that end a path: isTerminal *)
RECURSIVE IsTerminal(_)
IsTerminal(s) ==
  CASE s.k \in {"return", "throw", "break", "continue"} -> TRUE
    [] s.k = "block" -> \E i \in 1..Len(s.ss) : IsTerminal(s.ss[i])
    [] s.k = "if" -> IsTerminal(s.then) /\ IsTerminal(s.els)
    [] s.k = "try" ->
         \/ IsTerminal(s.fin)
         \/ /\ IsTerminal(s.body)
            /\ \A i \in 1..Len(s.catches) : IsTerminal(s.catches[i].body)
    [] OTHER -> FALSE

(* Does every path through s return?  checkDefiniteReturn *)
RECURSIVE DefinitelyReturns(_)

\* Mutant: the cases alone decide
SwitchReturnsAnyway(s) ==
  \A i \in 1..Len(s.cases) :
    \/ s.cases[i].body.ss = <<>> /\ i < Len(s.cases)
    \/ DefinitelyReturns(s.cases[i].body)

SwitchReturns(s) ==
  /\ \E i \in 1..Len(s.cases) : s.cases[i].dflt
  /\ \A i \in 1..Len(s.cases) :
       \/ s.cases[i].body.ss = <<>> /\ i < Len(s.cases)
       \/ DefinitelyReturns(s.cases[i].body)

DefinitelyReturns(s) ==
  CASE s.k \in {"return", "throw"} -> TRUE
    [] s.k = "block" -> \E i \in 1..Len(s.ss) : DefinitelyReturns(s.ss[i])
    [] s.k = "if" -> DefinitelyReturns(s.then) /\ DefinitelyReturns(s.els)
    [] s.k = "switch" -> SwitchReturns(s)
    [] s.k = "try" ->
         \/ DefinitelyReturns(s.fin)
         \/ /\ DefinitelyReturns(s.body)
            /\ \A i \in 1..Len(s.catches) : DefinitelyReturns(s.catches[i].body)
    [] s.k \in {"while", "dowhile", "for"} -> s.always
    [] OTHER -> FALSE

(* Definite assignment: the visitors of the statements *)
Meet(sets) == {v \in UNION sets : \A x \in sets : v \in x}
TopBreaks(st) == st.brk[Len(st.brk)]
PushBreaks(st) == [st EXCEPT !.brk = Append(@, {})]
PopBreaks(st) == [st EXCEPT !.brk = SubSeq(@, 1, Len(@) - 1)]
With(st, init) == [st EXCEPT !.init = init]

RECURSIVE Check(_, _)

\* visitBlockStmt: a statement after a terminal one, or after the marker, is an
\* error, and ends the walk
RECURSIVE CheckAll(_, _)
CheckAll(ss, st) ==
  IF ss = <<>> THEN st
  ELSE IF "null" \in st.init
       THEN [st EXCEPT !.ok = FALSE, !.init = @ \ {"null"}]
       ELSE LET after == Check(Head(ss), st)
            IN IF IsTerminal(Head(ss)) /\ Tail(ss) # <<>>
               THEN [after EXCEPT !.ok = FALSE, !.init = @ \ {"null"}]
               ELSE CheckAll(Tail(ss), after)

\* Mutant: a branch that does not leave counts alone
CheckIfOneBranch(s, st) ==
  LET then == Check(s.then, st)
      els == Check(s.els, With(then, st.init))
  IN IF IsTerminal(s.then) THEN els ELSE With(els, then.init)

CheckIf(s, st) ==
  LET then == Check(s.then, st)
      els == Check(s.els, With(then, st.init))
  IN CASE IsTerminal(s.then) /\ ~IsTerminal(s.els) -> els
       [] IsTerminal(s.els) -> With(els, then.init)
       [] OTHER -> With(els, then.init \cap els.init)

CheckWhile(s, st) ==
  LET after == Check(s.body, PushBreaks(st))
      breaks == TopBreaks(after)
  IN With(PopBreaks(after),
          IF ~s.always THEN st.init
          ELSE IF breaks = {} THEN {"null"} ELSE Meet(breaks))

CheckDoWhile(s, st) == Check(s.body, st)

CheckFor(s, st) ==
  LET before == IF s.k = "for" THEN Check(s.init, st) ELSE st
  IN With(PopBreaks(Check(s.body, PushBreaks(before))), before.init)

\* The states at the ends of the cases, walked in order: an empty case that is
\* not the last contributes none.
RECURSIVE CheckCases(_, _, _, _)
CheckCases(cs, before, st, ends) ==
  IF cs = <<>> THEN [st |-> st, ends |-> ends]
  ELSE LET after == Check(Head(cs).body, With(st, before))
           falls == Head(cs).body.ss = <<>> /\ Tail(cs) # <<>>
       IN CheckCases(Tail(cs), before, after,
                     IF falls THEN ends ELSE ends \cup {after.init})

CheckSwitch(s, st) ==
  LET r == CheckCases(s.cases, st.init, PushBreaks(st), {})
      all == r.ends \cup TopBreaks(r.st)
  IN With(PopBreaks(r.st),
          IF ~\E i \in 1..Len(s.cases) : s.cases[i].dflt THEN st.init
          ELSE IF all = {} THEN r.st.init ELSE Meet(all))

RECURSIVE CheckCatches(_, _, _, _, _)
CheckCatches(cs, before, st, ends, any) ==
  IF cs = <<>> THEN With(st, Meet(ends))
  ELSE LET after == Check(Head(cs).body, With(st, before))
           dead == Head(cs).named /\ any
       IN CheckCatches(Tail(cs), before, [after EXCEPT !.ok = @ /\ ~dead],
                       ends \cup {after.init},
                       any \/ (Head(cs).named /\ Head(cs).any))

CheckTry(s, st) ==
  LET body == Check(s.body, st)
  IN Check(s.fin, CheckCatches(s.catches, st.init, body, {body.init}, FALSE))

Check(s, st) ==
  CASE s.k = "block" -> CheckAll(s.ss, st)
    [] s.k = "if" -> CheckIf(s, st)
    [] s.k = "while" -> CheckWhile(s, st)
    [] s.k = "dowhile" -> CheckDoWhile(s, st)
    [] s.k \in {"for", "forin"} -> CheckFor(s, st)
    [] s.k = "switch" -> CheckSwitch(s, st)
    [] s.k = "try" -> CheckTry(s, st)
    [] s.k = "lock" -> Check(s.body, st)
    [] s.k = "defer" -> Check(s.s, st)
    [] s.k = "set" -> With(st, st.init \cup {"y"})
    [] s.k = "use" -> [st EXCEPT !.ok = @ /\ "y" \in st.init]
    [] s.k = "break" ->
         IF st.brk = <<>> THEN st
         ELSE [st EXCEPT !.brk[Len(st.brk)] = @ \cup {st.init}]
    [] OTHER -> st

\* A function body that the checker lets pass.
Accepted(body) == Check(body, [init |-> {}, brk |-> <<>>, ok |-> TRUE]).ok
===============================================================================
