------------------------------- MODULE MCLower -------------------------------
(***************************************************************************)
(* Small functions for module Lower, and what the type checker says of     *)
(* them.  Left out of the functions, because the lowering has faults there *)
(* (README, section 5): a return of a variable beside paths that are       *)
(* lowered later, and a move into an assignment or a closure (B1, B2); a   *)
(* throw in a lock, and a call there with no try around (B3, InLock); an   *)
(* exception that a try does not catch, with scopes around it (B4, B5:     *)
(* some clause of every try catches all); parameters of async functions    *)
(* (B6); jumps out of a for-in that holds its table (B7, InHeld); a catch  *)
(* without a name (B8); deferred calls that throw (B12); constructors      *)
(* (B13); jumps in finally.                                                *)
(***************************************************************************)
EXTENDS Lower, FlowCheck

Block(ss) == [k |-> "block", ss |-> ss]
Decl(cls) == [k |-> "decl", cls |-> cls]
Call == [k |-> "call", throws |-> TRUE]
Quiet == [k |-> "call", throws |-> FALSE]
Set == [k |-> "set"]
Use == [k |-> "use"]
Throw == [k |-> "throw"]
Return == [k |-> "return", val |-> FALSE]
ReturnX == [k |-> "return", val |-> TRUE]
Break == [k |-> "break"]
Continue == [k |-> "continue"]
Defer(s) == [k |-> "defer", s |-> s]
If(a, b) == [k |-> "if", then |-> a, els |-> b]
Loop(k, always, b) == [k |-> k, always |-> always, init |-> None, body |-> b]
ForInit(b) == [k |-> "for", always |-> FALSE, init |-> Decl("shared"), body |-> b]
ForIn(held, b) == [k |-> "forin", held |-> held, body |-> b]
Switch(cs) == [k |-> "switch", cases |-> cs]
Case(b) == [dflt |-> FALSE, body |-> b]
Default(b) == [dflt |-> TRUE, body |-> b]
Lock(b) == [k |-> "lock", body |-> b]
Try(b, cs, f) == [k |-> "try", body |-> b, catches |-> cs, fin |-> f]
Catch(any, b) == [any |-> any, named |-> TRUE, body |-> b]

(***************************************************************************)
(* The statements of a place: jumps that are legal there, and the ways to  *)
(* leave the function that the lowering cleans up after (README, known     *)
(* limits): tried says that a call there has a handler in this function.   *)
(***************************************************************************)
Place == [jumps : SUBSET {Break, Continue}, ways : SUBSET {Call, Throw, Return},
          tried : BOOLEAN]

InLoop(p) == [p EXCEPT !.jumps = {Break, Continue}]
InSwitch(p) == [p EXCEPT !.jumps = @ \cup {Break}]
InLock(p) == [p EXCEPT !.ways = @ \cap IF p.tried THEN {Return, Call} ELSE {Return}]
InHeld(p) == [InLoop(p) EXCEPT !.ways = {}]
InTry(p) == [p EXCEPT !.ways = @ \cup {Call, Throw}, !.tried = TRUE]

Plain == {Decl("owned"), Defer(Quiet)}
Leaves(p) == p.jumps \cup p.ways

\* Blocks without a block in them.
Flat(p) ==
  {Block(<<>>)}
  \cup (IF Return \in p.ways THEN {Block(<<Decl("owned"), ReturnX>>)} ELSE {})
  \cup {Block(<<s>>) : s \in Leaves(p) \cup Plain}
  \cup {Block(<<d, s>>) : d \in Plain, s \in Leaves(p) \cup Plain \cup {Decl("shared")}}
  \cup {Block(<<Call, s>>) : s \in IF Call \in p.ways THEN Plain ELSE {}}

\* The compound statements, given what may stand in their bodies.
Compounds(p, B(_)) ==
  {If(b, None) : b \in B(p)} \cup {If(Block(<<Quiet>>), b) : b \in B(p)}
  \cup {Loop("while", FALSE, b) : b \in B(InLoop(p))}
  \cup {Loop("dowhile", FALSE, b) : b \in B(InLoop(p))}
  \cup {ForInit(b) : b \in B(InLoop(p))}
  \cup {ForIn(TRUE, b) : b \in B(InHeld(p))}
  \cup {ForIn(FALSE, b) : b \in B(InLoop(p))}
  \cup {Switch(<<Case(b), Case(Block(<<>>)), Default(Block(<<Quiet>>))>>) : b \in B(InSwitch(p))}
  \cup {Switch(<<Default(b), Case(Block(<<>>))>>) : b \in B(InSwitch(p))}
  \cup {Lock(b) : b \in B(InLock(p))}
  \cup {Try(b, <<Catch(FALSE, Block(<<Quiet>>)), Catch(TRUE, Block(<<>>))>>, None) : b \in B(InTry(p))}
  \cup {Try(Block(<<Decl("shared"), Call>>), <<Catch(TRUE, b)>>, Block(<<Quiet>>)) : b \in B(p)}

Nested(p) ==
  {Block(<<d, c, Decl("shared")>>) : d \in Plain, c \in Compounds(p, Flat)}

Bodies(p) == {Block(<<Decl("owned"), c>>) : c \in Compounds(p, Nested)}

Anywhere == [jumps |-> {}, ways |-> {Call, Throw, Return}, tried |-> FALSE]
InAsync == [Anywhere EXCEPT !.tried = TRUE]

(***************************************************************************)
(* Functions about returns and definite assignment: a variable without a   *)
(* value is set and used around jumps and calls that can throw.            *)
(***************************************************************************)
FlowFlat(p) ==
  {Block(<<>>), Block(<<Call, Set>>)}
  \cup {Block(<<s>>) : s \in {Set, Use, Return, Throw} \cup p.jumps}
  \cup {Block(<<Set, s>>) : s \in {Return} \cup p.jumps}

FlowCompounds(p, B(_)) ==
  {If(b, e) : b \in B(p), e \in {None, Block(<<Set>>), Block(<<Return>>)}}
  \cup {Loop("while", always, b) : always \in BOOLEAN, b \in B(InLoop(p))}
  \cup {Loop("dowhile", always, b) : always \in BOOLEAN, b \in B([p EXCEPT !.jumps = {}])}
  \cup {Loop("for", TRUE, b) : b \in B(InLoop(p))}
  \cup {ForIn(FALSE, b) : b \in B(InLoop(p))}
  \cup {Switch(<<Case(Block(<<>>)), Case(b), Default(Block(<<Set>>))>>) : b \in B(InSwitch(p))}
  \cup {Switch(<<Case(Block(<<Return>>)), Default(b)>>) : b \in B(InSwitch(p))}
  \cup {Switch(<<Case(b)>>) : b \in B(InSwitch(p))}
  \cup {Try(b, <<Catch(TRUE, Block(<<Set>>))>>, None) : b \in B(p)}
  \cup {Try(Block(<<Call, Set>>), <<Catch(TRUE, b)>>, None) : b \in B(p)}
  \cup {Try(b, <<Catch(TRUE, Block(<<Return>>))>>, Block(<<Set>>)) : b \in B(p)}

FlowNested(p) ==
  {Block(<<c>>) : c \in FlowCompounds(p, FlowFlat)}
  \cup {Block(<<c, Use>>) : c \in FlowCompounds(p, FlowFlat)}

FlowBodies ==
  {Block(<<c>> \o e) : c \in FlowCompounds(Anywhere, FlowNested), e \in {<<>>, <<Use>>}}

(***************************************************************************)
(* The functions of the runs                                               *)
(***************************************************************************)
Fn(kind, param, body) == [kind |-> kind, param |-> param, body |-> body]
OneLevel(p) == {Block(<<d, c, Decl("shared")>>) : d \in Plain, c \in Compounds(p, Flat)}

AcceptedPrograms ==
  {f \in {Fn("plain", "shared", b) : b \in Bodies(Anywhere)}
         \cup {Fn("main", "none", b) : b \in OneLevel(Anywhere)}
         \cup {Fn("async", "none", b) : b \in OneLevel(InAsync)}
         \cup {Fn("plain", "none", b) : b \in FlowBodies} : Accepted(f.body)}

(* ------------------------------ properties ----------------------------- *)

RECURSIVE HasBreak(_)
HasBreak(s) ==
  CASE s.k = "break" -> TRUE
    [] s.k = "block" -> \E i \in 1..Len(s.ss) : HasBreak(s.ss[i])
    [] s.k = "if" -> HasBreak(s.then) \/ HasBreak(s.els)
    [] s.k \in {"while", "dowhile", "for", "forin", "lock"} -> HasBreak(s.body)
    [] s.k = "switch" -> \E i \in 1..Len(s.cases) : HasBreak(s.cases[i].body)
    [] s.k = "try" -> \/ HasBreak(s.body) \/ HasBreak(s.fin)
                      \/ \E i \in 1..Len(s.catches) : HasBreak(s.catches[i].body)
    [] OTHER -> FALSE

\* checkDefiniteReturn is sound for a function without a break (with one it is not:
\* the checker does not see that a break leaves a loop or a switch): when it says that
\* every path returns, no run of the lowered function falls off its end into the
\* return with a default value that lowerFunction appends.
DefiniteReturnSound ==
  run.end = "end" => ~DefinitelyReturns(prog.body) \/ HasBreak(prog.body)

\* Definite assignment is sound: in a function that the checker accepts, no run of
\* the lowered blocks reads the variable before it has been assigned.  The functions
\* have no break or continue in a do-while, no use in finally and no assignment in
\* defer: there the checker is wrong (README, section 5).
DefiniteAssignmentSound == "unset" \notin run.faults
===============================================================================
