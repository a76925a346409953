-------------------------------- MODULE Lower --------------------------------
(***************************************************************************)
(* The lowering of a function's statements to MIR (HIRToMIRConverter in    *)
(* LowerHIRToMIR.cpp) and the runs of the blocks it emits.                 *)
(*                                                                         *)
(* The converter is a recursive visitor.  Its call stack is `todo`, the    *)
(* sequence of what is left to do: a statement to visit, or the rest of a  *)
(* visitor that has called another one.  An action is the part of a        *)
(* visitor between two such calls.  Cleanup code (drops of owned and       *)
(* shared variables, deferred statements, unlocks) is emitted where a path *)
(* leaves a scope, so the same cleanup is lowered several times, once for  *)
(* every way out.  When the function is lowered its blocks are run: every  *)
(* branch, and every call that can throw, may go either way.  The ghost    *)
(* `run` follows what is alive on the path.                                *)
(*                                                                         *)
(* Statements are records with a kind k.  Expressions are left out but for *)
(* the ones that matter here: a call, a value that the scope must drop     *)
(* (class "owned" or "shared"), the variable a return hands out, and one   *)
(* variable declared without a value ("set" and "use").  Variables that    *)
(* the scopes drop all have one name, so a declaration hides another.      *)
(***************************************************************************)
EXTENDS Integers, Sequences, SequencesExt

CONSTANT Programs    \* the functions to lower: [kind, param, body]

VARIABLES prog,      \* the function that is lowered
          todo,      \* what the visitors have left to do
          low,       \* the members of HIRToMIRConverter
          mir,       \* the blocks of the MIR function, and the insert point
          run        \* a run of the function that was emitted

vars == <<prog, todo, low, mir, run>>

None == [k |-> "none"]
EmptyScope == [defers |-> <<>>, owned |-> <<>>, shared |-> <<>>]
Top(s) == s[Len(s)]
Pop(s) == SubSeq(s, 1, Len(s) - 1)

(* --------------------------- the MIR builder --------------------------- *)

Ins(op, a, to) == [op |-> op, a |-> a, to |-> to, cls |-> ""]
Val(op, a, cls) == [op |-> op, a |-> a, to |-> <<>>, cls |-> cls]

Terminators == {"br", "condbr", "ret", "switch", "invoke", "throw", "resume",
                "unreachable"}

\* getTerminator: only the last instruction is looked at
HasTerminator(m) ==
  /\ m.blocks[m.cur] # <<>>
  /\ Top(m.blocks[m.cur]).op \in Terminators

Put(m, i) == [m EXCEPT !.blocks[m.cur] = Append(@, i)]
PutAll(m, is) == [m EXCEPT !.blocks[m.cur] = @ \o is]
NewBlocks(m, n) == [m EXCEPT !.blocks = @ \o [i \in 1..n |-> <<>>]]
At(m, b) == [m EXCEPT !.cur = b]
Br(m, b) == Put(m, Ins("br", 0, <<b>>))
BrIfOpen(m, b) == IF HasTerminator(m) THEN m ELSE Br(m, b)
PutIfOpen(m, i) == IF HasTerminator(m) THEN m ELSE Put(m, i)
Blocks == Len(mir.blocks)

(* ------------------------------ the visitor ---------------------------- *)

Doing(t) == todo # <<>> /\ Head(todo).t = t
Visiting(k) == Doing("visit") /\ Head(todo).s.k = k
It == Head(todo)
Then(tasks) == todo' = tasks \o Tail(todo)
Visit(s) == [t |-> "visit", s |-> s]
VisitIfAny(s) == IF s.k = "none" THEN <<>> ELSE <<Visit(s)>>

Depth == Len(low.scopes)
PushScope(l, sc) == [l EXCEPT !.scopes = Append(@, sc)]

\* emitScopeCleanup of the scopes deeper than `depth`, innermost first.  `moved`
\* is the variable that visitReturnStmt takes out of each scope on the way.
Cleanups(depth, moved) ==
  [i \in 1..(Depth - depth) |->
     [t |-> "cleanup", i |-> Depth + 1 - i, unwind |-> TRUE, moved |-> moved]]
CleanupTop(unwind) ==
  <<[t |-> "cleanup", i |-> Depth, unwind |-> unwind, moved |-> 0]>>
Join(br, at) == <<[t |-> "join", br |-> br, at |-> at]>>
PopScope == <<[t |-> "popscope", sym |-> low.sym]>>
TryDepth == IF low.tries = <<>> THEN 0 ELSE Top(low.tries)

Without(s, a) == SelectSeq(s, LAMBDA x : x # a)

\* The scope's lists are taken, emptied while its cleanup is lowered, and put
\* back afterwards when another path through the scope is still to be lowered.
EmitScopeCleanup ==
  /\ Doing("cleanup")
  /\ LET sc == low.scopes[It.i]
         kept == [sc EXCEPT !.owned = Without(@, It.moved),
                            !.shared = Without(@, It.moved)]
     IN /\ Then([d \in 1..Len(kept.defers) |->
                   [t |-> "deferred", e |-> Reverse(kept.defers)[d]]]
                \o <<[t |-> "drops", owned |-> Reverse(kept.owned),
                                     shared |-> Reverse(kept.shared)]>>
                \o IF It.unwind
                   THEN <<[t |-> "restore", i |-> It.i, scope |-> kept]>>
                   ELSE <<>>)
        /\ low' = [low EXCEPT !.scopes[It.i] = EmptyScope]
  /\ UNCHANGED <<prog, mir, run>>

\* A deferred statement is visited again wherever its scope is left; for a lock
\* the unlock is emitted.
EmitDeferred ==
  /\ Doing("deferred")
  /\ \/ /\ HasTerminator(mir)
        /\ Then(<<>>)
        /\ UNCHANGED mir
     \/ /\ ~HasTerminator(mir)
        /\ It.e.s.k = "lock"
        /\ mir' = Put(mir, Ins("unlock", It.e.id, <<>>))
        /\ Then(<<>>)
     \/ /\ ~HasTerminator(mir)
        /\ It.e.s.k # "lock"
        /\ mir' = Put(mir, Ins("run", It.e.id, <<>>))
        /\ Then(<<Visit(It.e.s)>>)
  /\ UNCHANGED <<prog, low, run>>

EmitDrops ==
  /\ Doing("drops")
  /\ mir' = IF HasTerminator(mir) THEN mir
            ELSE PutAll(mir, [i \in 1..Len(It.owned) |->
                                Val("drop", It.owned[i], "owned")]
                          \o [i \in 1..Len(It.shared) |->
                                Val("drop", It.shared[i], "shared")])
  /\ Then(<<>>)
  /\ UNCHANGED <<prog, low, run>>

\* Mutant: the lists stay empty, so the paths lowered later clean nothing
RestoreScopeForgotten ==
  /\ Doing("restore")
  /\ Then(<<>>)
  /\ UNCHANGED <<prog, low, mir, run>>

RestoreScope ==
  /\ Doing("restore")
  /\ low' = [low EXCEPT !.scopes[It.i] = It.scope]
  /\ Then(<<>>)
  /\ UNCHANGED <<prog, mir, run>>

\* "createBr unless terminated, then setInsertPoint", which ends most visitors
JoinBlocks ==
  /\ Doing("join")
  /\ mir' = LET m == BrIfOpen(mir, It.br)
            IN IF It.at = 0 THEN m ELSE At(m, It.at)
  /\ Then(<<>>)
  /\ UNCHANGED <<prog, low, run>>

PopLexicalScope ==
  /\ Doing("popscope")
  /\ low' = [low EXCEPT !.scopes = Pop(@), !.sym = It.sym]
  /\ Then(<<>>)
  /\ UNCHANGED <<prog, mir, run>>

(* ----------------------------- statements ------------------------------ *)

VisitBlockStmt ==
  /\ Visiting("block")
  /\ low' = PushScope(low, EmptyScope)
  /\ Then(<<[t |-> "stmts", ss |-> It.s.ss]>> \o PopScope)
  /\ UNCHANGED <<prog, mir, run>>

\* The statements of a block, until one of them has terminated the insert block.
BlockStatements ==
  /\ Doing("stmts")
  /\ Then(IF HasTerminator(mir) THEN <<>>
          ELSE IF It.ss = <<>> THEN CleanupTop(FALSE)
          ELSE <<Visit(Head(It.ss)), [t |-> "stmts", ss |-> Tail(It.ss)]>>)
  /\ UNCHANGED <<prog, low, mir, run>>

\* A declaration with a value: the alloca gets its value, its scope will drop it.
VisitVarDeclStmt ==
  /\ Visiting("decl")
  /\ LET a == low.next
         cls == It.s.cls
     IN /\ mir' = Put(mir, Val("new", a, cls))
        /\ low' = [low EXCEPT !.scopes[Depth][cls] = Append(@, a),
                              !.sym = a, !.next = a + 1]
  /\ Then(<<>>)
  /\ UNCHANGED <<prog, run>>

\* An assignment to, or a read of, the variable declared without a value.
VisitExprStmt ==
  /\ Visiting("set") \/ Visiting("use")
  /\ mir' = Put(mir, Ins(It.s.k, 0, <<>>))
  /\ Then(<<>>)
  /\ UNCHANGED <<prog, low, run>>

\* return and return x: every scope is cleaned, but for the alloca that holds x
VisitReturnStmt ==
  /\ Visiting("return")
  /\ LET a == IF It.s.val THEN low.sym ELSE 0
     IN /\ mir' = IF a = 0 THEN mir ELSE Put(mir, Ins("load", a, <<>>))
        /\ Then(Cleanups(0, a) \o <<[t |-> "emit", i |-> Ins("ret", a, <<>>)]>>)
  /\ UNCHANGED <<prog, low, run>>

\* A return, throw or resume that is emitted unless the cleanup terminated.
EmitLast ==
  /\ Doing("emit")
  /\ mir' = PutIfOpen(mir, It.i)
  /\ Then(<<>>)
  /\ UNCHANGED <<prog, low, run>>

VisitThrowStmt ==
  /\ Visiting("throw")
  /\ Then(Cleanups(TryDepth, 0)
          \o <<[t |-> "emit", i |->
                  Ins("throw", 0, IF low.dest = 0 THEN <<>> ELSE <<low.dest>>)]>>)
  /\ UNCHANGED <<prog, low, mir, run>>

VisitIfStmt ==
  /\ Visiting("if")
  /\ LET b == Blocks
     IN /\ mir' = At(Put(NewBlocks(mir, 3), Ins("condbr", 0, <<b + 1, b + 2>>)),
                     b + 1)
        /\ Then(<<Visit(It.s.then)>> \o Join(b + 3, b + 2)
                \o VisitIfAny(It.s.els) \o Join(b + 3, b + 3))
  /\ UNCHANGED <<prog, low, run>>

\* What the loops and the switch push before they visit a body, and pop after it.
EnterLoop(l, cond, merge, depth) ==
  [l EXCEPT !.cond = Append(@, cond), !.merge = Append(@, merge),
            !.cont = Append(@, depth), !.brk = Append(@, depth)]

LeaveLoop ==
  /\ Doing("leaveloop")
  /\ low' = [low EXCEPT !.cond = Pop(@), !.merge = Pop(@),
                        !.cont = Pop(@), !.brk = Pop(@)]
  /\ Then(<<>>)
  /\ UNCHANGED <<prog, mir, run>>

\* A condition that is the literal true: the other edge is there, but never taken.
LoopBr(always, yes, no) == Ins("condbr", IF always THEN 1 ELSE 0, <<yes, no>>)

VisitWhileStmt ==
  /\ Visiting("while")
  /\ LET b == Blocks    \* b + 1 while.cond, b + 2 while.body, b + 3 while.end
     IN /\ mir' = At(Put(At(Br(NewBlocks(mir, 3), b + 1), b + 1),
                         LoopBr(It.s.always, b + 2, b + 3)), b + 2)
        /\ low' = EnterLoop(low, b + 1, b + 3, Depth)
        /\ Then(<<Visit(It.s.body), [t |-> "leaveloop"]>> \o Join(b + 1, b + 3))
  /\ UNCHANGED <<prog, run>>

VisitDoWhileStmt ==
  /\ Visiting("dowhile")
  /\ LET b == Blocks    \* b + 1 dowhile.body, b + 2 dowhile.cond, b + 3 dowhile.end
     IN /\ mir' = At(Put(NewBlocks(mir, 3), LoopBr(TRUE, b + 1, b + 2)), b + 1)
        /\ low' = EnterLoop(low, b + 2, b + 3, Depth)
        /\ Then(<<Visit(It.s.body), [t |-> "leaveloop"]>> \o Join(b + 2, b + 2)
                \o <<[t |-> "emit", i |-> LoopBr(It.s.always, b + 1, b + 3)]>>
                \o Join(b + 3, b + 3))
  /\ UNCHANGED <<prog, run>>

\* The initialisation belongs to the scope around the loop.
VisitForStmt ==
  /\ Visiting("for")
  /\ Then(VisitIfAny(It.s.init) \o <<[t |-> "forcond", s |-> It.s, sym |-> low.sym]>>)
  /\ UNCHANGED <<prog, low, mir, run>>

ForCond ==
  /\ Doing("forcond")
  /\ LET b == Blocks    \* b + 1 for.cond, b + 2 for.body, b + 3 for.inc, b + 4 for.end
     IN /\ mir' = At(Put(At(Br(NewBlocks(mir, 4), b + 1), b + 1),
                         IF It.s.always THEN Ins("br", 0, <<b + 2>>)
                         ELSE LoopBr(FALSE, b + 2, b + 4)), b + 2)
        /\ low' = EnterLoop(low, b + 3, b + 4, Depth)
        /\ Then(<<Visit(It.s.body), [t |-> "leaveloop"]>> \o Join(b + 3, b + 3)
                \o Join(b + 1, b + 4) \o <<[t |-> "symbols", sym |-> It.sym]>>)
  /\ UNCHANGED <<prog, run>>

RestoreSymbols ==
  /\ Doing("symbols")
  /\ low' = [low EXCEPT !.sym = It.sym]
  /\ Then(<<>>)
  /\ UNCHANGED <<prog, mir, run>>

\* for x in c: a collection that is counted is kept alive by a reference that no
\* scope knows of.  The body's scope is pushed before the depths are noted.
KeepAlive(m, a, held) == IF held THEN Put(m, Val("new", a, "held")) ELSE m

ForInHead(m, b) ==    \* b + 1 forin.cond, b + 2 .body, b + 3 .inc, b + 4 .end
  At(Put(At(Br(m, b + 1), b + 1), LoopBr(FALSE, b + 2, b + 4)), b + 2)

ForInEnd(b, a, held) ==
  <<[t |-> "leaveloop"],
    [t |-> "cleanup", i |-> Depth + 1, unwind |-> FALSE, moved |-> 0]>>
  \o PopScope \o Join(b + 3, b + 3) \o Join(b + 1, b + 4)
  \o IF held THEN <<[t |-> "emit", i |-> Val("drop", a, "held")]>> ELSE <<>>

VisitForInStmt ==
  /\ Visiting("forin")
  /\ LET b == Blocks
         a == low.next
         held == It.s.held
     IN /\ mir' = ForInHead(KeepAlive(NewBlocks(mir, 4), a, held), b)
        /\ low' = EnterLoop([PushScope(low, EmptyScope) EXCEPT
                               !.next = IF held THEN a + 1 ELSE a],
                            b + 3, b + 4, Depth + 1)
        /\ Then(<<Visit(It.s.body)>> \o ForInEnd(b, a, held))
  /\ UNCHANGED <<prog, run>>

\* The cases other than the default, in order, with their blocks: an empty case
\* falls into the next of these, and the last one into the default.
CaseBodies(cs, dflt, end) ==
  LET after(i) == IF i < Len(cs) THEN dflt + i + 1 ELSE dflt
      next(i) == IF cs[i].body.ss # <<>> THEN end ELSE after(i)
  IN FlattenSeq([i \in 1..Len(cs) |->
                   <<Visit(cs[i].body)>> \o Join(next(i), after(i))])

\* A case with a long range is a comparison in front of the switch instruction,
\* with the same target.
VisitSwitchStmt ==
  /\ Visiting("switch")
  /\ LET cs == SelectSeq(It.s.cases, LAMBDA c : ~c.dflt)
         ds == SelectSeq(It.s.cases, LAMBDA c : c.dflt)
         end == Blocks + 1    \* switch.end, then switch.default, then the cases
         dflt == IF ds = <<>> THEN end ELSE end + 1
         head == dflt + Len(cs) + 1
     IN /\ mir' = At(Put(At(Br(NewBlocks(mir, head - end + 1), head), head),
                         Ins("switch", 0, <<dflt>> \o [i \in 1..Len(cs) |-> dflt + i])),
                     IF cs = <<>> THEN dflt ELSE dflt + 1)
        /\ low' = [low EXCEPT !.merge = Append(@, end), !.brk = Append(@, Depth)]
        /\ Then(CaseBodies(cs, dflt, end)
                \o (IF ds = <<>> THEN <<>> ELSE <<Visit(ds[1].body)>> \o Join(end, end))
                \o <<[t |-> "leaveswitch", at |-> end]>>)
  /\ UNCHANGED <<prog, run>>

LeaveSwitch ==
  /\ Doing("leaveswitch")
  /\ low' = [low EXCEPT !.merge = Pop(@), !.brk = Pop(@)]
  /\ mir' = At(mir, It.at)
  /\ Then(<<>>)
  /\ UNCHANGED <<prog, run>>

VisitBreakStmt ==
  /\ Visiting("break")
  /\ Then(IF low.merge # <<>> /\ low.brk # <<>>
          THEN Cleanups(Top(low.brk), 0) \o Join(Top(low.merge), 0)
          ELSE <<>>)
  /\ UNCHANGED <<prog, low, mir, run>>

VisitContinueStmt ==
  /\ Visiting("continue")
  /\ Then(IF low.cond # <<>> /\ low.cont # <<>>
          THEN Cleanups(Top(low.cont), 0) \o Join(Top(low.cond), 0)
          ELSE <<>>)
  /\ UNCHANGED <<prog, low, mir, run>>

\* Deferring emits nothing; the ghost instruction "reg" marks the place.
PushDeferred(l, s) ==
  [l EXCEPT !.scopes[Len(l.scopes)].defers = Append(@, [s |-> s, id |-> l.next]),
            !.next = @ + 1]

VisitDeferStmt ==
  /\ Visiting("defer")
  /\ low' = PushDeferred(low, It.s.s)
  /\ mir' = Put(mir, Ins("reg", low.next, <<>>))
  /\ Then(<<>>)
  /\ UNCHANGED <<prog, run>>

VisitLockStmt ==
  /\ Visiting("lock")
  /\ LET b == Blocks    \* b + 1 lock.cleanup, b + 2 lock.cont
     IN /\ mir' = Put(NewBlocks(mir, 2), Ins("lock", low.next, <<>>))
        /\ low' = [PushDeferred(low, It.s) EXCEPT !.dest = b + 1]
        /\ Then(<<Visit(It.s.body),
                  [t |-> "lockend", id |-> low.next, b |-> b, old |-> low.dest]>>)
  /\ UNCHANGED <<prog, run>>

\* Mutant: the way out of the function is a plain return
UnwindReturns(b) == IF b = 0 THEN Ins("ret", 0, <<>>) ELSE Ins("br", 0, <<b>>)
\* What leads to an unwind destination, or out of the function.
UnwindTo(b) == IF b = 0 THEN Ins("resume", 0, <<>>) ELSE Ins("br", 0, <<b>>)

\* Mutant: the lock stays in the list of deferred statements
LockEndKeepsDeferred ==
  /\ Doing("lockend")
  /\ LET unlock == Ins("unlock", It.id, <<>>)
     IN /\ low' = [low EXCEPT !.dest = It.old]
        /\ mir' = Put(At(PutAll(At(BrIfOpen(mir, It.b + 2), It.b + 1),
                                <<unlock, UnwindTo(It.old)>>), It.b + 2), unlock)
  /\ Then(<<>>)
  /\ UNCHANGED <<prog, run>>

LockEnd ==
  /\ Doing("lockend")
  /\ LET unlock == Ins("unlock", It.id, <<>>)
         ds == low.scopes[Depth].defers
         mine == ds # <<>> /\ Top(ds).id = It.id
     IN /\ low' = [low EXCEPT !.dest = It.old,
                              !.scopes[Depth].defers = IF mine THEN Pop(@) ELSE @]
        /\ mir' = Put(At(PutAll(At(BrIfOpen(mir, It.b + 2), It.b + 1),
                                <<unlock, UnwindTo(It.old)>>), It.b + 2), unlock)
  /\ Then(<<>>)
  /\ UNCHANGED <<prog, run>>

\* A call with something to clean, or with a handler, is an invoke whose unwind
\* edge has the cleanup of every scope up to the try; the unwind destination is
\* hidden while that cleanup is lowered.
NeedsInvoke ==
  low.dest # 0 \/ \E i \in 1..Depth : low.scopes[i] # EmptyScope

VisitCallExpr ==
  /\ Visiting("call")
  /\ LET b == Blocks    \* b + 1 invoke.cont, b + 2 invoke.cleanup
         throws == IF It.s.throws THEN 1 ELSE 0
     IN IF NeedsInvoke
        THEN /\ mir' = At(Put(NewBlocks(mir, 2), Ins("invoke", throws, <<b + 1, b + 2>>)),
                          b + 2)
             /\ low' = [low EXCEPT !.dest = 0, !.body = 0]
             /\ Then(Cleanups(TryDepth, 0)
                     \o <<[t |-> "callend", b |-> b + 1,
                           dest |-> low.dest, body |-> low.body]>>)
        ELSE /\ mir' = Put(mir, Ins("call", throws, <<>>))
             /\ Then(<<>>)
             /\ UNCHANGED low
  /\ UNCHANGED <<prog, run>>

CallEnd ==
  /\ Doing("callend")
  /\ low' = [low EXCEPT !.dest = It.dest, !.body = It.body]
  /\ mir' = At(Put(mir, UnwindTo(IF It.body # 0 THEN It.body ELSE It.dest)), It.b)
  /\ Then(<<>>)
  /\ UNCHANGED <<prog, run>>

\* try: its scope holds the finally block as a deferred statement
VisitTryCatchStmt ==
  /\ Visiting("try")
  /\ LET b == Blocks   \* b + 1 try.body, b + 2 lpad, b + 3 catch.dispatch,
                       \* b + 4 try.cont, b + 5 try.resume
         fin == It.s.fin.k # "none"
         pushed == PushScope(low, EmptyScope)
         old == [dest |-> low.dest, body |-> low.body]
     IN /\ mir' = At(Br(IF fin THEN Put(NewBlocks(mir, 5), Ins("reg", low.next, <<>>))
                        ELSE NewBlocks(mir, 5), b + 1), b + 1)
        /\ low' = [(IF fin THEN PushDeferred(pushed, It.s.fin) ELSE pushed) EXCEPT
                     !.dest = b + 2, !.body = b + 3,
                     !.tries = Append(@, Depth + 1)]
        /\ Then(<<Visit(It.s.body), [t |-> "tryend", b |-> b, old |-> old]>>
                \o [i \in 1..Len(It.s.catches) |->
                      [t |-> "catch", c |-> It.s.catches[i], b |-> b,
                       last |-> i = Len(It.s.catches)]]
                \o <<[t |-> "tryresume", b |-> b, empty |-> It.s.catches = <<>>]>>
                \o PopScope)
  /\ UNCHANGED <<prog, run>>

\* After the body: the landing pad leads to the dispatch block.
TryBodyEnd ==
  /\ Doing("tryend")
  /\ low' = [low EXCEPT !.tries = Pop(@), !.dest = It.old.dest, !.body = It.old.body]
  /\ mir' = At(Br(At(BrIfOpen(mir, It.b + 4), It.b + 2), It.b + 3), It.b + 3)
  /\ Then(<<>>)
  /\ UNCHANGED <<prog, run>>

\* A catch clause, lowered with the insert point at its dispatch block: it takes
\* the exception, which its scope releases, twice if the clause has no variable.
TryCatchClause ==
  /\ Doing("catch")
  /\ LET b == Blocks   \* b + 1 catch.body, b + 2 catch.dispatch.next
         next == IF It.last THEN It.b + 5 ELSE b + 2
         a == low.next
         ex == IF It.c.named THEN <<a>> ELSE <<a, a>>
     IN /\ mir' = PutAll(At(Put(NewBlocks(mir, IF It.last THEN 1 ELSE 2),
                                LoopBr(It.c.any, b + 1, next)), b + 1),
                         <<Ins("consume", 0, <<>>), Val("new", a, "shared")>>)
        /\ low' = [PushScope(low, [EmptyScope EXCEPT !.shared = ex]) EXCEPT
                     !.next = a + 1]
        /\ Then(<<Visit(It.c.body), [t |-> "stmts", ss |-> <<>>]>>
                \o Join(It.b + 4, next) \o PopScope)
  /\ UNCHANGED <<prog, run>>

\* No clause matched: the try's own scope is cleaned, then on to the next handler.
TryResume ==
  /\ Doing("tryresume")
  /\ mir' = At(IF It.empty THEN Br(mir, It.b + 5) ELSE mir, It.b + 5)
  /\ Then(CleanupTop(TRUE)
          \o <<[t |-> "emit", i |-> UnwindTo(IF low.dest # 0 /\ low.body # 0
                                             THEN low.body ELSE low.dest)]>>
          \o Join(It.b + 4, It.b + 4) \o CleanupTop(FALSE))
  /\ UNCHANGED <<prog, low, run>>

(* ------------------------------ functions ------------------------------ *)

\* lowerFunction up to the visit of the body: a parameter belongs to scope 1, and
\* main and async functions have a handler of their own.
LowerFunction ==
  /\ Doing("function")
  /\ LET par == prog.param # "none"
         scope == IF par THEN [EmptyScope EXCEPT ![prog.param] = <<1>>] ELSE EmptyScope
         entry == [blocks |-> <<IF par THEN <<Val("new", 1, prog.param)>> ELSE <<>>>>,
                   cur |-> 1]
         l == [low EXCEPT !.scopes = <<scope>>, !.next = 2,
                          !.sym = IF par THEN 1 ELSE 0]
         body == Visit(prog.body)
         rest == <<[t |-> prog.kind]>>
     IN \/ /\ prog.kind = "plain"
           /\ mir' = entry
           /\ low' = l
           /\ Then(<<body, [t |-> "return"]>>)
        \/ /\ prog.kind = "main"     \* 2 main.try.body, 3 main.lpad
           /\ mir' = At(Br(NewBlocks(entry, 2), 2), 2)
           /\ low' = [l EXCEPT !.dest = 3, !.tries = <<1>>]
           /\ Then(<<body>> \o rest)
        \/ /\ prog.kind = "async"    \* 2 async.try, 3 .catch.lpad, 4 .catch.body, 5 .cont
           /\ mir' = At(Br(NewBlocks(entry, 4), 2), 2)
           /\ low' = [l EXCEPT !.dest = 3, !.body = 4, !.tries = <<1>>]
           /\ Then(<<body>> \o rest \o <<[t |-> "return"]>>)
  /\ UNCHANGED <<prog, run>>

\* main: the normal return, then the handler of last resort, which panics
MainEnd ==
  /\ Doing("main")
  /\ low' = [low EXCEPT !.dest = 0, !.tries = Pop(@)]
  /\ Then((IF HasTerminator(mir) THEN <<>>
           ELSE CleanupTop(FALSE) \o <<[t |-> "emit", i |-> Ins("ret", 0, <<>>)]>>)
          \o <<[t |-> "at", b |-> 3]>> \o CleanupTop(FALSE)
          \o <<[t |-> "emit", i |-> Ins("unreachable", 0, <<>>)]>>)
  /\ UNCHANGED <<prog, mir, run>>

\* async: an exception is taken and becomes a rejected promise
AsyncEnd ==
  /\ Doing("async")
  /\ low' = [low EXCEPT !.dest = 0, !.body = 0, !.tries = Pop(@)]
  /\ mir' = Put(At(Br(At(BrIfOpen(mir, 5), 3), 4), 4), Ins("consume", 0, <<>>))
  /\ Then(CleanupTop(FALSE) \o <<[t |-> "emit", i |-> Ins("ret", 0, <<>>)],
                                  [t |-> "at", b |-> 5]>>)
  /\ UNCHANGED <<prog, run>>

SetInsertPoint ==
  /\ Doing("at")
  /\ mir' = At(mir, It.b)
  /\ Then(<<>>)
  /\ UNCHANGED <<prog, low, run>>

\* The end of lowerFunction: the return of a path that has none
FunctionEnd ==
  /\ Doing("return")
  /\ Then(IF HasTerminator(mir) THEN <<>>
          ELSE CleanupTop(FALSE) \o <<[t |-> "emit", i |-> Val("ret", 0, "end")]>>)
  /\ UNCHANGED <<prog, low, mir, run>>

(* -------------------- runs of the function (ghost) --------------------- *)

\* at: the block that runs, 0 before the lowering is over, -1 when it has ended.
\* live: the values each class still has to drop, oldest first.  pend: the defers,
\* finally blocks and locks entered and not yet run or unlocked.  exc: an exception
\* is on its way.  out: the alloca whose value a return has taken.  set: the
\* variable declared without a value has one.
\* faults: what went wrong on this run.
Start == [at |-> 1, live |-> [owned |-> <<>>, shared |-> <<>>, held |-> <<>>],
          pend |-> <<>>, out |-> 0, exc |-> FALSE, set |-> FALSE, end |-> "",
          faults |-> {}]
NotStarted == [Start EXCEPT !.at = 0]

Fault(r, f) == [r EXCEPT !.faults = @ \cup {f}]
FaultIf(r, c, f) == IF c THEN Fault(r, f) ELSE r
Live(r) == {c \in DOMAIN r.live : r.live[c] # <<>>}

Settle(r, i) ==
  IF r.pend # <<>> /\ Top(r.pend) = i.a THEN [r EXCEPT !.pend = Pop(@)]
  ELSE Fault(r, "defer")

\* The function is left, with the value of alloca a or with an exception.
Leave(r, how) ==
  LET x == [r EXCEPT !.at = -1, !.end = how]
  IN FaultIf(FaultIf(x, Live(x) # {} \/ (r.out # 0 /\ how = "throw"), "leak"),
             x.pend # <<>>, "defer")

Exec(r, i) ==
  CASE i.op = "new" ->
         IF i.a \in Range(r.live[i.cls]) THEN Fault(r, "leak")
         ELSE [r EXCEPT !.live[i.cls] = Append(@, i.a)]
    [] i.op = "drop" ->
         IF r.live[i.cls] # <<>> /\ Top(r.live[i.cls]) = i.a
         THEN [r EXCEPT !.live[i.cls] = Pop(@)]
         ELSE Fault(r, "drop")
    [] i.op = "load" ->
         IF \E c \in DOMAIN r.live : i.a \in Range(r.live[c])
         THEN [r EXCEPT !.live = [c \in DOMAIN @ |-> Without(@[c], i.a)], !.out = i.a]
         ELSE Fault(r, "drop")
    [] i.op \in {"reg", "lock"} -> [r EXCEPT !.pend = Append(@, i.a)]
    [] i.op \in {"run", "unlock"} -> Settle(r, i)
    [] i.op = "consume" -> FaultIf([r EXCEPT !.exc = FALSE], ~r.exc, "exception")
    [] i.op = "set" -> [r EXCEPT !.set = TRUE]
    [] i.op = "use" -> FaultIf(r, ~r.set, "unset")
    [] i.op = "call" ->
         FaultIf(FaultIf(r, i.a = 1 /\ Live(r) # {}, "leak"),
                 i.a = 1 /\ r.pend # <<>>, "defer")
    [] OTHER -> r

\* The block up to its first terminator.
FirstTerminator(b) == CHOOSE n \in 1..Len(b) :
  /\ b[n].op \in Terminators
  /\ \A m \in 1..(n - 1) : b[m].op \notin Terminators
Body(b) == FoldLeft(Exec, run, SubSeq(b, 1, FirstTerminator(b) - 1))

Goto(r, b) == [r EXCEPT !.at = b]

\* Where a terminator can lead.
Outcomes(r, i) ==
  CASE i.op = "br" -> {Goto(r, i.to[1])}
    [] i.op = "condbr" -> {Goto(r, i.to[n]) : n \in IF i.a = 1 THEN {1} ELSE {1, 2}}
    [] i.op = "switch" -> {Goto(r, i.to[n]) : n \in 1..Len(i.to)}
    [] i.op = "invoke" ->
         {Goto(r, i.to[1])}
         \cup IF i.a = 1 THEN {[Goto(r, i.to[2]) EXCEPT !.exc = TRUE]} ELSE {}
    [] i.op = "throw" ->
         LET x == FaultIf([r EXCEPT !.exc = TRUE], r.exc, "exception")
         IN {IF i.to = <<>> THEN Leave(x, "throw") ELSE Goto(x, i.to[1])}
    [] i.op = "resume" -> {Leave(FaultIf(r, ~r.exc, "exception"), "throw")}
    [] i.op = "ret" ->
         {Leave(FaultIf(FaultIf(r, i.a # r.out, "leak"), r.exc, "exception"),
                IF i.cls = "end" THEN "end" ELSE "return")}
    [] i.op = "unreachable" -> {Leave(r, "panic")}

StartRun ==
  /\ todo = <<>> /\ run.at = 0
  /\ run' = Start
  /\ low' = [scopes |-> <<>>, brk |-> low.brk, cont |-> low.cont,
             merge |-> low.merge, cond |-> low.cond, tries |-> low.tries,
             dest |-> low.dest, body |-> low.body, sym |-> 0, next |-> 0]
  /\ UNCHANGED <<prog, todo, mir>>

RunBlock ==
  /\ run.at > 0
  /\ LET b == mir.blocks[run.at]
     IN run' \in Outcomes(Body(b), b[FirstTerminator(b)])
  /\ UNCHANGED <<prog, todo, low, mir>>

Ended == run.at = -1 /\ UNCHANGED vars

(* ---------------------------- specification ---------------------------- *)

Init ==
  /\ prog \in Programs
  /\ todo = <<[t |-> "function"]>>
  /\ low = [scopes |-> <<>>, brk |-> <<>>, cont |-> <<>>, merge |-> <<>>,
            cond |-> <<>>, tries |-> <<>>, dest |-> 0, body |-> 0,
            sym |-> 0, next |-> 1]
  /\ mir = [blocks |-> <<<<>>>>, cur |-> 1]
  /\ run = NotStarted

Cleanup == EmitScopeCleanup \/ EmitDeferred \/ EmitDrops \/ RestoreScope
Simple == VisitVarDeclStmt \/ VisitExprStmt \/ VisitDeferStmt
          \/ VisitCallExpr \/ CallEnd
Jump == VisitReturnStmt \/ VisitThrowStmt \/ VisitBreakStmt \/ VisitContinueStmt
        \/ EmitLast \/ JoinBlocks \/ SetInsertPoint
Compound == VisitBlockStmt \/ BlockStatements \/ PopLexicalScope \/ VisitIfStmt
            \/ VisitWhileStmt \/ VisitDoWhileStmt \/ VisitForStmt \/ ForCond
            \/ RestoreSymbols \/ VisitForInStmt \/ LeaveLoop
            \/ VisitSwitchStmt \/ LeaveSwitch \/ VisitLockStmt \/ LockEnd
            \/ VisitTryCatchStmt \/ TryBodyEnd \/ TryCatchClause \/ TryResume
Function == LowerFunction \/ MainEnd \/ AsyncEnd \/ FunctionEnd

Next == Function \/ Compound \/ Simple \/ Jump \/ Cleanup
        \/ StartRun \/ RunBlock \/ Ended

Spec == Init /\ [][Next]_vars

(* ------------------------------ properties ----------------------------- *)

\* On every path the drops that emitScopeCleanup emits hit values that are alive,
\* last declared first in each class, a variable is not given a value again while
\* it holds one, and the function is left with nothing alive but what it returns;
\* each deferred statement and each finally block that was entered runs once, and
\* each lock is unlocked once, last entered first, before the function is left.
\* MCLower says which statements the functions leave out.
DropsBalance == {"drop", "leak", "defer"} \cap run.faults = {}

\* An exception ends in one catch clause, in the promise of an async function, or
\* outside the function: none is dropped, caught twice or resumed after a catch.
ExceptionsArrive == "exception" \notin run.faults

===============================================================================
