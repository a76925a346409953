--------------------------------- MODULE Mir ---------------------------------
(***************************************************************************)
(* The form of a function that the optimisations of MIR rewrite, the       *)
(* operations of MIRBlock, PhiInst and MIRInst they use, and the meaning   *)
(* of a function: what an execution of it does that can be observed.       *)
(*                                                                         *)
(* A function is [list, at]: the block list, the entry block first, and    *)
(* the block with each number:                                             *)
(*   phis   phi nodes, [id, in], in a sequence of [val, from];             *)
(*   body   the instructions that matter: "use" (a call that can be        *)
(*          observed, of one value), "call" (of the callee that may be     *)
(*          inlined), "pad" (the landing pad), "unreachable";              *)
(*   term   the last instruction, [op, to, on]: the targets in the order   *)
(*          the instruction holds them and the value it reads;             *)
(*   preds, succs   the edges as MIRBlock stores them, which the passes    *)
(*          keep by hand and which can differ from term.                   *)
(* Values are numbers.  A conditional branch reads either an unknown       *)
(* condition, Opaque(i), or the comparison of a value with null.           *)
(***************************************************************************)
EXTENDS Integers, Sequences, SequencesExt, TLC

Undef == -1            \* ConstantUndef
Null == 0              \* ConstantNull
Obj == 1               \* some value that is not null
Ret == 2               \* what the call, or the invoke, of the callee returns
Exc == 3               \* the landing pad's exception
Arg == 4               \* the callee's parameter
PhiVal(i) == 10 + i
Opaque(i) == 100 + i   \* a condition nothing is known about
IsOpaque(v) == v >= 100

Term(op, to, on) == [op |-> op, to |-> to, on |-> on]
NoTerm == Term("none", <<>>, Undef)    \* the block has no instruction at all
Inst(op, at, val) == [op |-> op, at |-> at, val |-> val]
Block(phis, body, term) ==
    [phis |-> phis, body |-> body, term |-> term, preds |-> <<>>, succs |-> <<>>]

Entry(f) == f.list[1]
Count(f) == Len(f.list)
Holds(s, x) == x \in ToSet(s)


\* Op on every block of the list, one after the other.
Each(f, Op(_, _)) == FoldLeft(LAMBDA g, b : [g EXCEPT !.at[b] = Op(b, @)], f, f.list)

-----------------------------------------------------------------------------
(* MIRBlock *)

\* addPredecessor, addSuccessor: an edge is stored once.
AddPredecessor(f, b, p) ==
    IF Holds(f.at[b].preds, p) THEN f ELSE [f EXCEPT !.at[b].preds = Append(@, p)]

AddSuccessor(f, b, s) ==
    IF Holds(f.at[b].succs, s) THEN f ELSE [f EXCEPT !.at[b].succs = Append(@, s)]

RemovePredecessor(f, b, p) == [f EXCEPT !.at[b].preds = Remove(@, p)]
RemoveSuccessor(f, b, s) == [f EXCEPT !.at[b].succs = Remove(@, s)]

Link(f, b, t) == AddPredecessor(AddSuccessor(f, b, t), t, b)
Unlink(f, b, t) == RemovePredecessor(RemoveSuccessor(f, b, t), t, b)
LinkAll(f, b) == FoldLeft(LAMBDA g, t : Link(g, b, t), f, f.at[b].term.to)

\* addInstruction of a terminator stores the edges too; push_back on
\* getInstructionsMut does not.
PushBack(f, b, t) == [f EXCEPT !.at[b].term = t]
AddTerminator(f, b, t) == LinkAll(PushBack(f, b, t), b)

-----------------------------------------------------------------------------
(* PhiInst and replaceOperand *)

FromBlock(phi, p) == SelectSeq(phi.in, LAMBDA e : e.from = p)

RemoveIncoming(f, b, p) ==
    [f EXCEPT !.at[b].phis = [i \in DOMAIN @ |->
        [@[i] EXCEPT !.in = SelectSeq(@, LAMBDA e : e.from # p)]]]

\* Every phi node of b that has a value for old gets the same for new.
CopyIncoming(f, b, old, new) ==
    [f EXCEPT !.at[b].phis = [i \in DOMAIN @ |->
        LET v == FromBlock(@[i], old)
        IN IF v = <<>> THEN @[i]
           ELSE [@[i] EXCEPT !.in = Append(@, [val |-> v[1].val, from |-> new])]]]

Subst(v, old, new) == IF v = old THEN new ELSE v

SubstBlock(blk, old, new) ==
    [blk EXCEPT
        !.phis = [i \in DOMAIN @ |-> [@[i] EXCEPT !.in =
                     [k \in DOMAIN @ |-> [@[k] EXCEPT !.val = Subst(@, old, new)]]]],
        !.body = [i \in DOMAIN @ |-> [@[i] EXCEPT !.val = Subst(@, old, new)]],
        !.term.on = Subst(@, old, new)]

ReplaceAllUsesInFunction(f, old, new) ==
    Each(f, LAMBDA b, blk : SubstBlock(blk, old, new))

-----------------------------------------------------------------------------
(***************************************************************************)
(* What a function does.  An execution is given an oracle: for every       *)
(* unknown condition the answers it gives, one after the other, over and   *)
(* over.  Execute returns the observations (a "use" and the value it saw)  *)
(* and how the execution ended; it gives up after a number of blocks.      *)
(***************************************************************************)
Value(env, v) == IF v \in DOMAIN env THEN env[v] ELSE v

Answer(oracle, t, c) == oracle[c][1 + (t.asked[c] % Len(oracle[c]))]

Ends(t, out, val) == [t EXCEPT !.out = out, !.val = val]

\* Phi nodes read the values of the edge all at once.
ReadPhis(blk, from, env) ==
    LET Read(phi) == LET e == FromBlock(phi, from)
                     IN IF e = <<>> THEN Undef ELSE Value(env, e[1].val)
    IN FoldLeft(LAMBDA acc, phi : (PhiVal(phi.id) :> Read(phi)) @@ acc, env, blk.phis)

RECURSIVE Exec(_, _, _, _, _, _, _)
Exec(f, callee, oracle, b, i, env, t) ==
    LET blk == f.at[b]
        Go(to, e, s) ==
            IF ~Holds(f.list, to) THEN Ends(s, "erased block", Undef)
            ELSE Exec(f, callee, oracle, to, 1, ReadPhis(f.at[to], b, e),
                      [s EXCEPT !.fuel = @ - 1])
        Called(v, s) == Exec(callee, callee, oracle, Entry(callee), 1,
                             Arg :> Value(env, v), s)
        Throws(s, e) == IF blk.term.to = <<>> THEN Ends(s, "throw", e)
                        ELSE Go(Last(blk.term.to), env, [s EXCEPT !.exc = e])
        After(r) == CASE r.out = "return" -> Go(blk.term.to[1], (Ret :> r.val) @@ env, r)
                      [] r.out = "throw"  -> Throws(r, r.val)
                      [] OTHER -> r
        v == Value(env, blk.term.on)
        asked == [t EXCEPT !.asked[v] = @ + 1]
    IN IF t.fuel = 0 THEN Ends(t, "cut", Undef)
       ELSE IF i <= Len(blk.body)
       THEN LET ins == blk.body[i]
                Continue(e, s) == Exec(f, callee, oracle, b, i + 1, e, s)
            IN CASE ins.op = "use" ->
                      Continue(env, [t EXCEPT !.seen = Append(@, <<ins.at, Value(env, ins.val)>>)])
                 [] ins.op = "pad" -> Continue((Exc :> t.exc) @@ env, t)
                 [] ins.op = "call" ->
                      LET r == Called(ins.val, t)
                      IN IF r.out = "return" THEN Continue((Ret :> r.val) @@ env, r) ELSE r
                 [] ins.op = "plain" ->   \* a call of a function out of sight
                      LET c == [t EXCEPT !.asked[ins.val] = @ + 1]
                      IN IF Answer(oracle, t, ins.val) THEN Continue(env, c) ELSE Ends(c, "throw", Obj)
                 [] OTHER -> Ends(t, "unreachable", Undef)
       ELSE CASE blk.term.op = "br" -> Go(blk.term.to[1], env, t)
              [] blk.term.op = "condbr" /\ IsOpaque(v) ->
                   Go(blk.term.to[IF Answer(oracle, t, v) THEN 1 ELSE 2], env, asked)
              [] blk.term.op = "condbr" /\ ~IsOpaque(v) ->
                   Go(blk.term.to[IF v # Null THEN 1 ELSE 2], env, t)
              [] blk.term.op = "ret" -> Ends(t, "return", v)
              [] blk.term.op = "throw" -> Throws(t, v)
              [] blk.term.op = "resume" -> Ends(t, "throw", v)
              [] blk.term.op = "invoke" /\ IsOpaque(v) ->
                   IF Answer(oracle, t, v) THEN Go(blk.term.to[1], env, asked)
                                           ELSE Throws(asked, Obj)
              [] blk.term.op = "invoke" /\ ~IsOpaque(v) -> After(Called(v, t))
              [] OTHER -> Ends(t, "no terminator", Undef)

Execute(f, callee, oracle, fuel) ==
    Exec(f, callee, oracle, Entry(f), 1, <<>>,
         [seen |-> <<>>, out |-> "", val |-> Undef, exc |-> Undef, fuel |-> fuel,
          asked |-> [c \in DOMAIN oracle |-> 0]])
=============================================================================
