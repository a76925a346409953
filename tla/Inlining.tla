------------------------------- MODULE Inlining -------------------------------
(***************************************************************************)
(* InliningPass: the copy of a callee's blocks into the caller, in place   *)
(* of a call in the middle of a block (inlineCall) or of an invoke at its  *)
(* end (inlineInvoke).                                                     *)
(*                                                                         *)
(* The clones of the callee's blocks get the numbers after the caller's    *)
(* own, in the order of the block list.  Allocas, which the pass moves to  *)
(* the entry block, and the types of the values are left out.              *)
(***************************************************************************)
EXTENDS Mir

\* The numbers and names that are free in f.
Shift(f) == CHOOSE n \in DOMAIN f.at : \A m \in DOMAIN f.at : m <= n
NewPhi == 8          \* inline.ret, invoke.ret
ExcPhi == 9          \* ex.phi

\* Steps 1 to 4: the clone of a block of the callee, its operands remapped
\* to the arguments of the call and to the cloned blocks.
Clone(blk, n, arg) ==
    LET s == SubstBlock(blk, Arg, arg)
    IN [s EXCEPT !.phis = [i \in DOMAIN @ |-> [@[i] EXCEPT !.in =
                              [k \in DOMAIN @ |-> [@[k] EXCEPT !.from = @ + n]]]],
                 !.term.to = [k \in DOMAIN @ |-> @[k] + n],
                 !.preds = <<>>, !.succs = <<>>]

\* ... and step 4.5, the edges among them.
CloneAll(f, callee, n, arg) ==
    LET new == [i \in DOMAIN callee.list |-> callee.list[i] + n]
        g == [list |-> f.list \o new,
              at |-> f.at @@ [b \in ToSet(new) |-> Clone(callee.at[b - n], n, arg)]]
    IN FoldLeft(LinkAll, g, new)

Ending(f, callee, n, op) ==
    SelectSeq([i \in DOMAIN callee.list |-> callee.list[i] + n],
              LAMBDA b : f.at[b].term.op = op)

\* What follows instruction i of block b moves to the new block r: the
\* successors of b, and their phi nodes, now name r.
MoveRest(f, b, i, r) ==
    LET blk == f.at[b]
        g == LinkAll([f EXCEPT !.at = (r :> [Block(<<>>, SubSeq(blk.body, i + 1, Len(blk.body)),
                                             blk.term) EXCEPT !.succs = blk.succs]) @@ @,
                               !.at[b].body = SubSeq(@, 1, i), !.at[b].succs = <<>>], r)
        Rename(h, s) ==
            [h EXCEPT !.at[s].preds = ReplaceAll(@, b, r),
                      !.at[s].phis = [p \in DOMAIN @ |-> [@[p] EXCEPT !.in =
                          [k \in DOMAIN @ |-> [@[k] EXCEPT !.from = Subst(@, b, r)]]]]]
    IN FoldLeft(Rename, g, blk.succs)

\* A return becomes a branch to the block `to`; its value goes to the phi
\* node that stands for the result.
Returns(f, rets, to) ==
    LET val == [k \in DOMAIN rets |-> [val |-> f.at[rets[k]].term.on, from |-> rets[k]]]
        g == FoldLeft(LAMBDA h, b : Link(PushBack(h, b, Term("br", <<to>>, Undef)), b, to),
                      f, rets)
    IN [g EXCEPT !.at[to].phis = <<[id |-> NewPhi, in |-> val]>> \o @]

\* Steps 5 to 9 of inlineCall.  A callee that never returns leaves the new
\* block without a predecessor and the result undefined.
InlineCall(f, callee, b, i) ==
    LET n == Shift(f)
        r == n + Count(callee) + 1
        g == MoveRest(CloneAll(f, callee, n, f.at[b].body[i].val), b, i, r)
        h == AddTerminator([g EXCEPT !.at[b].body = SubSeq(@, 1, i - 1)],
                           b, Term("br", <<Entry(callee) + n>>, Undef))
        rets == Ending(h, callee, n, "ret")
        k == IF rets = <<>> THEN h ELSE Returns(h, rets, r)
    IN ReplaceAllUsesInFunction([k EXCEPT !.list = Append(@, r)], Ret,
                                IF rets = <<>> THEN Undef ELSE PhiVal(NewPhi))

\* A phi node's value for the block of the invoke goes to the blocks that
\* took its place, in every phi node but the new one.
PatchPhis(f, to, b, froms) ==
    LET Patch(phi) ==
            LET v == FromBlock(phi, b)
            IN IF phi.id = NewPhi \/ v = <<>> THEN phi
               ELSE [phi EXCEPT !.in = SelectSeq(@, LAMBDA e : e.from # b)
                        \o [k \in DOMAIN froms |-> [val |-> v[1].val, from |-> froms[k]]]]
    IN [f EXCEPT !.at[to].phis = [p \in DOMAIN @ |-> Patch(@[p])]]

\* Step 7, throws: an exception the callee lets out goes to the unwind block.
ThrowsTo(f, throws, u) ==
    FoldLeft(LAMBDA g, b : IF g.at[b].term.to # <<>> THEN g
                           ELSE Link([g EXCEPT !.at[b].term.to = <<u>>], b, u), f, throws)

\* Step 7, resumes: they cannot branch to a landing pad, so the rest of the
\* unwind block moves to a block r of its own, where a phi node joins the
\* exceptions.
SplitPad(f, u, r) ==
    LET g == MoveRest(f, u, 1, r)
        h == Link(PushBack(g, u, Term("br", <<r>>, Undef)), u, r)
    IN [h EXCEPT !.list = Append(@, r),
                 !.at[r] = [SubstBlock(@, Exc, PhiVal(ExcPhi)) EXCEPT
                     !.phis = <<[id |-> ExcPhi, in |-> <<[val |-> Exc, from |-> u]>>]>> \o @]]

ResumesTo(f, resumes, r, split) ==
    LET Resume(g, b) ==
            LET h == Link(PushBack(g, b, Term("br", <<r>>, Undef)), b, r)
            IN IF ~split THEN h
               ELSE [h EXCEPT !.at[r].phis[1].in = Append(@, [val |-> g.at[b].term.on, from |-> b])]
    IN FoldLeft(Resume, f, resumes)

HasPad(f, u) == f.at[u].phis = <<>> /\ f.at[u].body # <<>> /\ f.at[u].body[1].op = "pad"

\* Steps 5 to 9 of inlineInvoke.
InlineInvoke(f, callee, b) ==
    LET n == Shift(f)
        normal == f.at[b].term.to[1]
        u == f.at[b].term.to[2]
        g == CloneAll(f, callee, n, f.at[b].term.on)
        cut == Unlink(Unlink(PushBack(g, b, Term("br", <<Entry(callee) + n>>, Undef)),
                             b, normal), b, u)
        h == Link(cut, b, Entry(callee) + n)
        rets == Ending(h, callee, n, "ret")
        resumes == Ending(h, callee, n, "resume")
        split == resumes # <<>> /\ HasPad(f, u)
        r == IF split THEN n + Count(callee) + 1 ELSE u
        returned == IF rets # <<>> THEN Returns(h, rets, normal)
                    ELSE [h EXCEPT !.at[normal].body = <<Inst("unreachable", 0, Undef)>> \o @]
        thrown == ThrowsTo(returned, Ending(h, callee, n, "throw"), u)
        resumed == ResumesTo(IF split THEN SplitPad(thrown, u, r) ELSE thrown,
                             resumes, r, split)
        used == ReplaceAllUsesInFunction(resumed, Ret,
                                         IF rets = <<>> THEN Undef ELSE PhiVal(NewPhi))
    IN PatchPhis(IF rets = <<>> THEN used ELSE PatchPhis(used, normal, b, rets),
                 r, b, resumes)

-----------------------------------------------------------------------------
\* runOnFunction looks for the first call or invoke of a callee that
\* shouldInline accepts and that was not inlined in this run of the pass.
CallsIn(f, b) == {i \in DOMAIN f.at[b].body : f.at[b].body[i].op = "call"}
Invokes(f, b) == f.at[b].term.op = "invoke" /\ ~IsOpaque(f.at[b].term.on)

Inline(f, callee) ==
    LET at == SelectInSeq(f.list, LAMBDA b : CallsIn(f, b) # {} \/ Invokes(f, b))
        b == f.list[at]
        i == CHOOSE j \in CallsIn(f, b) : \A k \in CallsIn(f, b) : j <= k
    IN CASE at = 0 -> f
         [] at # 0 /\ CallsIn(f, b) # {} -> InlineCall(f, callee, b, i)
         [] OTHER -> InlineInvoke(f, callee, b)
=============================================================================
