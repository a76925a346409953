------------------------------ MODULE CfgPasses ------------------------------
(***************************************************************************)
(* The optimisations that rewrite the control flow of a MIR function, in   *)
(* the order and with the repetitions of PassManager::run: InliningPass,   *)
(* JumpThreadingPass, the folding of branches in ConstantFoldingPass,      *)
(* SimplifyCFGPass and DeadCodeEliminationPass.                            *)
(*                                                                         *)
(* A pass, or a round of a loop inside a pass, is an operator from a       *)
(* function to a function; the state machine applies them.  The passes     *)
(* between them that rewrite memory accesses only (Mem2Reg has a module of *)
(* its own) are left out.                                                  *)
(***************************************************************************)
EXTENDS Inlining

CONSTANTS Inputs,          \* what names a function to optimise
          Main(_),         \* the function before the passes ...
          Callee(_),       \* ... and the one it calls
          Fuel             \* the length of the executions that are compared

VARIABLES given,           \* the function that was given to the passes
          fn,              \* the function that is optimised
          pc,              \* the pass that runs next
          changed,         \* PassManager: a pass has changed something
          local,           \* SimplifyCFG: localChanged
          rounds,          \* PassManager: iterationCount
          folded,          \* since the last healing foldBranches has torn an edge
          faults           \* the known faults that have struck (no pass reads these two)

vars == <<given, fn, pc, changed, local, rounds, folded, faults>>

MaxIterations == 15

-----------------------------------------------------------------------------
(* JumpThreadingPass *)

\* A block that tests its own phi node against null: the first null that
\* comes from a branch is redirected to the block for null, unless that
\* block has phi nodes.
Threadable(f, b) ==
    LET blk == f.at[b]
        bail == blk.term.to[2]
        own == {p \in DOMAIN blk.phis : PhiVal(blk.phis[p].id) = blk.term.on}
        Fits(e) == /\ e.val = Null
                   /\ f.at[bail].phis = <<>>
                   /\ f.at[e.from].term.op \in {"br", "condbr"}
    IN IF blk.term.op # "condbr" \/ own = {} THEN <<>>
       ELSE SelectSeq(blk.phis[CHOOSE p \in own : TRUE].in, Fits)

Redirected(f, b, pred, bail) ==
    LET was == f.at[pred].term
        k == SelectInSeq(was.to, LAMBDA t : t = b)
        now == IF k = 0 THEN was ELSE [was EXCEPT !.to[k] = bail]
    IN IF was.op = "br"
       THEN Link(Unlink(AddTerminator(f, pred, Term("br", <<bail>>, Undef)), pred, b),
                 pred, bail)
       ELSE LinkAll([PushBack(f, pred, now) EXCEPT !.at[pred].succs = <<>>,
                                                   !.at[b].preds = Remove(@, pred)], pred)

\* The phi nodes lose the value of the edge, unless the other arm of the
\* branch still leads here.
ThreadJump(f, b) ==
    IF Threadable(f, b) = <<>> THEN f
    ELSE LET pred == Threadable(f, b)[1].from
             g == Redirected(f, b, pred, f.at[b].term.to[2])
         IN IF g.at[pred].term.op = "condbr" /\ Holds(g.at[pred].term.to, b) THEN g
            ELSE RemoveIncoming(g, b, pred)

ThreadJumps(f) == FoldLeft(ThreadJump, f, f.list)

-----------------------------------------------------------------------------
(* ConstantFoldingPass: null compared with null, and the branch on it *)

\* Mutant of FoldConstant: the arms are taken for each other.
FoldConstantSwapped(f, b) ==
    LET t == f.at[b].term
    IN IF t.op # "condbr" \/ t.on # Null \/ t.to[1] = t.to[2] THEN f
       ELSE Unlink(RemoveIncoming(AddTerminator(f, b, Term("br", <<t.to[1]>>, Undef)),
                                  t.to[2], b), b, t.to[2])

FoldConstant(f, b) ==
    LET t == f.at[b].term
        br == AddTerminator(f, b, Term("br", <<t.to[2]>>, Undef))
    IN IF t.op # "condbr" \/ t.on # Null THEN f
       ELSE IF t.to[1] = t.to[2] THEN br
       ELSE Unlink(RemoveIncoming(br, t.to[1], b), b, t.to[1])

FoldConstants(f) == FoldLeft(FoldConstant, f, f.list)

-----------------------------------------------------------------------------
(* SimplifyCFGPass *)

\* The edges are built again from the terminators, in the order of the block
\* list.  A phi node with one value too many and edges without a value (of
\* those known by then) gives that value to them.
HealBlock(f, b) ==
    LET g == LinkAll(f, b)
        preds == g.at[b].preds
        Rescue(phi) ==
            LET stale == SelectSeq(phi.in, LAMBDA e : ~Holds(preds, e.from))
                missing == SelectSeq(preds, LAMBDA p : FromBlock(phi, p) = <<>>)
            IN IF Len(stale) # 1 \/ missing = <<>> THEN phi
               ELSE [phi EXCEPT !.in =
                        SelectSeq(@, LAMBDA e : e.from # stale[1].from)
                        \o [k \in DOMAIN missing |-> [val |-> stale[1].val, from |-> missing[k]]]]
    IN [g EXCEPT !.at[b].phis = [p \in DOMAIN @ |-> Rescue(@[p])]]

Heal(f) ==
    FoldLeft(HealBlock,
             Each(f, LAMBDA b, blk : [blk EXCEPT !.preds = <<>>, !.succs = <<>>]), f.list)

\* foldBranches: both targets are the same block.  One value of the edge is
\* taken out of its phi nodes, and the edge itself is taken out too.
FoldBranch(f, b) ==
    LET to == f.at[b].term.to
        First(phi) == SelectInSeq(phi.in, LAMBDA e : e.from = b)
        DropOne(phi) == IF First(phi) = 0 THEN phi
                        ELSE [phi EXCEPT !.in = RemoveAt(@, First(phi))]
    IN IF f.at[b].term.op # "condbr" \/ to[1] # to[2] THEN f
       ELSE [Unlink(AddTerminator(f, b, Term("br", <<to[1]>>, Undef)), b, to[1])
             EXCEPT !.at[to[1]].phis = [p \in DOMAIN @ |-> DropOne(@[p])]]

Folds(f) == {b \in ToSet(f.list) : f.at[b].term.op = "condbr" /\ f.at[b].term.to[1] = f.at[b].term.to[2]}
FoldBranches(f) == FoldLeft(FoldBranch, f, f.list)

\* bypassEmptyBlocks: the first block that is only a branch, unless a phi
\* node behind it could then no longer tell two edges apart.
CanBypass(f, b) ==
    LET blk == f.at[b]
        c == blk.term.to[1]
    IN /\ b # Entry(f)
       /\ blk.preds # <<>>
       /\ blk.term.op = "br" /\ blk.phis = <<>> /\ blk.body = <<>>
       /\ c # b
       /\ \A a \in ToSet(blk.preds) : f.at[a].term.op # "invoke"
       /\ f.at[c].phis # <<>> => ToSet(blk.preds) \cap ToSet(f.at[c].preds) = {}

Bypass(f, b) ==
    LET c == f.at[b].term.to[1]
        Redirect(g, a) ==
            CopyIncoming(Link(RemoveSuccessor(
                [g EXCEPT !.at[a].term.to = ReplaceAll(@, b, c)], a, b), a, c), c, b, a)
        g == FoldLeft(Redirect, f, f.at[b].preds)
    IN [RemoveIncoming(RemovePredecessor(g, c, b), c, b)
        EXCEPT !.at[b].preds = <<>>, !.at[b].succs = <<>>]

BypassEmptyBlocks(f) ==
    LET at == SelectInSeq(f.list, LAMBDA b : CanBypass(f, b))
    IN IF at = 0 THEN f ELSE Bypass(f, f.list[at])

\* mergeBlocks: the first block that branches to a block nobody else enters
\* takes its instructions over; the phi nodes of that block are replaced by
\* their value.
CanMerge(f, a) ==
    LET b == f.at[a].term.to[1]
    IN /\ f.at[a].term.op = "br"
       /\ b \notin {a, Entry(f)}
       /\ f.at[b].preds = <<a>>

\* Mutant of MergedEdge: the successor keeps the block that is gone as its
\* predecessor's name.
MergedEdgeStale(f, a, b, s) == AddSuccessor(f, a, s)

MergedEdge(f, a, b, s) ==
    RemoveIncoming(CopyIncoming(Link(RemovePredecessor(f, s, b), a, s), s, b, a), s, b)

Merge(f, a) ==
    LET b == f.at[a].term.to[1]
        Resolve(g, phi) ==
            IF FromBlock(phi, a) = <<>> THEN g
            ELSE ReplaceAllUsesInFunction(g, PhiVal(phi.id), FromBlock(phi, a)[1].val)
        used == FoldLeft(Resolve, f, f.at[b].phis)
        g == [used EXCEPT !.at[a].body = @ \o used.at[b].body, !.at[a].term = used.at[b].term,
                          !.at[b] = Block(<<>>, <<>>, NoTerm)]
    IN FoldLeft(LAMBDA h, s : MergedEdge(h, a, b, s), RemoveSuccessor(g, a, b), f.at[b].succs)

MergeBlocks(f) ==
    LET at == SelectInSeq(f.list, LAMBDA b : CanMerge(f, b))
    IN IF at = 0 THEN f ELSE Merge(f, f.list[at])

\* removeDeadBlocks, one round: the blocks that are the successor of no
\* block when the round begins.
DeadBlocks(f) ==
    SelectSeq(f.list, LAMBDA b : b # Entry(f) /\ \A a \in ToSet(f.list) : ~Holds(f.at[a].succs, b))

Erase(f, b) ==
    LET g == FoldLeft(LAMBDA h, s : RemoveIncoming(RemovePredecessor(h, s, b), s, b),
                      f, f.at[b].succs)
    IN [g EXCEPT !.at[b].succs = <<>>, !.list = Remove(@, b)]

RemoveDeadBlocks(f) == FoldLeft(Erase, f, DeadBlocks(f))

-----------------------------------------------------------------------------
(* DeadCodeEliminationPass *)

\* The blocks the entry block reaches along the stored edges.
Reachable(f) ==
    LET reach[n \in 0..Count(f)] ==
            IF n = 0 THEN {Entry(f)}
            ELSE reach[n - 1] \cup UNION {ToSet(f.at[b].succs) : b \in reach[n - 1]}
    IN reach[Count(f)]

\* STEP 1: values of edges that are gone leave the phi nodes, and blocks
\* that cannot be reached leave the function.
RemoveUnreachable(f) ==
    LET live == Reachable(f)
        Trim(b, phi) == [phi EXCEPT !.in =
            SelectSeq(@, LAMBDA e : e.from \in live /\ Holds(f.at[e.from].succs, b))]
        Prune(b, blk) == [blk EXCEPT
            !.phis = [p \in DOMAIN @ |-> Trim(b, @[p])],
            !.preds = SelectSeq(@, LAMBDA a : a \in live \/ ~Holds(f.at[a].succs, b))]
    IN Each([f EXCEPT !.list = SelectSeq(@, LAMBDA b : b \in live)], Prune)

\* STEP 1.5: a phi node of one value, or of none, is that value.
TrivialPhi(f, b, phi) ==
    \/ phi.in = <<>>
    \/ Len(phi.in) = 1 /\ Len(f.at[b].preds) <= 1

ResolvePhi(f, b, i) ==
    LET known == {p \in DOMAIN f.at[b].phis : f.at[b].phis[p].id = i}
        p == CHOOSE q \in known : TRUE
        phi == f.at[b].phis[p]
        v == IF phi.in = <<>> \/ phi.in[1].val = PhiVal(i) THEN Undef ELSE phi.in[1].val
    IN IF ~TrivialPhi(f, b, phi) THEN f
       ELSE LET g == ReplaceAllUsesInFunction(f, PhiVal(i), v)
            IN [g EXCEPT !.at[b].phis = RemoveAt(@, p)]

RemoveTrivialPhis(f) ==
    LET In(g, b) == FoldLeft(LAMBDA h, phi : ResolvePhi(h, b, phi.id), g, g.at[b].phis)
    IN FoldLeft(In, f, f.list)

\* STEP 2: mark what the instructions with side effects read; a phi node
\* that is not marked goes.
AlivePhis(f) ==
    LET live == ToSet(f.list)
        all == UNION {{<<b, p>> : p \in DOMAIN f.at[b].phis} : b \in live}
        Id(x) == PhiVal(f.at[x[1]].phis[x[2]].id)
        roots == UNION {{f.at[b].body[i].val : i \in DOMAIN f.at[b].body}
                        \cup {f.at[b].term.on} : b \in live}
        Reads(x) == {e.val : e \in ToSet(f.at[x[1]].phis[x[2]].in)}
        mark[n \in 0..5] ==
            IF n = 0 THEN roots
            ELSE mark[n - 1] \cup UNION {Reads(x) : x \in {y \in all : Id(y) \in mark[n - 1]}}
    IN mark[5]

SweepPhis(f) ==
    LET alive == AlivePhis(f)
    IN Each(f, LAMBDA b, blk :
           [blk EXCEPT !.phis = SelectSeq(@, LAMBDA phi : PhiVal(phi.id) \in alive)])

DeadCode(f) == SweepPhis(RemoveTrivialPhis(RemoveUnreachable(f)))

-----------------------------------------------------------------------------
(* PassManager::run *)

Init ==
    /\ given \in Inputs
    /\ fn = Main(given)
    /\ pc = "inline"
    /\ changed = FALSE
    /\ local = FALSE
    /\ rounds = 0
    /\ folded = FALSE
    /\ faults = {}

\* The blocks an execution can enter.
Entered(f) ==
    LET reach[n \in 0..Count(f)] ==
            IF n = 0 THEN {Entry(f)}
            ELSE reach[n - 1] \cup UNION {ToSet(f.at[b].term.to) : b \in reach[n - 1]}
    IN reach[Count(f)]

\* The edges of terminators that the stored lists lack, and the harm that
\* follows: the target is erased, or a phi node of it has lost the value.
TornEdges(f) ==
    UNION {{<<b, t>> : t \in ToSet(f.at[b].term.to) \ ToSet(f.at[b].succs)} : b \in Entered(f)}
Harmed(f) ==
    \E e \in TornEdges(f) : \/ ~Holds(f.list, e[2])
                            \/ \E phi \in ToSet(f.at[e[2]].phis) : FromBlock(phi, e[1]) = <<>>

\* Faults of the passes, each told by the step that commits it.
Faults == {"tornEdge",     \* F1: foldBranches takes out the edge it has just stored
                           \* (SimplifyCFGPass.cpp 192 to 213) and Harmed follows
           "skipped",      \* F2: a jump is threaded past a block's instructions (JumpThreadingPass.cpp 44)
           "plainCall",    \* F3: an invoke is inlined, a plain call of the callee that
                           \* throws passes the landing pad by (InliningPass.cpp 644 to 655)
           "unwindPhi"}    \* F4: an invoke is inlined whose unwind block has phi nodes: they get
                           \* no value for throws (753 to 801), and it is not split for resumes

Skipped(f) == \E b \in ToSet(f.list) : f.at[b].body # <<>> /\ Threadable(f, b) # <<>>

PlainCalls(f) == UNION {ToSet(SelectSeq(f.at[b].body, LAMBDA i : i.op = "plain")) : b \in ToSet(f.list)}
Escapes(f) ==
    \E b \in ToSet(f.list) : f.at[b].term.op \in {"resume", "throw"} /\ f.at[b].term.to = <<>>

\* Inlining has replaced an invoke.
Inlined(f, g) == {b \in ToSet(f.list) : Invokes(f, b) /\ ~Invokes(g, b)}
InlineFaults(f, callee, g) ==
    (IF Inlined(f, g) # {} /\ PlainCalls(callee) # {} THEN {"plainCall"} ELSE {})
    \cup (IF Escapes(callee) /\ \E b \in Inlined(f, g) : f.at[f.at[b].term.to[2]].phis # <<>>
          THEN {"unwindPhi"} ELSE {})

\* What the history variables remember of a step.
Remember(tears, struck) ==
    /\ folded' = (folded \/ tears)
    /\ faults' = faults \cup struck \cup (IF folded' /\ Harmed(fn') THEN {"tornEdge"} ELSE {})

\* A pass of the pipeline that is one step.
Pass(name, next, F(_)) ==
    /\ pc = name
    /\ fn' = F(fn)
    /\ changed' = (changed \/ fn' # fn)
    /\ pc' = next
    /\ UNCHANGED <<given, local, rounds>>

InlineAll(f) == Inline(f, Callee(given))

InliningPass ==
    Pass("inline", "thread", InlineAll) /\ Remember(FALSE, InlineFaults(fn, Callee(given), fn'))
JumpThreadingPass ==
    Pass("thread", "constants", ThreadJumps) /\ Remember(FALSE, IF Skipped(fn) THEN {"skipped"} ELSE {})
ConstantFoldingPass == Pass("constants", "heal", FoldConstants) /\ Remember(FALSE, {})

\* SimplifyCFGPass::runOnFunction heals the edges, which is not a change,
\* and then repeats three rewritings until none applies.
HealCfg ==
    /\ pc = "heal"
    /\ fn' = Heal(fn)
    /\ pc' = "fold"
    /\ local' = FALSE
    /\ folded' = FALSE
    /\ UNCHANGED <<given, changed, rounds, faults>>

\* A rewriting reports a change when it found a block to rewrite.
Applies(f) ==
    CASE pc = "fold"   -> Folds(f) # {}
      [] pc = "bypass" -> \E b \in ToSet(f.list) : CanBypass(f, b)
      [] pc = "merge"  -> \E b \in ToSet(f.list) : CanMerge(f, b)
      [] OTHER -> FALSE

Rewrite(name, next, F(_)) ==
    /\ pc = name
    /\ fn' = F(fn)
    /\ local' = (local \/ Applies(fn))
    /\ changed' = (changed \/ Applies(fn))
    /\ pc' = next
    /\ UNCHANGED <<given, rounds>>

FoldStep == Rewrite("fold", "bypass", FoldBranches) /\ Remember(Applies(fn), {})
BypassStep == Rewrite("bypass", "merge", BypassEmptyBlocks) /\ Remember(FALSE, {})
MergeStep == Rewrite("merge", "again", MergeBlocks) /\ Remember(FALSE, {})

Again ==
    /\ pc = "again"
    /\ pc' = IF local THEN "fold" ELSE "sweep"
    /\ local' = FALSE
    /\ UNCHANGED <<given, fn, changed, rounds, folded, faults>>

SweepStep ==
    /\ pc = "sweep"
    /\ fn' = RemoveDeadBlocks(fn)
    /\ changed' = (changed \/ fn' # fn)
    /\ pc' = IF DeadBlocks(fn) = <<>> THEN "dce" ELSE "sweep"
    /\ Remember(FALSE, {})
    /\ UNCHANGED <<given, local, rounds>>

DeadCodePass == Pass("dce", "iterate", DeadCode) /\ Remember(FALSE, {})

\* A branch to an erased block: the next pass would read freed memory.
Dangling(f) == \E b \in ToSet(f.list) : \E t \in ToSet(f.at[b].term.to) : ~Holds(f.list, t)

Iterate ==
    /\ pc = "iterate"
    /\ rounds' = rounds + 1
    /\ pc' = CASE Dangling(fn) -> "undefined"
               [] ~Dangling(fn) /\ changed /\ rounds' < MaxIterations -> "inline"
               [] OTHER -> "done"
    /\ changed' = FALSE
    /\ UNCHANGED <<given, fn, local, folded, faults>>

Done == pc \in {"done", "undefined"} /\ UNCHANGED vars

Next ==
    \/ InliningPass \/ JumpThreadingPass \/ ConstantFoldingPass
    \/ HealCfg \/ FoldStep \/ BypassStep \/ MergeStep \/ Again \/ SweepStep
    \/ DeadCodePass \/ Iterate
    \/ Done

Spec == Init /\ [][Next]_vars

-----------------------------------------------------------------------------
(* What the passes must keep *)

\* The unknown conditions of a function and its callee, and the ways to
\* answer them.
Conditions(g) ==
    {v \in UNION {{f.at[b].term.on : b \in DOMAIN f.at} \cup {i.val : i \in PlainCalls(f)}
                  : f \in {Main(g), Callee(g)}} : IsOpaque(v)}

Answers == {<<TRUE>>, <<FALSE>>, <<TRUE, FALSE>>, <<FALSE, TRUE>>}

Agree(a, z) ==
    IF a.out = "cut"
    THEN (IsPrefix(a.seen, z.seen) \/ IsPrefix(z.seen, a.seen)) /\ z.out \in {"cut", "return", "throw"}
    ELSE a.seen = z.seen /\ a.out = z.out /\ a.val = z.val

\* The optimised function does what the function did: the same calls with
\* the same values in the same order, the same result or exception, on every
\* path, through loops, inlined calls and landing pads.  The faults that
\* Faults names are exempt: where foldBranches has torn an edge the passes may
\* leave a branch to an erased block, and a run in which a jump was threaded past
\* instructions, or an invoke inlined over a plain call or onto phi nodes of its
\* unwind block, is not looked at any further.
SameBehaviour ==
    /\ pc = "undefined" => "tornEdge" \in faults
    /\ pc = "done" /\ faults \subseteq {"tornEdge"} =>
        \A oracle \in [Conditions(given) -> Answers] :
            Agree(Execute(Main(given), Callee(given), oracle, Fuel),
                  Execute(fn, Callee(given), oracle, 3 * Fuel))

\* The edges that the passes keep by hand are those of the terminators, and
\* no terminator names a block that was erased, for every block an execution
\* can enter (the next pass, dominance and the verifier walk them).  Until the
\* next healing the edges that foldBranches tore are missing, and no others.
EdgesAgree ==
    /\ ~folded => TornEdges(fn) = {}
    /\ \A e \in TornEdges(fn) : fn.at[e[1]].term.op = "br"
    /\ \A b \in Entered(fn) :
        /\ Holds(fn.list, b)
        /\ ToSet(fn.at[b].succs) \subseteq ToSet(fn.at[b].term.to)
        /\ \A t \in ToSet(fn.at[b].succs) : Holds(fn.at[t].preds, b)
        /\ \A p \in ToSet(fn.at[b].preds) \cap Entered(fn) : Holds(fn.at[p].succs, b)

\* A phi node has exactly one value for each edge into its block, and when
\* the passes are done none for a block that is not a predecessor.
PhisComplete ==
    \A b \in Entered(fn) : \A phi \in ToSet(fn.at[b].phis) :
        /\ \A p \in Entered(fn) :
               Holds(fn.at[p].term.to, b) => Len(FromBlock(phi, p)) = 1
        /\ pc = "done" => \A e \in ToSet(phi.in) :
               e.from \in Entered(fn) /\ Holds(fn.at[e.from].term.to, b)

\* What the passes keep by hand agrees with the terminators after every step,
\* as long as neither a torn edge has done harm nor an invoke was inlined whose
\* unwind block has phi nodes (tornEdge and unwindPhi of Faults).
CfgConsistent == faults \cap {"tornEdge", "unwindPhi"} = {} => EdgesAgree /\ PhisComplete

=============================================================================
