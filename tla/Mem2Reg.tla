------------------------------ MODULE Mem2Reg ------------------------------
(***************************************************************************)
(* Mem2RegPass::runOnFunction (lib/middle/mir/passes/Mem2RegPass.cpp) for  *)
(* one promotable alloca, on top of the dominator tree of module           *)
(* Dominance: the definitions are recorded, phi nodes are placed on the    *)
(* iterated dominance frontier, and a walk of the dominator tree replaces  *)
(* every load by the value that is active there.                           *)
(*                                                                         *)
(* The promoted function and the original one are then run side by side    *)
(* along every path, which is what the properties are about.               *)
(*                                                                         *)
(* Every block loads the variable at its start; the blocks of `stores'     *)
(* store to it afterwards.  Allocas do not interact: the value stacks, the *)
(* phi tables and the worklists are separate.                              *)
(***************************************************************************)
EXTENDS Dominance

VARIABLES
  stage,      \* "scan", "phis", "rename", "run"
  home,       \* the block of the alloca
  stores,     \* the blocks that store to it
  work,       \* the worklist of phase 3
  hasPhi,     \* the blocks that got a phi node
  path,       \* the recursion of renameDFS
  renamed,    \* the blocks it has entered
  values,     \* valueStacks[alloca]
  loads,      \* block -> the value its load was replaced by
  incoming,   \* phi block -> predecessor -> value, NoEntry if there is none
  at,         \* the block the two functions execute
  mem,        \* the store that the memory holds the value of
  phiReg      \* phi block -> the store whose value the register holds

passVars == <<work, hasPhi, path, renamed, values, loads, incoming>>
runVars  == <<at, mem, phiReg>>
vars     == <<domVars, stage, home, stores, passVars, runVars>>

\* Values: that of the store in block b, that of the phi in b, or undef.
Undef       == 0
StoreVal(b) == b
PhiVal(b)   == NumBlocks + b
Values      == 0..(2 * NumBlocks)
NoEntry     == -1

Init ==
  /\ DomInit
  /\ stage = "scan" /\ home = Null /\ stores = {}
  /\ work = {} /\ hasPhi = {}
  /\ path = <<>> /\ renamed = {} /\ values = <<>>
  /\ loads = [b \in Blocks |-> Undef]
  /\ incoming = [b \in Blocks |-> [p \in Blocks |-> NoEntry]]
  /\ at = Null /\ mem = Undef /\ phiReg = [b \in Blocks |-> Undef]

-----------------------------------------------------------------------------
(* Phases 1 to 3.                                                          *)

\* Any alloca whose block dominates its stores, as the lowering makes them.
\* The stores may be listed before the alloca: InliningPass moves the rest of a
\* block, its allocas included, to the end of the list.
Inputs ==
  {in \in (Blocks \cap Reachable) \X SUBSET Blocks : \A b \in in[2] : OnEveryPath(in[1], b)}

\* The scan of pass 1.2, in the order of the list, which records a store only
\* if the alloca was met before.  It looks at instructions only and the
\* analysis at edges only, so that the instructions can be fixed here.  From
\* here on only the tree is asked for, and the numbers are forgotten.
Scan ==
  /\ stage = "scan" /\ phase = "done"
  /\ \E in \in Inputs :
       /\ home' = in[1] /\ stores' = in[2]
       /\ work' = {b \in in[2] : b >= in[1]}
  /\ stage' = "phis" /\ phase' = "used"
  /\ first' = [b \in Blocks |-> 0] /\ last' = first'
  /\ UNCHANGED <<succ, rpoVars, sweepVars, counter, hasPhi, path, renamed, values, loads, incoming, runVars>>

\* computeDominanceFrontiers: the runners of block b climb from each of its
\* predecessors, reachable or not, to its immediate dominator.
Runners(p, b) ==
  LET R[n \in 0..NumBlocks] ==
        IF n = 0 THEN p
        ELSE IF R[n - 1] \in {Null, idoms[b]} THEN R[n - 1] ELSE idoms[R[n - 1]]
  IN {R[n] : n \in 0..NumBlocks} \ {Null, idoms[b]}
Frontier(x) ==
  {b \in Blocks : Cardinality(Preds(b)) >= 2 /\ \E p \in Preds(b) : x \in Runners(p, b)}

\* One round of the worklist; the order of the list does not matter.  A block
\* that was in the list before does not come back.
PlacePhisOnce(x) ==
  /\ stage = "phis" /\ x \in work
  /\ hasPhi' = hasPhi \union Frontier(x)
  /\ work' = work \ {x}
  /\ UNCHANGED <<domVars, stage, home, stores, path, renamed, values, loads, incoming, runVars>>
PlacePhis(x) ==
  /\ stage = "phis" /\ x \in work
  /\ LET new == Frontier(x) \ hasPhi
     IN /\ hasPhi' = hasPhi \union new
        /\ work' = (work \ {x}) \union {y \in new : y \notin stores \/ y < home}
  /\ UNCHANGED <<domVars, stage, home, stores, path, renamed, values, loads, incoming, runVars>>

-----------------------------------------------------------------------------
(* Phase 4: renameDFS.                                                     *)

Active(stk) == IF stk = <<>> THEN Undef ELSE stk[Len(stk)]

\* Steps a, b and c of the call on block b.
Enter(b) ==
  LET atLoad == IF b \in hasPhi THEN Append(values, PhiVal(b)) ELSE values
      atEnd  == IF b \in stores THEN Append(atLoad, StoreVal(b)) ELSE atLoad
  IN /\ path' = Append(path, b)
     /\ renamed' = renamed \union {b}
     /\ loads' = [loads EXCEPT ![b] = Active(atLoad)]
     /\ values' = atEnd
     /\ incoming' = [y \in Blocks |->
          IF y \in succ[b] \cap hasPhi THEN [incoming[y] EXCEPT ![b] = Active(atEnd)]
          ELSE incoming[y]]

BeginRename ==
  /\ stage = "phis" /\ work = {}
  /\ stage' = "rename"
  /\ Enter(Entry)
  /\ UNCHANGED <<domVars, home, stores, work, hasPhi, runVars>>

\* Step d: the recursion into a child of the dominator tree.
RenameChild(c) ==
  /\ stage = "rename" /\ c \in Children(path[Len(path)]) \ renamed
  /\ Enter(c)
  /\ UNCHANGED <<domVars, stage, home, stores, work, hasPhi, runVars>>

\* Step e: the definitions of the block are popped; the first call's return
\* ends the pass (the cleanup deletes the loads and stores).
Pushed(b) == Cardinality({b} \cap hasPhi) + Cardinality({b} \cap stores)
RenameReturn ==
  /\ stage = "rename"
  /\ LET b == path[Len(path)]
     IN /\ Children(b) \subseteq renamed
        /\ values' = SubSeq(values, 1, Len(values) - Pushed(b))
  /\ path' = SubSeq(path, 1, Len(path) - 1)
  /\ IF Len(path) = 1 THEN stage' = "run" /\ at' = Entry ELSE UNCHANGED <<stage, at>>
  /\ UNCHANGED <<domVars, home, stores, work, hasPhi, renamed, loads, incoming, mem, phiReg>>

-----------------------------------------------------------------------------
(* The two functions run: mem is what the original one's load at the start *)
(* of block `at' reads.                                                    *)

Holds(v) == IF v > NumBlocks THEN phiReg[v - NumBlocks] ELSE v

Goto(t) ==
  /\ stage = "run" /\ t \in succ[at]
  /\ at' = t
  /\ mem' = IF t = home THEN Undef ELSE IF at \in stores THEN StoreVal(at) ELSE mem
  /\ phiReg' = IF t \in hasPhi THEN [phiReg EXCEPT ![t] = Holds(incoming[t][at])] ELSE phiReg
  /\ UNCHANGED <<domVars, stage, home, stores, passVars>>

Analyze == DomNext /\ UNCHANGED <<stage, home, stores, passVars, runVars>>

Next ==
  \/ Analyze
  \/ Scan
  \/ \E b \in Blocks : PlacePhis(b) \/ RenameChild(b) \/ Goto(b)
  \/ BeginRename
  \/ RenameReturn

Spec == Init /\ [][Next]_vars

-----------------------------------------------------------------------------
(* Properties.                                                             *)

\* A store that the scan records: its block is not listed before the alloca's.
Recorded == {b \in stores : home <= b}

\* Promotion keeps the value of every recorded store: on every path, through
\* loops and joins, while the memory would hold that value a load that was
\* replaced reads it, whatever the other stores do.  The only stores whose
\* value a load may miss are those of blocks listed before the alloca's, which
\* the scan does not record (Mem2RegPass.cpp 224): a join gets no phi for them.
\* (Memory that no store has reached may be replaced by anything.)
RecordedStoresKept ==
  stage = "run" /\ mem \in Recorded => Holds(loads[at]) = mem \/ ~OnEveryPath(home, at)
=============================================================================
