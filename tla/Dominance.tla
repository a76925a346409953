----------------------------- MODULE Dominance -----------------------------
(***************************************************************************)
(* MIRDominance::analyze (lib/middle/analysis/MIRDominance.cpp) on the     *)
(* control flow graph of one function.  A depth-first search numbers the   *)
(* blocks in post-order; sweeps in reverse post-order compute immediate    *)
(* dominators until a sweep changes nothing, each block by walking two     *)
(* fingers up the dominator chains of its predecessors (intersect); a      *)
(* search of the resulting tree numbers it for dominates.                  *)
(*                                                                         *)
(* A block is its place in the function's block list and 0 is nullptr.     *)
(* The order of successor, predecessor and child lists is left open.       *)
(***************************************************************************)
EXTENDS Integers, Sequences, FiniteSets

CONSTANTS
  NumBlocks,
  MaxSucc     \* bound: the targets of a terminator

ASSUME NumBlocksAssumption == NumBlocks \in Nat \ {0}
ASSUME MaxSuccAssumption == MaxSucc \in Nat

Blocks == 1..NumBlocks
Entry  == 1
Null   == 0

VARIABLES
  succ,       \* block -> the targets of its terminator
  phase,      \* "rpo", "sweep", "tree", "done", and "used" when its user goes on
  stack,      \* the recursion of computeRPO, then of computeDFS
  visited,    \* the blocks it has entered
  pos,        \* block -> its place in rpoStack, 0 if it is not there
  placed,     \* the length of rpoStack
  idoms,      \* block -> its immediate dominator so far, Null if it has none
  changed,
  cur,        \* the place in rpoStack the sweep has come to
  left,       \* predecessors of that block still to be intersected
  b1, b2,     \* the fingers; b2 is newIDom when they meet, Null between blocks
  first, last,\* dfsNumbers
  counter

rpoVars   == <<stack, visited, pos, placed>>
sweepVars == <<idoms, changed, cur, left, b1, b2>>
dfsVars   == <<first, last, counter>>
domVars   == <<succ, phase, rpoVars, sweepVars, dfsVars>>

\* The graphs the pass hands over, rebuilt from the terminators: up to
\* MaxSucc targets, none for a return, never the entry block.
Targets == {T \in SUBSET (Blocks \ {Entry}) : Cardinality(T) <= MaxSucc}
HealedCFGs == [Blocks -> Targets]

DomInit ==
  /\ succ \in HealedCFGs
  /\ phase = "rpo"
  /\ stack = <<Entry>> /\ visited = {Entry}
  /\ pos = [b \in Blocks |-> 0] /\ placed = 0
  /\ idoms = [b \in Blocks |-> Null]
  /\ changed = FALSE /\ cur = 0
  /\ left = {} /\ b1 = Null /\ b2 = Null
  /\ first = [b \in Blocks |-> 0] /\ last = [b \in Blocks |-> 0] /\ counter = 0

Preds(b) == {p \in Blocks : b \in succ[p]}
Top == stack[Len(stack)]
Pop == SubSeq(stack, 1, Len(stack) - 1)
Fresh == succ[Top] \ visited

-----------------------------------------------------------------------------
(* computeRPO.                                                             *)

\* The recursive call on a successor that was not visited before.
VisitRPO(s) ==
  /\ phase = "rpo" /\ s \in Fresh
  /\ stack' = Append(stack, s)
  /\ visited' = visited \union {s}
  /\ UNCHANGED <<succ, phase, pos, placed, sweepVars, dfsVars>>

\* rpo.push_back and the return; the first call's return begins the sweeps.
PlaceRPO ==
  /\ phase = "rpo" /\ Fresh = {}
  /\ pos' = [pos EXCEPT ![Top] = placed + 1]
  /\ placed' = placed + 1
  /\ stack' = Pop
  /\ IF Len(stack) = 1
     THEN /\ phase' = "sweep"
          /\ idoms' = [idoms EXCEPT ![Entry] = Entry]
          /\ cur' = placed + 1
     ELSE UNCHANGED <<phase, idoms, cur>>
  /\ UNCHANGED <<succ, visited, changed, left, b1, b2, dfsVars>>

-----------------------------------------------------------------------------
(* The sweeps.                                                             *)

Processed(b) == {p \in Preds(b) : idoms[p] # Null}

\* The entry block, or a block no processed predecessor leads to.
SkipBlock(b) ==
  /\ phase = "sweep" /\ pos[b] = cur /\ cur # 0 /\ b2 = Null
  /\ b = Entry \/ Processed(b) = {}
  /\ cur' = cur - 1
  /\ UNCHANGED <<succ, phase, rpoVars, idoms, changed, left, b1, b2, dfsVars>>

\* newIDom begins as one of the processed predecessors.
BeginBlock(b, p) ==
  /\ phase = "sweep" /\ pos[b] = cur /\ cur # 0 /\ b2 = Null
  /\ b # Entry /\ p \in Processed(b)
  /\ b1' = p /\ b2' = p
  /\ left' = Processed(b) \ {p}
  /\ UNCHANGED <<succ, phase, rpoVars, idoms, changed, cur, dfsVars>>

\* intersect(pred, newIDom) of another one ...
NextPred(p) ==
  /\ phase = "sweep" /\ b2 # Null /\ b1 = b2 /\ p \in left
  /\ b1' = p
  /\ left' = left \ {p}
  /\ UNCHANGED <<succ, phase, rpoVars, idoms, changed, cur, b2, dfsVars>>

\* ... which moves the finger with the larger reverse post-order index, the
\* one placed earlier, until the two meet.
Walk ==
  /\ phase = "sweep" /\ b1 # b2
  /\ \/ pos[b1] < pos[b2] /\ b1' = idoms[b1] /\ b2' = b2
     \/ pos[b2] < pos[b1] /\ b2' = idoms[b2] /\ b1' = b1
  /\ UNCHANGED <<succ, phase, rpoVars, idoms, changed, cur, left, dfsVars>>

AssignBlock(b) ==
  /\ phase = "sweep" /\ pos[b] = cur /\ b2 # Null /\ b1 = b2 /\ left = {}
  /\ changed' = (changed \/ idoms[b] # b2)
  /\ idoms' = [idoms EXCEPT ![b] = b2]
  /\ cur' = cur - 1
  /\ b1' = Null /\ b2' = Null
  /\ UNCHANGED <<succ, phase, rpoVars, left, dfsVars>>

\* Another sweep while the last one changed something, then the tree: the
\* call of computeDFS on the entry block.
BeginTree ==
  /\ phase' = "tree"
  /\ stack' = <<Entry>> /\ visited' = {Entry}
  /\ counter' = 1 /\ first' = [first EXCEPT ![Entry] = 1]
EndSweepOnce ==
  /\ phase = "sweep" /\ cur = 0
  /\ BeginTree
  /\ UNCHANGED <<succ, pos, placed, sweepVars, last>>
EndSweep ==
  /\ phase = "sweep" /\ cur = 0
  /\ IF changed
     THEN /\ changed' = FALSE /\ cur' = placed
          /\ UNCHANGED <<phase, stack, visited, dfsVars>>
     ELSE BeginTree /\ UNCHANGED <<changed, cur, last>>
  /\ UNCHANGED <<succ, pos, placed, idoms, left, b1, b2>>

-----------------------------------------------------------------------------
(* computeDFS on the dominator tree.                                       *)

Children(b) == {c \in Blocks : idoms[c] = b /\ c # b}

NumberChild(c) ==
  /\ phase = "tree" /\ c \in Children(Top) \ visited
  /\ stack' = Append(stack, c)
  /\ visited' = visited \union {c}
  /\ counter' = counter + 1
  /\ first' = [first EXCEPT ![c] = counter + 1]
  /\ UNCHANGED <<succ, phase, pos, placed, sweepVars, last>>

\* analyze returns and its local tables go.
Return ==
  /\ phase' = "done"
  /\ visited' = {} /\ counter' = 0
  /\ pos' = [b \in Blocks |-> 0] /\ placed' = 0

\* The upper bound is the counter after the children, not the block's own
\* number.
NumberDone ==
  /\ phase = "tree" /\ Children(Top) \subseteq visited
  /\ last' = [last EXCEPT ![Top] = counter]
  /\ stack' = Pop
  /\ IF Len(stack) = 1 THEN Return ELSE UNCHANGED <<phase, visited, pos, placed, counter>>
  /\ UNCHANGED <<succ, sweepVars, first>>

DomNext ==
  \/ \E b \in Blocks :
       \/ VisitRPO(b)
       \/ SkipBlock(b)
       \/ \E p \in Blocks : BeginBlock(b, p)
       \/ NextPred(b)
       \/ AssignBlock(b)
       \/ NumberChild(b)
  \/ PlaceRPO
  \/ Walk
  \/ EndSweep
  \/ NumberDone

DomSpec == DomInit /\ [][DomNext]_domVars

\* MIRDominance::dominates.
Dominates(a, b) ==
  \/ a = b
  \/ first[a] # 0 /\ first[b] # 0 /\ first[a] <= first[b] /\ last[a] >= last[b]

-----------------------------------------------------------------------------
(* Dominance by its definition, on the paths of the graph.                 *)

\* The blocks that paths from the entry reach without passing through a.
ReachAvoiding(a) ==
  LET R[n \in 0..NumBlocks] ==
        IF n = 0 THEN {Entry} \ {a}
        ELSE R[n - 1] \union ((UNION {succ[b] : b \in R[n - 1]}) \ {a})
  IN R[NumBlocks]
Reachable == ReachAvoiding(Null)
OnEveryPath(a, b) == b \notin ReachAvoiding(a)
StrictDominators(b) == {a \in Blocks \ {b} : OnEveryPath(a, b)}

-----------------------------------------------------------------------------
(* Properties.                                                             *)

\* Why intersect terminates and its idoms.at never throws: every chain of
\* immediate dominators climbs in reverse post-order, also between two
\* sweeps when the dominators are not final, and a finger stands only on
\* blocks that have one; the finger that moves is never on the entry block.
ChainsClimb ==
  /\ phase \in {"sweep", "tree"} => \A b \in Blocks \ {Entry} :
       idoms[b] # Null => idoms[idoms[b]] # Null /\ pos[idoms[b]] > pos[b]
  /\ phase = "sweep" /\ b2 # Null =>
       /\ idoms[b1] # Null /\ idoms[b2] # Null
       /\ b1 # b2 => pos[b1] # pos[b2] /\ ~(pos[b1] < pos[b2] /\ b1 = Entry)
                                      /\ ~(pos[b2] < pos[b1] /\ b2 = Entry)

\* When a sweep changed nothing, the table holds for every reachable block
\* the strict dominator that all its others dominate, and nothing for the
\* unreachable ones.
IdomsAreDominators ==
  phase = "tree" =>
    /\ idoms[Entry] = Entry
    /\ \A b \in Blocks \ {Entry} :
         IF b \in Reachable
         THEN /\ idoms[b] \in StrictDominators(b)
              /\ \A a \in StrictDominators(b) : a = idoms[b] \/ OnEveryPath(a, idoms[b])
         ELSE idoms[b] = Null

\* dominates answers from the numbers of the tree what the paths say: for
\* reachable blocks exactly, and never for an unreachable one.
DominatesMeansPaths ==
  phase = "done" =>
    \A a \in Blocks :
      LET below == IF a \in Reachable THEN Reachable \ ReachAvoiding(a) ELSE {a}
      IN \A b \in Blocks : Dominates(a, b) <=> b \in below

\* The analysis is exact: its table while the tree is built, its answers after.
DominanceExact == IdomsAreDominators /\ DominatesMeansPaths

=============================================================================
