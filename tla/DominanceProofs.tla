-------------------------- MODULE DominanceProofs --------------------------
(***************************************************************************)
(* For every control flow graph of any size: ChainsClimb (intersect always *)
(* terminates and never asks for a dominator that is not there),           *)
(* DominanceExact (the analysis computes dominance), EntriesClimb (the     *)
(* sweeps that change something come to an end) and RecordedStoresKept     *)
(* (promotion to registers, which uses the tree, keeps every load).        *)
(*                                                                         *)
(* ChainsClimb: the search places a block before the block it was entered  *)
(* from (Searching, then Numbered), so in every sweep a block has a        *)
(* predecessor that is placed later and already has a dominator, and the   *)
(* fingers end at or above it (Fingers).                                   *)
(*                                                                         *)
(* DominanceExact: the chain of a block never loses one of its dominators  *)
(* (TableKeeps, FingersKeep), since the finger that moves is never on one; *)
(* when a sweep changes nothing, every block's entry is above all its      *)
(* predecessors (Stable), and then no path gets below it except through    *)
(* it.  The tree's numbers nest as its chains do (Intervals).              *)
(*                                                                         *)
(* EntriesClimb: all the chain of a later predecessor has from the block's *)
(* entry on is on that entry's own chain (Follows), and nothing that is    *)
(* above all predecessors is placed before the entry (Lowest); so the next *)
(* meeting of the fingers is above the last, and chains only shrink.       *)
(*                                                                         *)
(* RecordedStoresKept: a block that a definition reaches and does not      *)
(* strictly dominate is on a frontier, so between phis the value of a load *)
(* comes down the dominator tree; the argument is at PassInv.              *)
(***************************************************************************)
EXTENDS Mem2Reg, FiniteSetTheorems, SequenceTheorems, WellFoundedInduction, TLAPS

\* The types the proof needs.
Types ==
  /\ succ \in [Blocks -> SUBSET (Blocks \ {Entry})]
  /\ phase \in {"rpo", "sweep", "tree", "done"}
  /\ stack \in Seq(Blocks)
  /\ visited \in SUBSET Blocks
  /\ pos \in [Blocks -> Nat] /\ placed \in Nat
  /\ idoms \in [Blocks -> Blocks \union {Null}]
  /\ cur \in Nat
  /\ left \in SUBSET Blocks /\ b1 \in Blocks \union {Null} /\ b2 \in Blocks \union {Null}

\* Two blocks never share a place in rpoStack.
Injective ==
  \A b, c \in Blocks : pos[b] = pos[c] /\ pos[b] # 0 => b = c

\* The stack of computeRPO is a path from the entry through the visited
\* blocks that have no place yet.
StackIsPath ==
  /\ Len(stack) >= 1 /\ stack[1] = Entry
  /\ \A i \in 1..Len(stack) : stack[i] \in visited /\ pos[stack[i]] = 0
  /\ \A i, j \in 1..Len(stack) : i # j => stack[i] # stack[j]
  /\ \A i \in 2..Len(stack) : stack[i] \in succ[stack[i - 1]]
  /\ \A b \in visited : pos[b] = 0 => \E i \in 1..Len(stack) : stack[i] = b

\* A placed block was entered from one that is still open or placed later.
EnteredFrom ==
  \A b \in Blocks \ {Entry} : pos[b] # 0 =>
    \E p \in visited : b \in succ[p] /\ (pos[p] = 0 \/ pos[p] > pos[b])

Searching ==
  /\ StackIsPath
  /\ EnteredFrom
  /\ \A b \in Blocks : idoms[b] = Null
  /\ \A b \in Blocks : pos[b] <= placed /\ (pos[b] # 0 => b \in visited)
  /\ b1 = Null /\ b2 = Null /\ left = {} /\ cur = 0

\* What the search leaves: the entry is placed last, and every other block
\* has a predecessor that is placed later.
Numbered ==
  /\ placed # 0 /\ pos[Entry] = placed
  /\ \A b \in Blocks : pos[b] <= placed
  /\ \A b \in Blocks \ {Entry} : pos[b] # 0 =>
       \E p \in Blocks : b \in succ[p] /\ pos[p] > pos[b]

Climbing ==
  /\ idoms[Entry] = Entry
  /\ \A b \in Blocks : idoms[b] # Null => pos[b] # 0
  /\ \A b \in Blocks \ {Entry} :
       idoms[b] # Null => idoms[idoms[b]] # Null /\ pos[idoms[b]] > pos[b]

\* The blocks the sweep has passed have dominators; while a block is treated,
\* no predecessor that was intersected is placed after both fingers.
Fingers ==
  /\ cur <= placed
  /\ \A b \in Blocks : pos[b] > cur => idoms[b] # Null
  /\ b2 = Null => b1 = Null
  /\ b2 # Null =>
       /\ cur # 0 /\ b1 # Null
       /\ idoms[b1] # Null /\ idoms[b2] # Null
       /\ \A b \in Blocks : pos[b] = cur =>
            /\ b # Entry
            /\ \A p \in Blocks : b \in succ[p] /\ idoms[p] # Null =>
                 p \in left \/ pos[p] <= pos[b1] \/ pos[p] <= pos[b2]
       /\ \A p \in left : idoms[p] # Null

IInv ==
  /\ Types
  /\ phase # "done" => Injective
  /\ phase = "rpo" => Searching
  /\ phase \in {"sweep", "tree"} => Numbered /\ Climbing
  /\ phase = "sweep" => Fingers
  /\ phase = "tree" => b2 = Null

-----------------------------------------------------------------------------

\* The entry is a block, nullptr is none.
LEMMA EntryIsBlock == Entry \in Blocks /\ Null \notin Blocks
  BY NumBlocksAssumption DEF Entry, Blocks, Null

\* Every step of analyze keeps its tables within the function.
LEMMA TypesInit == DomInit => Types
  <1> SUFFICES ASSUME DomInit PROVE Types
    OBVIOUS
  <1>1. succ \in [Blocks -> SUBSET (Blocks \ {Entry})]
    BY DEF DomInit, HealedCFGs, Targets
  <1>2. stack \in Seq(Blocks) /\ visited \in SUBSET Blocks
    BY EntryIsBlock DEF DomInit
  <1> QED BY <1>1, <1>2 DEF DomInit, Types, Null

\* The search begins with the entry on the stack and nothing placed.
LEMMA InitHolds == DomInit => IInv
  <1> SUFFICES ASSUME DomInit PROVE IInv
    OBVIOUS
  <1>1. Types
    BY TypesInit
  <1>2. Injective
    BY DEF DomInit, Injective
  <1>3. Len(stack) = 1 /\ stack[1] = Entry /\ visited = {Entry} /\ phase = "rpo"
    BY DEF DomInit
  <1>4. StackIsPath
    BY <1>3, EntryIsBlock DEF DomInit, StackIsPath
  <1>5. Searching
    BY <1>4 DEF DomInit, Searching, EnteredFrom
  <1> QED BY <1>1, <1>2, <1>3, <1>5 DEF IInv

-----------------------------------------------------------------------------
(* The search.                                                             *)

\* A call of computeRPO extends the path by an unvisited successor.
LEMMA VisitKeeps ==
  ASSUME IInv, NEW s \in Blocks, VisitRPO(s)
  PROVE  IInv'
  <1> DEFINE n == Len(stack)
  <1>1. /\ Types /\ Injective /\ Searching /\ phase = "rpo"
        /\ s \notin visited /\ s \in succ[stack[n]]
        /\ stack' = Append(stack, s) /\ visited' = visited \union {s}
        /\ UNCHANGED <<succ, phase, pos, placed, idoms, changed, cur, left, b1, b2>>
    BY DEF IInv, VisitRPO, Fresh, Top, sweepVars
  <1>2. stack \in Seq(Blocks) /\ n \in Nat /\ n >= 1
    BY <1>1 DEF Types, Searching, StackIsPath
  <1>3. Len(stack') = n + 1 /\ stack'[n + 1] = s
    BY <1>1, <1>2
  <1>4. \A i \in 1..n : stack'[i] = stack[i]
    BY <1>1, <1>2
  <1>5. stack' \in Seq(Blocks)
    BY <1>1, <1>2
  <1>6. Types'
    BY <1>1, <1>5 DEF Types
  <1>7. pos[s] = 0
    BY <1>1 DEF Types, Searching
  <1>8. StackIsPath'
    <2>1. Len(stack') >= 1 /\ stack'[1] = Entry
      BY <1>1, <1>2, <1>3, <1>4 DEF Searching, StackIsPath
    <2>2. \A i \in 1..Len(stack') : stack'[i] \in visited' /\ pos'[stack'[i]] = 0
      BY <1>1, <1>2, <1>3, <1>4, <1>7 DEF Searching, StackIsPath
    <2>3. \A i, j \in 1..Len(stack') : i # j => stack'[i] # stack'[j]
      BY <1>1, <1>2, <1>3, <1>4 DEF Searching, StackIsPath
    <2>4. \A i \in 2..Len(stack') : stack'[i] \in succ'[stack'[i - 1]]
      BY <1>1, <1>2, <1>3, <1>4 DEF Searching, StackIsPath
    <2>5. \A b \in visited' : pos'[b] = 0 => \E i \in 1..Len(stack') : stack'[i] = b
      BY <1>1, <1>2, <1>3, <1>4 DEF Searching, StackIsPath
    <2> QED BY <2>1, <2>2, <2>3, <2>4, <2>5 DEF StackIsPath
  <1>9. Searching'
    BY <1>1, <1>8 DEF Searching, EnteredFrom
  <1> QED BY <1>1, <1>6, <1>9 DEF IInv, Injective

\* What popping a sequence leaves.
LEMMA PopFacts ==
  ASSUME NEW S, NEW q \in Seq(S), Len(q) >= 1
  PROVE  /\ SubSeq(q, 1, Len(q) - 1) \in Seq(S)
         /\ Len(SubSeq(q, 1, Len(q) - 1)) = Len(q) - 1
         /\ \A i \in 1..(Len(q) - 1) : SubSeq(q, 1, Len(q) - 1)[i] = q[i]
  <1> DEFINE n == Len(q) - 1
  <1>1. n \in Nat
    OBVIOUS
  <1>2. \A i \in 1..n : q[i] \in S
    OBVIOUS
  <1> HIDE DEF n
  <1>3. /\ SubSeq(q, 1, n) \in Seq(S)
        /\ Len(SubSeq(q, 1, n)) = IF 1 <= n THEN n - 1 + 1 ELSE 0
        /\ \A i \in 1..(n - 1 + 1) : SubSeq(q, 1, n)[i] = q[1 + i - 1]
    BY <1>1, <1>2, SubSeqProperties
  <1>4. Len(SubSeq(q, 1, n)) = n
    BY <1>1, <1>3
  <1>5. ASSUME NEW i \in 1..n PROVE SubSeq(q, 1, n)[i] = q[i]
    <2>1. i \in 1..(n - 1 + 1) /\ 1 + i - 1 = i
      BY <1>1
    <2> QED BY <1>3, <2>1
  <1> QED BY <1>3, <1>4, <1>5 DEF n

\* A return of computeRPO places the block on top; the last one numbers them.
LEMMA PlaceKeeps ==
  ASSUME IInv, PlaceRPO
  PROVE  IInv'
  <1> DEFINE n == Len(stack)
             top == stack[n]
  <1>1. /\ Types /\ Injective /\ Searching /\ phase = "rpo"
        /\ pos' = [pos EXCEPT ![top] = placed + 1] /\ placed' = placed + 1
        /\ stack' = SubSeq(stack, 1, n - 1)
        /\ UNCHANGED <<succ, visited, changed, left, b1, b2>>
    BY DEF IInv, PlaceRPO, Top, Pop
  <1>2. stack \in Seq(Blocks) /\ n \in Nat /\ n >= 1 /\ top \in Blocks
    BY <1>1 DEF Types, Searching, StackIsPath
  <1>3. top \in visited /\ pos[top] = 0
    BY <1>1, <1>2 DEF Searching, StackIsPath
  <1>4. Len(stack') = n - 1 /\ stack' \in Seq(Blocks)
    BY <1>1, <1>2, PopFacts
  <1>5. \A i \in 1..(n - 1) : stack'[i] = stack[i]
    BY <1>1, <1>2, PopFacts
  <1>6. pos' \in [Blocks -> Nat] /\ placed' \in Nat
    BY <1>1, <1>2 DEF Types
  <1>7. /\ pos'[top] = placed + 1
        /\ \A b \in Blocks : b # top => pos'[b] = pos[b]
    BY <1>1, <1>2 DEF Types
  <1>8. \A b \in Blocks : pos[b] \in Nat /\ pos[b] <= placed
    BY <1>1 DEF Types, Searching
  <1>9. Injective'
    BY <1>1, <1>2, <1>7, <1>8 DEF Injective, Types
  <1>10. \A b \in Blocks : pos'[b] <= placed'
    BY <1>1, <1>2, <1>7, <1>8 DEF Types
  <1>11. CASE n = 1
    <2>1. /\ phase' = "sweep" /\ cur' = placed + 1
          /\ idoms' = [idoms EXCEPT ![Entry] = Entry]
      BY <1>11 DEF PlaceRPO
    <2>2. top = Entry
      BY <1>1, <1>11 DEF Searching, StackIsPath
    <2>3. \A p \in visited : pos[p] = 0 => p = Entry
      BY <1>1, <1>11 DEF Searching, StackIsPath
    <2>4. idoms'[Entry] = Entry /\ \A b \in Blocks : b # Entry => idoms'[b] = Null
      BY <1>1, <2>1, EntryIsBlock DEF Types, Searching
    <2>5. idoms' \in [Blocks -> Blocks \union {Null}]
      BY <1>1, <2>1, EntryIsBlock DEF Types
    <2>6. cur' \in Nat
      BY <1>1, <2>1 DEF Types
    <2>7. Types'
      BY <1>1, <1>4, <1>6, <2>1, <2>5, <2>6 DEF Types
    <2>8. ASSUME NEW b \in Blocks \ {Entry}, pos'[b] # 0
          PROVE  \E p \in Blocks : b \in succ'[p] /\ pos'[p] > pos'[b]
      <3>1. pos'[b] = pos[b]
        BY <1>7, <2>2
      <3>2. PICK p \in visited : b \in succ[p] /\ (pos[p] = 0 \/ pos[p] > pos[b])
        BY <1>1, <2>8, <3>1 DEF Searching, EnteredFrom
      <3>3. p \in Blocks
        BY <1>1 DEF Types
      <3>4. CASE p = Entry
        BY <1>1, <1>7, <1>8, <2>2, <3>1, <3>2, <3>3, <3>4 DEF Types
      <3>5. CASE p # Entry
        BY <1>1, <1>7, <2>2, <2>3, <3>1, <3>2, <3>3, <3>5
      <3> QED BY <3>4, <3>5
    <2>9. placed' # 0 /\ pos'[Entry] = placed'
      BY <1>1, <1>7, <2>2 DEF Types
    <2>10. Numbered'
      BY <1>10, <2>8, <2>9 DEF Numbered
    <2>11. Climbing'
      BY <2>4, <2>9 DEF Climbing
    <2>12. Fingers'
      <3>1. cur' = placed'
        BY <1>1, <2>1
      <3>2. \A b \in Blocks : pos'[b] > cur' => idoms'[b] # Null
        BY <1>6, <1>10, <3>1, <2>6
      <3>3. b1' = Null /\ b2' = Null
        BY <1>1 DEF Searching
      <3> QED BY <3>1, <3>2, <3>3, <2>6 DEF Fingers
    <2> QED BY <1>9, <2>1, <2>7, <2>10, <2>11, <2>12 DEF IInv
  <1>12. CASE n # 1
    <2>1. UNCHANGED <<phase, idoms, cur>>
      BY <1>12 DEF PlaceRPO
    <2>2. Types'
      BY <1>1, <1>4, <1>6, <2>1 DEF Types
    <2>3. n - 1 \in 1..n /\ n - 1 >= 1
      <3> HIDE DEF n
      <3> QED BY <1>2, <1>12
    <2>4. \A i \in 1..(n - 1) : stack[i] # top
      BY <1>1, <1>2 DEF Searching, StackIsPath
    <2>5. StackIsPath'
      <3>1. Len(stack') >= 1 /\ stack'[1] = Entry
        BY <1>1, <1>2, <1>4, <1>5, <2>3 DEF Searching, StackIsPath
      <3>2. \A i \in 1..Len(stack') : stack'[i] \in visited' /\ pos'[stack'[i]] = 0
        BY <1>1, <1>2, <1>4, <1>5, <1>7, <2>4 DEF Searching, StackIsPath
      <3>3. \A i, j \in 1..Len(stack') : i # j => stack'[i] # stack'[j]
        BY <1>1, <1>2, <1>4, <1>5 DEF Searching, StackIsPath
      <3>4. \A i \in 2..Len(stack') : stack'[i] \in succ'[stack'[i - 1]]
        <4> SUFFICES ASSUME NEW i \in 2..Len(stack') PROVE stack'[i] \in succ'[stack'[i - 1]]
          OBVIOUS
        <4>1. i \in 2..n /\ i \in 1..(n - 1) /\ i - 1 \in 1..(n - 1)
          BY <1>2, <1>4
        <4>2. stack[i] \in succ[stack[i - 1]]
          BY <1>1, <4>1 DEF Searching, StackIsPath
        <4>3. stack'[i] = stack[i] /\ stack'[i - 1] = stack[i - 1]
          BY <1>5, <4>1
        <4> QED BY <1>1, <4>2, <4>3
      <3>5. \A b \in visited' : pos'[b] = 0 => \E i \in 1..Len(stack') : stack'[i] = b
        <4> SUFFICES ASSUME NEW b \in visited, pos'[b] = 0
                     PROVE  \E i \in 1..(n - 1) : stack[i] = b
          BY <1>1, <1>4, <1>5
        <4>1. b \in Blocks /\ b # top /\ pos[b] = 0
          BY <1>1, <1>7 DEF Types
        <4>2. PICK i \in 1..n : stack[i] = b
          BY <1>1, <4>1 DEF Searching, StackIsPath
        <4>3. i # n
          BY <4>1, <4>2
        <4> QED BY <1>2, <4>2, <4>3
      <3> QED BY <3>1, <3>2, <3>3, <3>4, <3>5 DEF StackIsPath
    <2>6. EnteredFrom'
      <3> SUFFICES ASSUME NEW b \in Blocks \ {Entry}, pos'[b] # 0
                   PROVE  \E p \in visited : b \in succ[p] /\ (pos'[p] = 0 \/ pos'[p] > pos'[b])
        BY <1>1 DEF EnteredFrom
      <3>1. CASE b = top
        <4>1. stack[n - 1] \in visited /\ b \in succ[stack[n - 1]] /\ pos'[stack[n - 1]] = 0
          BY <1>1, <1>2, <1>4, <1>5, <2>3, <2>5, <3>1 DEF Searching, StackIsPath
        <4> QED BY <4>1
      <3>2. CASE b # top
        <4>1. pos'[b] = pos[b]
          BY <1>7, <3>2
        <4>2. PICK p \in visited : b \in succ[p] /\ (pos[p] = 0 \/ pos[p] > pos[b])
          BY <1>1, <4>1 DEF Searching, EnteredFrom
        <4>3. p \in Blocks
          BY <1>1 DEF Types
        <4>4. pos'[p] = 0 \/ pos'[p] > pos'[b]
          BY <1>1, <1>7, <1>8, <4>1, <4>2, <4>3 DEF Types
        <4> QED BY <4>2, <4>4
      <3> QED BY <3>1, <3>2
    <2>7. \A b \in Blocks : pos'[b] # 0 => b \in visited'
      BY <1>1, <1>3, <1>7 DEF Searching
    <2>8. Searching'
      BY <1>1, <1>10, <2>1, <2>5, <2>6, <2>7 DEF Searching
    <2> QED BY <1>1, <1>9, <2>1, <2>2, <2>8 DEF IInv
  <1> QED BY <1>11, <1>12

-----------------------------------------------------------------------------
(* The sweeps.                                                             *)

\* The block a sweep has come to has a predecessor that is placed later, and
\* that one has a dominator already: newIDom is never nullptr.
LEMMA LaterPredecessor ==
  ASSUME Types, Numbered, Fingers,
         NEW b \in Blocks \ {Entry}, pos[b] = cur, cur # 0
  PROVE  \E p \in Processed(b) : pos[p] > pos[b]
  <1>1. PICK p \in Blocks : b \in succ[p] /\ pos[p] > pos[b]
    BY DEF Numbered
  <1>2. idoms[p] # Null
    BY <1>1 DEF Fingers
  <1> QED BY <1>1, <1>2 DEF Processed, Preds

\* A sweep passes over the entry block only.
LEMMA SkipKeeps ==
  ASSUME IInv, NEW b \in Blocks, SkipBlock(b)
  PROVE  IInv'
  <1>1. /\ Types /\ Injective /\ Numbered /\ Climbing /\ Fingers /\ phase = "sweep"
        /\ pos[b] = cur /\ cur # 0 /\ b2 = Null /\ cur' = cur - 1
        /\ UNCHANGED <<succ, phase, stack, visited, pos, placed, idoms, left, b1, b2>>
    BY DEF IInv, SkipBlock, rpoVars
  <1>2. b = Entry
    BY <1>1, LaterPredecessor DEF SkipBlock
  <1>3. cur' \in Nat
    BY <1>1 DEF Types
  <1>4. Types'
    BY <1>1, <1>3 DEF Types
  <1>5. ASSUME NEW c \in Blocks, pos[c] > cur - 1 PROVE idoms[c] # Null
    <2>1. CASE pos[c] > cur
      BY <1>1, <2>1 DEF Fingers
    <2>2. CASE pos[c] = cur
      <3>1. c = b
        BY <1>1, <2>2 DEF Injective
      <3> QED BY <1>1, <1>2, <3>1, EntryIsBlock DEF Climbing
    <2> QED BY <1>1, <1>5, <2>1, <2>2 DEF Types
  <1>6. Fingers'
    BY <1>1, <1>3, <1>5 DEF Fingers, Types
  <1> QED BY <1>1, <1>4, <1>6 DEF IInv, Injective, Numbered, Climbing

\* newIDom starts on a predecessor, the only one intersected so far.
LEMMA BeginKeeps ==
  ASSUME IInv, NEW b \in Blocks, NEW p \in Blocks, BeginBlock(b, p)
  PROVE  IInv'
  <1>1. /\ Types /\ Injective /\ Numbered /\ Climbing /\ Fingers /\ phase = "sweep"
        /\ pos[b] = cur /\ cur # 0 /\ b # Entry /\ p \in Processed(b)
        /\ b1' = p /\ b2' = p /\ left' = Processed(b) \ {p}
        /\ UNCHANGED <<succ, phase, stack, visited, pos, placed, idoms, cur>>
    BY DEF IInv, BeginBlock, rpoVars
  <1>2. Types'
    BY <1>1 DEF Types, Processed, Preds
  <1>3. p # Null /\ idoms[p] # Null
    BY <1>1, EntryIsBlock DEF Processed
  <1>4. ASSUME NEW c \in Blocks, pos[c] = cur
        PROVE  /\ c # Entry
               /\ \A q \in Blocks : c \in succ[q] /\ idoms[q] # Null =>
                    q \in left' \/ pos[q] <= pos[p]
    <2>1. c = b
      BY <1>1, <1>4 DEF Injective
    <2>2. pos[p] <= pos[p]
      BY <1>1 DEF Types
    <2> QED BY <1>1, <2>1, <2>2 DEF Processed, Preds
  <1>5. \A q \in left' : idoms[q] # Null
    BY <1>1 DEF Processed
  <1>6. Fingers'
    BY <1>1, <1>3, <1>4, <1>5 DEF Fingers
  <1> QED BY <1>1, <1>2, <1>6 DEF IInv, Injective, Numbered, Climbing

\* A finger on the next predecessor, the other above all earlier ones.
LEMMA NextPredKeeps ==
  ASSUME IInv, NEW p \in Blocks, NextPred(p)
  PROVE  IInv'
  <1>1. /\ Types /\ Injective /\ Numbered /\ Climbing /\ Fingers /\ phase = "sweep"
        /\ b2 # Null /\ b1 = b2 /\ p \in left
        /\ b1' = p /\ left' = left \ {p}
        /\ UNCHANGED <<succ, phase, stack, visited, pos, placed, idoms, cur, b2>>
    BY DEF IInv, NextPred, rpoVars
  <1>2. Types'
    BY <1>1 DEF Types
  <1>3. p # Null /\ idoms[p] # Null
    BY <1>1, EntryIsBlock DEF Fingers
  <1>4. ASSUME NEW c \in Blocks, pos[c] = cur
        PROVE  /\ c # Entry
               /\ \A q \in Blocks : c \in succ[q] /\ idoms[q] # Null =>
                    q \in left' \/ pos[q] <= pos[p] \/ pos[q] <= pos[b2]
    BY <1>1, <1>4 DEF Fingers, Types
  <1>5. \A q \in left' : idoms[q] # Null
    BY <1>1 DEF Fingers
  <1>6. Fingers'
    BY <1>1, <1>3, <1>4, <1>5 DEF Fingers
  <1> QED BY <1>1, <1>2, <1>6 DEF IInv, Injective, Numbered, Climbing

\* A finger climbs: it was not on the entry, which no block is placed after.
LEMMA WalkKeeps ==
  ASSUME IInv, Walk
  PROVE  IInv'
  <1>1. /\ Types /\ Injective /\ Numbered /\ Climbing /\ Fingers /\ phase = "sweep" /\ b1 # b2
        /\ UNCHANGED <<succ, phase, stack, visited, pos, placed, idoms, cur, left>>
    BY DEF IInv, Walk, rpoVars
  <1>2. b2 # Null /\ b1 # Null /\ b1 \in Blocks /\ b2 \in Blocks
    BY <1>1 DEF Fingers, Types
  <1>3. ASSUME NEW f \in Blocks, NEW g \in Blocks, idoms[f] # Null, pos[f] < pos[g]
        PROVE  /\ idoms[f] \in Blocks /\ idoms[f] # Null
               /\ idoms[idoms[f]] # Null /\ pos[idoms[f]] > pos[f]
    <2>1. f # Entry
      BY <1>1, <1>3 DEF Numbered, Types
    <2> QED BY <1>1, <1>3, <2>1 DEF Climbing, Types
  <1>4. CASE pos[b1] < pos[b2] /\ b1' = idoms[b1] /\ b2' = b2
    <2>1. b1' \in Blocks /\ b1' # Null /\ idoms[b1'] # Null /\ pos[b1'] > pos[b1]
      BY <1>1, <1>2, <1>3, <1>4 DEF Fingers
    <2>2. Types'
      BY <1>1, <1>4, <2>1 DEF Types
    <2>3. \A q \in Blocks : pos[q] <= pos[b1] => pos[q] <= pos[b1']
      BY <1>1, <1>2, <2>1 DEF Types
    <2>4. Fingers'
      BY <1>1, <1>2, <1>4, <2>1, <2>3 DEF Fingers
    <2> QED BY <1>1, <2>2, <2>4 DEF IInv, Injective, Numbered, Climbing
  <1>5. CASE pos[b2] < pos[b1] /\ b2' = idoms[b2] /\ b1' = b1
    <2>1. b2' \in Blocks /\ b2' # Null /\ idoms[b2'] # Null /\ pos[b2'] > pos[b2]
      BY <1>1, <1>2, <1>3, <1>5 DEF Fingers
    <2>2. Types'
      BY <1>1, <1>5, <2>1 DEF Types
    <2>3. \A q \in Blocks : pos[q] <= pos[b2] => pos[q] <= pos[b2']
      BY <1>1, <1>2, <2>1 DEF Types
    <2>4. Fingers'
      BY <1>1, <1>2, <1>5, <2>1, <2>3 DEF Fingers
    <2> QED BY <1>1, <2>2, <2>4 DEF IInv, Injective, Numbered, Climbing
  <1> QED BY <1>4, <1>5 DEF Walk

\* The met fingers become the immediate dominator; they are above the later
\* predecessor, hence above the block.
LEMMA AssignKeeps ==
  ASSUME IInv, NEW b \in Blocks, AssignBlock(b)
  PROVE  IInv'
  <1>1. /\ Types /\ Injective /\ Numbered /\ Climbing /\ Fingers /\ phase = "sweep"
        /\ pos[b] = cur /\ b2 # Null /\ b1 = b2 /\ left = {}
        /\ idoms' = [idoms EXCEPT ![b] = b2] /\ cur' = cur - 1
        /\ b1' = Null /\ b2' = Null
        /\ UNCHANGED <<succ, phase, stack, visited, pos, placed, left>>
    BY DEF IInv, AssignBlock, rpoVars
  <1>2. cur # 0 /\ b # Entry /\ idoms[b2] # Null /\ b2 \in Blocks
    BY <1>1 DEF Fingers, Types
  <1>3. cur' \in Nat /\ idoms' \in [Blocks -> Blocks \union {Null}]
    BY <1>1, <1>2 DEF Types
  <1>4. Types'
    BY <1>1, <1>3 DEF Types
  <1>5. idoms'[b] = b2 /\ \A c \in Blocks : c # b => idoms'[c] = idoms[c]
    BY <1>1 DEF Types
  <1>6. pos[b2] > pos[b]
    <2>1. PICK p \in Processed(b) : pos[p] > pos[b]
      BY <1>1, <1>2, LaterPredecessor
    <2>2. p \in Blocks /\ b \in succ[p] /\ idoms[p] # Null
      BY DEF Processed, Preds
    <2>3. pos[p] <= pos[b2]
      BY <1>1, <2>2 DEF Fingers
    <2> QED BY <1>1, <1>2, <2>1, <2>2, <2>3 DEF Types
  <1>7. b2 # b
    BY <1>1, <1>6 DEF Types
  <1>8. Climbing'
    <2>1. idoms'[Entry] = Entry
      BY <1>1, <1>2, <1>5, EntryIsBlock DEF Climbing
    <2>2. \A c \in Blocks : idoms'[c] # Null => pos'[c] # 0
      BY <1>1, <1>2, <1>5 DEF Climbing
    <2>3. ASSUME NEW c \in Blocks \ {Entry}, idoms'[c] # Null
          PROVE  idoms'[idoms'[c]] # Null /\ pos'[idoms'[c]] > pos'[c]
      <3>1. CASE c = b
        BY <1>1, <1>2, <1>5, <1>6, <1>7, <3>1
      <3>2. CASE c # b
        <4>1. idoms'[c] = idoms[c] /\ idoms[c] \in Blocks
          BY <1>1, <1>5, <2>3, <3>2 DEF Types
        <4>2. idoms[idoms[c]] # Null /\ pos[idoms[c]] > pos[c]
          BY <1>1, <2>3, <4>1 DEF Climbing
        <4>3. idoms'[idoms[c]] # Null
          BY <1>1, <1>5, <4>1, <4>2
        <4> QED BY <1>1, <4>1, <4>2, <4>3
      <3> QED BY <3>1, <3>2
    <2> QED BY <2>1, <2>2, <2>3 DEF Climbing
  <1>9. ASSUME NEW c \in Blocks, pos[c] > cur - 1 PROVE idoms'[c] # Null
    <2>1. CASE pos[c] > cur
      BY <1>1, <1>5, <2>1 DEF Fingers
    <2>2. CASE pos[c] = cur
      BY <1>1, <1>2, <1>5, <2>2 DEF Injective
    <2> QED BY <1>1, <1>9, <2>1, <2>2 DEF Types
  <1>10. cur' <= placed'
    BY <1>1 DEF Fingers, Types
  <1>11. Fingers'
    BY <1>1, <1>9, <1>10 DEF Fingers
  <1> QED BY <1>1, <1>4, <1>8, <1>11 DEF IInv, Injective, Numbered

\* The next sweep starts above the entry; the tree keeps what the sweeps left.
LEMMA EndSweepKeeps ==
  ASSUME IInv, EndSweep
  PROVE  IInv'
  <1>1. /\ Types /\ Injective /\ Numbered /\ Climbing /\ Fingers /\ phase = "sweep" /\ cur = 0
        /\ UNCHANGED <<succ, pos, placed, idoms, left, b1, b2>>
    BY DEF IInv, EndSweep
  <1>2. b2 = Null /\ b1 = Null
    BY <1>1 DEF Fingers
  <1>3. CASE changed
    <2>1. cur' = placed /\ UNCHANGED <<phase, stack, visited>>
      BY <1>3 DEF EndSweep
    <2>2. Types'
      BY <1>1, <2>1 DEF Types
    <2>3. \A c \in Blocks : ~(pos[c] > placed)
      BY <1>1 DEF Numbered, Types
    <2>4. Fingers'
      BY <1>1, <1>2, <2>1, <2>3 DEF Fingers, Types
    <2> QED BY <1>1, <2>1, <2>2, <2>4 DEF IInv, Injective, Numbered, Climbing
  <1>4. CASE ~changed
    <2>1. phase' = "tree" /\ stack' = <<Entry>> /\ visited' = {Entry} /\ cur' = cur
      BY <1>4 DEF EndSweep, BeginTree
    <2>2. Types'
      BY <1>1, <2>1, EntryIsBlock DEF Types
    <2> QED BY <1>1, <1>2, <2>1, <2>2 DEF IInv, Injective, Numbered, Climbing
  <1> QED BY <1>3, <1>4

-----------------------------------------------------------------------------
(* The tree, and the theorem.                                              *)

\* computeDFS does not touch the dominators.
LEMMA TreeKeeps ==
  ASSUME IInv, (\E c \in Blocks : NumberChild(c)) \/ NumberDone
  PROVE  IInv'
  <1>1. Types /\ phase = "tree" /\ Injective /\ Numbered /\ Climbing /\ b2 = Null
    BY DEF IInv, NumberChild, NumberDone
  <1>2. CASE \E c \in Blocks : NumberChild(c)
    <2>1. PICK c \in Blocks : NumberChild(c)
      BY <1>2
    <2>2. /\ stack' = Append(stack, c) /\ visited' = visited \union {c}
          /\ UNCHANGED <<succ, phase, pos, placed, idoms, changed, cur, left, b1, b2>>
      BY <2>1 DEF NumberChild, sweepVars
    <2>3. Types'
      BY <1>1, <2>2 DEF Types
    <2> QED BY <1>1, <2>2, <2>3 DEF IInv, Injective, Numbered, Climbing
  <1>3. CASE NumberDone
    <2>1. UNCHANGED <<succ, idoms, changed, cur, left, b1, b2>>
      BY <1>3 DEF NumberDone, sweepVars
    <2>2. stack' = Pop
      BY <1>3 DEF NumberDone
    <2>3. stack' \in Seq(Blocks)
      <3>1. \A i \in 1..(Len(stack) - 1) : stack[i] \in Blocks
        BY <1>1 DEF Types
      <3>2. Len(stack) - 1 \in Int
        BY <1>1 DEF Types
      <3> QED BY <2>2, <3>1, <3>2, SubSeqProperties DEF Pop
    <2>4. CASE Len(stack) = 1
      <3>1. phase' = "done" /\ visited' = {} /\ pos' = [c \in Blocks |-> 0] /\ placed' = 0
        BY <1>3, <2>4 DEF NumberDone, Return
      <3>2. Types'
        BY <1>1, <2>1, <2>3, <3>1 DEF Types
      <3> QED BY <3>1, <3>2 DEF IInv
    <2>5. CASE Len(stack) # 1
      <3>1. UNCHANGED <<phase, visited, pos, placed>>
        BY <1>3, <2>5 DEF NumberDone
      <3>2. Types'
        BY <1>1, <2>1, <2>3, <3>1 DEF Types
      <3> QED BY <1>1, <2>1, <3>1, <3>2 DEF IInv, Injective, Numbered, Climbing
    <2> QED BY <2>4, <2>5
  <1> QED BY <1>2, <1>3

\* A step that changes no variable of analyze keeps the invariant.
LEMMA StutterKeeps ==
  ASSUME IInv, UNCHANGED domVars
  PROVE  IInv'
  <1>1. UNCHANGED <<succ, phase, stack, visited, pos, placed, idoms, cur, left, b1, b2>>
    BY DEF domVars, rpoVars, sweepVars
  <1>2. Types'
    BY <1>1 DEF IInv, Types
  <1>3. phase # "done" => Injective'
    BY <1>1 DEF IInv, Injective
  <1>4. phase = "rpo" => Searching'
    BY <1>1 DEF IInv, Searching, StackIsPath, EnteredFrom
  <1>5. phase \in {"sweep", "tree"} => Numbered' /\ Climbing'
    BY <1>1 DEF IInv, Numbered, Climbing
  <1>6. phase = "sweep" => Fingers'
    BY <1>1 DEF IInv, Fingers
  <1>7. phase = "tree" => b2' = Null
    BY <1>1 DEF IInv
  <1> QED BY <1>1, <1>2, <1>3, <1>4, <1>5, <1>6, <1>7 DEF IInv

\* Every step of analyze keeps the invariant.
LEMMA NextKeeps ==
  ASSUME IInv, [DomNext]_domVars
  PROVE  IInv'
  <1>1. CASE UNCHANGED domVars
    BY <1>1, StutterKeeps
  <1>2. ASSUME NEW b \in Blocks, VisitRPO(b) PROVE IInv'
    BY <1>2, VisitKeeps
  <1>3. ASSUME NEW b \in Blocks, SkipBlock(b) PROVE IInv'
    BY <1>3, SkipKeeps
  <1>4. ASSUME NEW b \in Blocks, NEW p \in Blocks, BeginBlock(b, p) PROVE IInv'
    BY <1>4, BeginKeeps
  <1>5. ASSUME NEW b \in Blocks, NextPred(b) PROVE IInv'
    BY <1>5, NextPredKeeps
  <1>6. ASSUME NEW b \in Blocks, AssignBlock(b) PROVE IInv'
    BY <1>6, AssignKeeps
  <1>7. ASSUME NEW b \in Blocks, NumberChild(b) PROVE IInv'
    BY <1>7, TreeKeeps
  <1>8. CASE PlaceRPO
    BY <1>8, PlaceKeeps
  <1>9. CASE Walk
    BY <1>9, WalkKeeps
  <1>10. CASE EndSweep
    BY <1>10, EndSweepKeeps
  <1>11. CASE NumberDone
    BY <1>11, TreeKeeps
  <1> QED
    BY <1>1, <1>2, <1>3, <1>4, <1>5, <1>6, <1>7, <1>8, <1>9, <1>10, <1>11 DEF DomNext

\* The invariant holds throughout analyze.
LEMMA InvariantHolds == DomSpec => []IInv
  <1>1. DomInit => IInv
    BY InitHolds
  <1>2. IInv /\ [DomNext]_domVars => IInv'
    BY NextKeeps
  <1> QED BY <1>1, <1>2, PTL DEF DomSpec

\* The climb follows from the invariant.
LEMMA InvariantClimbs ==
  ASSUME IInv
  PROVE  ChainsClimb
  <1>1. phase \in {"sweep", "tree"} =>
          \A b \in Blocks \ {Entry} :
            idoms[b] # Null => idoms[idoms[b]] # Null /\ pos[idoms[b]] > pos[b]
    BY DEF IInv, Climbing
  <1>2. ASSUME phase = "sweep", b2 # Null
        PROVE  /\ idoms[b1] # Null /\ idoms[b2] # Null
               /\ b1 # b2 => pos[b1] # pos[b2] /\ ~(pos[b1] < pos[b2] /\ b1 = Entry)
                                              /\ ~(pos[b2] < pos[b1] /\ b2 = Entry)
    <2>1. Types /\ Injective /\ Numbered /\ Climbing /\ Fingers
      BY <1>2 DEF IInv
    <2>2. b1 \in Blocks /\ b2 \in Blocks /\ idoms[b1] # Null /\ idoms[b2] # Null
      BY <1>2, <2>1 DEF Types, Fingers
    <2>3. pos[b1] # 0 /\ pos[b2] # 0
      BY <2>1, <2>2 DEF Climbing
    <2>4. b1 # b2 => pos[b1] # pos[b2]
      BY <2>1, <2>2, <2>3 DEF Injective
    <2>5. pos[b1] <= pos[Entry] /\ pos[b2] <= pos[Entry]
      BY <2>1, <2>2 DEF Numbered
    <2>6. pos[b1] \in Nat /\ pos[b2] \in Nat /\ pos[Entry] \in Nat
      BY <2>1, <2>2, EntryIsBlock DEF Types
    <2> QED BY <2>2, <2>4, <2>5, <2>6
  <1> QED BY <1>1, <1>2 DEF ChainsClimb

\* On every control flow graph, whatever the order of its lists, the chains
\* of immediate dominators climb in reverse post-order at every moment of
\* analyze, so that intersect terminates and never looks up a dominator that
\* is missing.
THEOREM IntersectIsSafe == DomSpec => []ChainsClimb
  <1>1. IInv => ChainsClimb
    BY InvariantClimbs
  <1> QED BY <1>1, InvariantHolds, PTL

-----------------------------------------------------------------------------
(* Paths: what the recursive function of ReachAvoiding computes.           *)

\* The least of some numbers: what the inductions below rest on.
LEMMA Least ==
  ASSUME NEW T \in SUBSET Nat, T # {}
  PROVE  \E m \in T : \A k \in T : m <= k
  <1> DEFINE R == OpToRel(<, Nat)
  <1>1. IsWellFoundedOn(R, Nat)
    BY NatLessThanWellFounded, Zenon
  <1>2. PICK x \in T : \A y \in T : ~(<<y, x>> \in R)
    BY <1>1, WFMin, Zenon
  <1>3. \A y \in T : ~(y < x)
    BY <1>2 DEF OpToRel
  <1> QED BY <1>3

\* A graph of the function's blocks; ReachAvoiding for such a graph, and the
\* body of its recursive function for paths of at most m steps.
Graph == [Blocks -> SUBSET (Blocks \ {Entry})]
Avoid(g, a) ==
  LET R[n \in 0..NumBlocks] ==
        IF n = 0 THEN {Entry} \ {a}
        ELSE R[n - 1] \union ((UNION {g[b] : b \in R[n - 1]}) \ {a})
  IN R[NumBlocks]
Wave(g, a, S) == S \union ((UNION {g[b] : b \in S}) \ {a})
Waves(g, a, m, R) ==
  [n \in 0..m |-> IF n = 0 THEN {Entry} \ {a}
                  ELSE R[n - 1] \union ((UNION {g[b] : b \in R[n - 1]}) \ {a})]
Within(g, a, S) == \A b \in S : g[b] \ {a} \subseteq S

\* That recursive function exists, by induction over its number of waves.
LEMMA WavesExist ==
  ASSUME NEW g, NEW a, NEW m \in Nat
  PROVE  \E R : R = Waves(g, a, m, R)
  <1> DEFINE Bad == {k \in Nat : ~ \E R : R = Waves(g, a, k, R)}
  <1>1. SUFFICES ASSUME Bad # {} PROVE FALSE
    OBVIOUS
  <1>2. PICK k \in Bad : \A j \in Bad : k <= j
    BY <1>1, Least
  <1>3. CASE k = 0
    <2> DEFINE R == [n \in 0..0 |-> {Entry} \ {a}]
    <2>1. R = Waves(g, a, 0, R)
      BY DEF Waves
    <2> QED BY <1>2, <1>3, <2>1
  <1>4. CASE k # 0
    <2>1. k - 1 \in Nat /\ k - 1 \notin Bad
      BY <1>2, <1>4
    <2>2. PICK R : R = Waves(g, a, k - 1, R)
      BY <2>1
    <2> DEFINE Row(n) == IF n = 0 THEN {Entry} \ {a} ELSE Wave(g, a, R[n - 1])
               h == [n \in 0..k |-> Row(n)]
    <2>3. \A n \in 0..(k - 1) : R[n] = Row(n)
      BY <2>2 DEF Waves, Wave
    <2>4. \A n \in 0..(k - 1) : h[n] = R[n]
      <3>1. \A n \in 0..(k - 1) : n \in 0..k
        BY <1>2
      <3>2. \A n \in 0..k : h[n] = Row(n)
        OBVIOUS
      <3> HIDE DEF h, Row
      <3> QED BY <2>3, <3>1, <3>2, Zenon
    <2>5. ASSUME NEW n \in 0..k
          PROVE  h[n] = Waves(g, a, k, h)[n]
      <3>1. CASE n = 0
        BY <3>1 DEF Waves
      <3>2. CASE n # 0
        <4>1. n - 1 \in 0..(k - 1)
          BY <3>2
        <4>2. h[n - 1] = R[n - 1]
          BY <2>4, <4>1
        <4>3. h[n] = Wave(g, a, R[n - 1])
          BY <3>2
        <4>4. Waves(g, a, k, h)[n] = Wave(g, a, h[n - 1])
          BY <3>2 DEF Waves, Wave
        <4> QED BY <4>2, <4>3, <4>4
      <3> QED BY <3>1, <3>2
    <2>6. h = Waves(g, a, k, h)
      BY <2>5 DEF Waves
    <2> QED BY <1>2, <2>6
  <1> QED BY <1>3, <1>4

\* What a wave adds.
LEMMA WaveElement ==
  ASSUME NEW g, NEW a, NEW S, NEW c
  PROVE  c \in Wave(g, a, S) <=> c \in S \/ (c # a /\ \E b \in S : c \in g[b])
  <1> DEFINE U == UNION {g[b] : b \in S}
  <1>1. c \in U <=> \E b \in S : c \in g[b]
    BY Zenon
  <1>2. Wave(g, a, S) = S \union (U \ {a})
    BY DEF Wave
  <1> HIDE DEF U
  <1> QED BY <1>1, <1>2

\* A wave stays within what no step leaves, and stops there.
LEMMA WaveWithin ==
  ASSUME NEW g, NEW a, NEW S, NEW T, S \subseteq T, Within(g, a, T)
  PROVE  Wave(g, a, S) \subseteq T
  BY WaveElement DEF Within

LEMMA WaveStops ==
  ASSUME NEW g, NEW a, NEW S
  PROVE  Within(g, a, S) <=> Wave(g, a, S) = S
  <1>1. S \subseteq Wave(g, a, S)
    BY WaveElement
  <1>2. ASSUME Within(g, a, S) PROVE Wave(g, a, S) = S
    BY <1>1, <1>2, WaveWithin
  <1>3. ASSUME Wave(g, a, S) = S, NEW b \in S, NEW c \in g[b] \ {a} PROVE c \in S
    <2>2. c \in Wave(g, a, S)
      BY WaveElement
    <2> QED BY <1>3, <2>2
  <1> QED BY <1>2, <1>3 DEF Within

\* R lists the waves that end in ReachAvoiding.
WaveTable(g, a, R) ==
  /\ Avoid(g, a) = R[NumBlocks]
  /\ R[0] = {Entry} \ {a}
  /\ \A n \in 1..NumBlocks : R[n] = Wave(g, a, R[n - 1])

\* The recursive function of ReachAvoiding computes wave after wave.
LEMMA AvoidWaves == ASSUME NEW g, NEW a PROVE \E R : WaveTable(g, a, R)
  <1> DEFINE R == CHOOSE f : f = Waves(g, a, NumBlocks, f)
  <1>1. Avoid(g, a) = R[NumBlocks]
    BY DEF Avoid, Waves
  <1>2. R = Waves(g, a, NumBlocks, R)
    <2>1. \E f : f = Waves(g, a, NumBlocks, f)
      BY NumBlocksAssumption, WavesExist
    <2> QED BY <2>1, Zenon
  <1> HIDE DEF R
  <1>3. \A n \in 0..NumBlocks : R[n] = Waves(g, a, NumBlocks, R)[n]
    BY <1>2
  <1>4. R[0] = {Entry} \ {a}
    <2>1. 0 \in 0..NumBlocks
      BY NumBlocksAssumption
    <2>2. Waves(g, a, NumBlocks, R)[0] = {Entry} \ {a}
      BY <2>1 DEF Waves
    <2> QED BY <1>3, <2>1, <2>2
  <1>5. ASSUME NEW n \in 1..NumBlocks
        PROVE  R[n] = Wave(g, a, R[n - 1])
    <2>1. n \in 0..NumBlocks /\ n # 0
      BY NumBlocksAssumption
    <2>2. Waves(g, a, NumBlocks, R)[n] = Wave(g, a, R[n - 1])
      BY <2>1 DEF Waves, Wave
    <2> QED BY <1>3, <2>1, <2>2
  <1>6. WaveTable(g, a, R)
    BY <1>1, <1>4, <1>5 DEF WaveTable
  <1> QED BY <1>6

\* ReachAvoiding is no larger than a set that holds the entry and that no
\* step leaves except to a.
LEMMA AvoidLeast ==
  ASSUME NEW g, NEW a, NEW S, {Entry} \ {a} \subseteq S, Within(g, a, S)
  PROVE  Avoid(g, a) \subseteq S
  <1>0. PICK R : WaveTable(g, a, R)
    BY AvoidWaves
  <1>1. /\ Avoid(g, a) = R[NumBlocks]
        /\ R[0] = {Entry} \ {a}
        /\ \A n \in 1..NumBlocks : R[n] = Wave(g, a, R[n - 1])
    BY <1>0 DEF WaveTable
  <1> DEFINE Bad == {n \in Nat : n <= NumBlocks /\ ~(R[n] \subseteq S)}
  <1>2. ASSUME Bad # {} PROVE FALSE
    <2>1. PICK n \in Bad : \A j \in Bad : n <= j
      BY <1>2, Least
    <2>2. n # 0
      BY <1>1, <2>1
    <2>3. n \in 1..NumBlocks /\ n - 1 \in Nat /\ n - 1 <= NumBlocks /\ n - 1 \notin Bad
      BY <2>1, <2>2, NumBlocksAssumption
    <2>4. R[n - 1] \subseteq S
      BY <2>3
    <2>5. R[n] = Wave(g, a, R[n - 1])
      BY <1>1, <2>3
    <2>6. Wave(g, a, R[n - 1]) \subseteq S
      BY <2>4, WaveWithin
    <2> QED BY <2>1, <2>5, <2>6
  <1>3. NumBlocks \in Nat /\ NumBlocks \notin Bad
    BY <1>2, NumBlocksAssumption
  <1> QED BY <1>1, <1>3

\* After as many waves as there are blocks nothing new is reached.
LEMMA AvoidWithin ==
  ASSUME NEW g \in Graph, NEW a
  PROVE  /\ Avoid(g, a) \subseteq Blocks \ {a}
         /\ a # Entry => Entry \in Avoid(g, a)
         /\ Within(g, a, Avoid(g, a))
  <1>0. PICK R : WaveTable(g, a, R)
    BY AvoidWaves
  <1>1. /\ Avoid(g, a) = R[NumBlocks]
        /\ R[0] = {Entry} \ {a}
        /\ \A n \in 1..NumBlocks : R[n] = Wave(g, a, R[n - 1])
    BY <1>0 DEF WaveTable
  <1>2. Avoid(g, a) \subseteq Blocks \ {a}
    <2>1. Within(g, a, Blocks \ {a})
      BY DEF Within, Graph
    <2>2. {Entry} \ {a} \subseteq Blocks \ {a}
      BY EntryIsBlock
    <2> QED BY <2>1, <2>2, AvoidLeast
  <1> DEFINE Good(n) == /\ R[n] \subseteq Blocks
                        /\ {Entry} \ {a} \subseteq R[n]
                        /\ \/ Within(g, a, R[n])
                           \/ Cardinality(R[n]) >= n + 1
             Bad == {n \in Nat : n <= NumBlocks /\ ~Good(n)}
  <1>3. IsFiniteSet(Blocks) /\ Cardinality(Blocks) = NumBlocks
    BY NumBlocksAssumption, FS_Interval DEF Blocks
  <1>4. Good(0)
    <2>1. R[0] \subseteq Blocks
      BY <1>1, EntryIsBlock
    <2>2. CASE a = Entry
      <3>1. Within(g, a, R[0])
        BY <1>1, <2>2 DEF Within
      <3> QED BY <1>1, <2>1, <3>1
    <2>3. CASE a # Entry
      <3>1. R[0] = {Entry}
        BY <1>1, <2>3
      <3>2. Cardinality({Entry}) = 1
        BY FS_Singleton
      <3> QED BY <1>1, <2>1, <3>1, <3>2
    <2> QED BY <2>2, <2>3
  <1>5. ASSUME NEW n \in 1..NumBlocks, Good(n - 1) PROVE Good(n)
    <2> DEFINE S == R[n - 1]
    <2>1. S \subseteq Blocks /\ {Entry} \ {a} \subseteq S /\ R[n] = Wave(g, a, S)
      BY <1>1, <1>5
    <2>2. R[n] \subseteq Blocks /\ S \subseteq R[n]
      BY <2>1 DEF Wave, Graph
    <2>3. CASE Within(g, a, S)
      <3>1. R[n] = S
        BY <2>1, <2>3, WaveStops
      <3> QED BY <2>1, <2>3, <3>1
    <2>4. CASE ~Within(g, a, S)
      <3>1. S # R[n]
        BY <2>1, <2>4, WaveStops
      <3>2. Cardinality(S) >= n
        BY <1>5, <2>4
      <3>3. IsFiniteSet(R[n])
        BY <1>3, <2>2, FS_Subset
      <3>4. Cardinality(S) < Cardinality(R[n]) /\ Cardinality(S) \in Nat /\ Cardinality(R[n]) \in Nat
        BY <2>2, <3>1, <3>3, FS_Subset, FS_CardinalityType
      <3>5. Cardinality(R[n]) >= n + 1
        BY <3>2, <3>4
      <3> QED BY <2>1, <2>2, <3>5
    <2> QED BY <2>3, <2>4
  <1> HIDE DEF Good
  <1>6. ASSUME Bad # {} PROVE FALSE
    <2>1. PICK n \in Bad : \A j \in Bad : n <= j
      BY <1>6, Least
    <2>2. n # 0
      BY <1>4, <2>1
    <2>3. n \in 1..NumBlocks /\ n - 1 \in Nat /\ n - 1 <= NumBlocks /\ n - 1 \notin Bad
      BY <2>1, <2>2, NumBlocksAssumption
    <2> QED BY <1>5, <2>1, <2>3
  <1>7. Good(NumBlocks)
    BY <1>6, NumBlocksAssumption
  <1>8. Within(g, a, R[NumBlocks])
    <2>1. IsFiniteSet(R[NumBlocks]) /\ Cardinality(R[NumBlocks]) <= NumBlocks
      BY <1>1, <1>2, <1>3, FS_Subset
    <2>2. Cardinality(R[NumBlocks]) \in Nat
      BY <2>1, FS_CardinalityType
    <2> QED BY <1>7, <2>1, <2>2, NumBlocksAssumption DEF Good
  <1> QED BY <1>1, <1>2, <1>7, <1>8 DEF Good

\* d is on the chain of immediate dominators that starts at y: no set of
\* blocks that the table up does not lead out of has y and not d.
Climbs(up, S) == \A z \in S : up[z] # Null => up[z] \in S
Above(up, d, y) == \A S \in SUBSET Blocks : y \in S /\ Climbs(up, S) => d \in S

\* The search has entered reachable blocks only, and all successors of a
\* block it has placed.
Explored ==
  /\ visited \subseteq Avoid(succ, Null)
  /\ \A b \in Blocks : pos[b] # 0 => succ[b] \subseteq visited

\* The search has placed the reachable blocks.
PlacedReachable == \A b \in Blocks : pos[b] # 0 <=> b \in Avoid(succ, Null)

\* A dominator of a block dominates the block the table has for it.
KeepsDominators(b, f) ==
  \A a \in Blocks \ {b} : b \notin Avoid(succ, a) => f \notin Avoid(succ, a)
TableKeeps ==
  \A b \in Blocks \ {Entry} : idoms[b] # Null => KeepsDominators(b, idoms[b])

\* So it does the blocks the fingers are on, and each predecessor that was
\* intersected is below one of them.
FingersKeep ==
  b2 # Null => \A b \in Blocks : pos[b] = cur =>
    /\ KeepsDominators(b, b1) /\ KeepsDominators(b, b2)
    /\ \A p \in left : b \in succ[p]
    /\ \A p \in Blocks : b \in succ[p] /\ idoms[p] # Null =>
         p \in left \/ Above(idoms, b1, p) \/ Above(idoms, b2, p)

\* As long as the sweep has changed nothing, the blocks it has passed have a
\* table entry that is above all their predecessors.
Stable ==
  ~changed => \A b \in Blocks \ {Entry} : pos[b] > cur =>
    \A p \in Blocks : b \in succ[p] /\ idoms[p] # Null => Above(idoms, idoms[b], p)

\* The table is a tree that has the entry as its root.
Rooted ==
  /\ idoms[Entry] = Entry
  /\ \A b \in Blocks : idoms[b] # Null => Above(idoms, Entry, b)

\* What the table says of each block when the sweeps are over.
ExactTable ==
  \A b \in Blocks \ {Entry} :
    IF b \in Avoid(succ, Null)
    THEN /\ idoms[b] \in Blocks \ {b} /\ b \notin Avoid(succ, idoms[b])
         /\ KeepsDominators(b, idoms[b])
    ELSE idoms[b] = Null

\* The numbers of computeDFS, before it and while it runs.
NoNumbers == first = [b \in Blocks |-> 0] /\ last = [b \in Blocks |-> 0] /\ counter = 0

NumberTypes ==
  /\ first \in [Blocks -> Nat] /\ last \in [Blocks -> Nat] /\ counter \in Nat
  /\ \A b \in Blocks : first[b] <= counter /\ (first[b] # 0 <=> b \in visited)
  /\ \E c \in visited : first[c] = counter
  /\ Climbs(idoms, visited) /\ \A b \in visited : idoms[b] # Null

\* Its stack is the chain of the block on top.
TreeStack ==
  /\ Len(stack) >= 1 /\ stack[1] = Entry
  /\ \A i \in 1..Len(stack) : stack[i] \in visited
  /\ \A i, j \in 1..Len(stack) : i < j => first[stack[i]] < first[stack[j]]
  /\ \A i \in 2..Len(stack) : idoms[stack[i]] = stack[i - 1]
  /\ \A b \in visited : last[b] = 0 <=> \E i \in 1..Len(stack) : stack[i] = b
  /\ \A b \in Blocks : last[b] # 0 => b \in visited

\* The blocks below one that is numbered and left, and below one still open.
Intervals ==
  /\ \A b \in visited : last[b] # 0 =>
       /\ \A c \in visited : Above(idoms, b, c) <=> first[b] <= first[c] /\ first[c] <= last[b]
       /\ \E c \in visited : Above(idoms, b, c) /\ first[c] = last[b]
       /\ \A c \in Blocks : idoms[c] # Null /\ Above(idoms, b, c) => last[c] # 0
  /\ \A b \in visited : last[b] = 0 =>
       \A c \in visited : Above(idoms, b, c) <=> first[b] <= first[c]

\* What the numbers say when analyze has returned.
Answers ==
  /\ \A b \in Blocks : first[b] # 0 <=> idoms[b] # Null
  /\ \A a, b \in Blocks : idoms[a] # Null /\ idoms[b] # Null =>
       (Above(idoms, a, b) <=> first[a] <= first[b] /\ last[a] >= last[b])

EInv ==
  /\ phase \in {"rpo", "sweep"} => NoNumbers
  /\ phase = "rpo" => Explored
  /\ phase \in {"sweep", "tree"} => PlacedReachable
  /\ phase = "sweep" => TableKeeps /\ FingersKeep /\ Stable
  /\ phase \in {"tree", "done"} => Rooted /\ ExactTable
  /\ phase = "tree" => NumberTypes /\ TreeStack /\ Intervals
  /\ phase = "done" => Answers
-----------------------------------------------------------------------------
(* Chains.                                                                 *)

Table == [Blocks -> Blocks \union {Null}]

\* A chain starts at its block, goes on with the table and can be joined.
LEMMA AboveSelf ==
  ASSUME NEW up, NEW y
  PROVE  Above(up, y, y)
  BY DEF Above

LEMMA AboveUp ==
  ASSUME NEW up, NEW y, NEW d, Above(up, d, y), up[d] # Null
  PROVE  Above(up, up[d], y)
  BY DEF Above, Climbs

LEMMA AboveJoins ==
  ASSUME NEW up, NEW y, NEW m, NEW d, Above(up, m, y), Above(up, d, m)
  PROVE  Above(up, d, y)
  BY DEF Above

\* A chain stays within a set the table does not lead out of.
LEMMA AboveWithin ==
  ASSUME NEW up, NEW S \in SUBSET Blocks, Climbs(up, S), NEW y \in S, NEW d, Above(up, d, y)
  PROVE  d \in S
  BY DEF Above

\* What is above a block and not the block itself is above its parent.
LEMMA AboveParent ==
  ASSUME NEW up \in Table, NEW y \in Blocks, NEW d, d # y, Above(up, d, y)
  PROVE  up[y] # Null /\ Above(up, d, up[y])
  <1>1. up[y] # Null
    <2>1. ASSUME up[y] = Null PROVE FALSE
      <3>1. Climbs(up, {y})
        BY <2>1 DEF Climbs
      <3> QED BY <3>1, AboveWithin
    <2> QED BY <2>1
  <1>2. ASSUME NEW S \in SUBSET Blocks, up[y] \in S, Climbs(up, S) PROVE d \in S
    <2>1. Climbs(up, S \union {y})
      BY <1>2 DEF Climbs
    <2>2. d \in S \union {y}
      BY <2>1, AboveWithin
    <2> QED BY <2>2
  <1> QED BY <1>1, <1>2 DEF Above

\* Nothing else is above the root.
LEMMA AboveRoot ==
  ASSUME NEW up, NEW e \in Blocks, up[e] = e, NEW d, Above(up, d, e)
  PROVE  d = e
  <1>1. Climbs(up, {e})
    BY DEF Climbs
  <1> QED BY <1>1, AboveWithin

\* A chain that gets to t from below comes from a child of t.
LEMMA AboveChild ==
  ASSUME NEW up \in Table, NEW c \in Blocks, NEW t, t # c, Above(up, t, c)
  PROVE  \E d \in Blocks : d # t /\ up[d] = t /\ Above(up, d, c)
  <1> SUFFICES ASSUME \A d \in Blocks : d # t /\ Above(up, d, c) => up[d] # t
               PROVE  FALSE
    OBVIOUS
  <1> DEFINE S == {d \in Blocks : d # t /\ Above(up, d, c)}
  <1>1. c \in S
    BY AboveSelf
  <1>2. ASSUME NEW z \in S, up[z] # Null PROVE up[z] \in S
    <2>1. Above(up, up[z], c)
      BY <1>2, AboveUp
    <2>2. up[z] \in Blocks /\ up[z] # t
      BY <1>2 DEF Table
    <2> QED BY <2>1, <2>2
  <1>3. Climbs(up, S)
    BY <1>2 DEF Climbs
  <1>4. t \in S
    BY <1>1, <1>3, AboveWithin
  <1> QED BY <1>4

-----------------------------------------------------------------------------
(* Dominators.                                                             *)

\* ReachAvoiding is Avoid in the function's graph.
LEMMA ReachIsAvoid ==
  ASSUME NEW a
  PROVE  ReachAvoiding(a) = Avoid(succ, a)
  BY DEF ReachAvoiding, Avoid

\* What dominates a successor, and is not the successor, dominates the block.
LEMMA DominatorOfSuccessor ==
  ASSUME NEW g \in Graph, NEW a, NEW p \in Blocks, NEW b \in g[p], a # b, b \notin Avoid(g, a)
  PROVE  p \notin Avoid(g, a)
  BY AvoidWithin DEF Within

\* Dominance is transitive.
LEMMA DominanceTransitive ==
  ASSUME NEW g \in Graph, NEW d, NEW x, NEW b, x \notin Avoid(g, d), b \notin Avoid(g, x)
  PROVE  b \notin Avoid(g, d)
  <1> DEFINE S == Avoid(g, d) \intersect Avoid(g, x)
  <1>1. Within(g, d, Avoid(g, d)) /\ Within(g, x, Avoid(g, x))
    BY AvoidWithin
  <1>2. Within(g, d, S)
    BY <1>1 DEF Within
  <1>3. {Entry} \ {d} \subseteq S
    <2>1. CASE d = Entry
      BY <2>1
    <2>2. CASE d # Entry
      BY <2>2, AvoidWithin
    <2> QED BY <2>1, <2>2
  <1>4. Avoid(g, d) \subseteq S
    BY <1>2, <1>3, AvoidLeast
  <1> QED BY <1>4

\* Nothing is reached that the entry does not reach, and nothing without it.
LEMMA AvoidReachable ==
  ASSUME NEW g \in Graph, NEW a
  PROVE  Avoid(g, a) \subseteq Avoid(g, Null) /\ Avoid(g, Entry) = {}
  <1>1. Within(g, Null, Avoid(g, Null)) /\ Entry \in Avoid(g, Null)
    BY AvoidWithin, EntryIsBlock
  <1>2. Within(g, a, Avoid(g, Null))
    <2> SUFFICES ASSUME NEW b \in Avoid(g, Null), NEW c \in g[b], c # a
                 PROVE  c \in Avoid(g, Null)
      BY DEF Within
    <2>1. b \in Blocks
      BY AvoidWithin
    <2>2. c # Null
      BY <2>1, EntryIsBlock DEF Graph
    <2> QED BY <1>1, <2>2 DEF Within
  <1>3. Avoid(g, a) \subseteq Avoid(g, Null)
    BY <1>1, <1>2, AvoidLeast
  <1>4. Within(g, Entry, {})
    BY DEF Within
  <1>5. Avoid(g, Entry) \subseteq {}
    BY <1>4, AvoidLeast
  <1> QED BY <1>3, <1>5

\* A dominator is placed after what it dominates.
LEMMA DominatorLater ==
  ASSUME Types, Numbered, NEW a \in Blocks, NEW x \in Blocks, pos[x] # 0, x \notin Avoid(succ, a)
  PROVE  pos[x] <= pos[a]
  <1> SUFFICES ASSUME pos[a] < pos[x] PROVE FALSE
    BY DEF Types
  <1> DEFINE Bad == {k \in Nat : \E y \in Blocks : /\ pos[a] < pos[y] /\ y \notin Avoid(succ, a)
                                                   /\ k = placed - pos[y]}
  <1>0. succ \in Graph /\ pos \in [Blocks -> Nat] /\ placed \in Nat
    BY DEF Types, Graph
  <1>1. placed - pos[x] \in Nat
    BY <1>0 DEF Numbered
  <1>2. Bad # {}
    BY <1>1
  <1>3. PICK k \in Bad : \A j \in Bad : k <= j
    BY <1>2, Least
  <1>4. PICK y \in Blocks : pos[a] < pos[y] /\ y \notin Avoid(succ, a) /\ k = placed - pos[y]
    BY <1>3
  <1>5. a # Entry
    BY <1>0, <1>4 DEF Numbered
  <1>6. y # Entry
    BY <1>0, <1>4, <1>5, AvoidWithin
  <1>7. pos[y] # 0
    BY <1>0, <1>4
  <1>8. PICK p \in Blocks : y \in succ[p] /\ pos[p] > pos[y]
    BY <1>6, <1>7 DEF Numbered
  <1>9. p \notin Avoid(succ, a)
    <2>1. a # y
      BY <1>0, <1>4
    <2> QED BY <1>0, <1>4, <1>8, <2>1, DominatorOfSuccessor
  <1>10. placed - pos[p] \in Nat /\ placed - pos[p] < k /\ pos[a] < pos[p]
    BY <1>0, <1>4, <1>8 DEF Numbered
  <1>11. placed - pos[p] \in Bad
    BY <1>9, <1>10
  <1> QED BY <1>3, <1>10, <1>11

-----------------------------------------------------------------------------
(* The search.                                                             *)

\* At first the search has entered the entry, which is reachable.
LEMMA ExactInit == DomInit => EInv
  <1> SUFFICES ASSUME DomInit PROVE EInv
    OBVIOUS
  <1>1. Types
    BY TypesInit
  <1>2. succ \in Graph
    BY <1>1 DEF Types, Graph
  <1>3. Entry \in Avoid(succ, Null)
    BY <1>2, AvoidWithin, EntryIsBlock
  <1>4. Explored
    BY <1>3 DEF Explored, DomInit
  <1> QED BY <1>4 DEF EInv, NoNumbers, DomInit

\* A successor of a reachable block is reachable.
LEMMA VisitExact ==
  ASSUME IInv, EInv, NEW s \in Blocks, VisitRPO(s)
  PROVE  EInv'
  <1>1. /\ Types /\ Searching /\ Explored /\ phase = "rpo" /\ phase' = "rpo"
        /\ s \in succ[stack[Len(stack)]] /\ visited' = visited \union {s}
        /\ UNCHANGED <<succ, pos, first, last, counter>>
    BY DEF IInv, EInv, VisitRPO, Fresh, Top, dfsVars
  <1>2. Len(stack) \in Nat /\ Len(stack) >= 1
    BY <1>1 DEF Types, Searching, StackIsPath
  <1>3. stack[Len(stack)] \in visited
    BY <1>1, <1>2 DEF Searching, StackIsPath
  <1>4. s # Null /\ succ \in Graph
    BY <1>1, EntryIsBlock DEF Types, Graph
  <1>5. s \in Avoid(succ, Null)
    BY <1>1, <1>3, <1>4, AvoidWithin DEF Within, Explored
  <1>6. Explored'
    BY <1>1, <1>5 DEF Explored
  <1> QED BY <1>1, <1>6 DEF EInv, NoNumbers

\* When the first call returns, all successors of placed blocks are placed,
\* so all reachable blocks are.
LEMMA PlaceExact ==
  ASSUME IInv, EInv, PlaceRPO
  PROVE  EInv'
  <1> DEFINE n == Len(stack)
             top == stack[n]
  <1>1. /\ Types /\ Searching /\ Explored /\ phase = "rpo"
        /\ pos' = [pos EXCEPT ![top] = placed + 1] /\ placed' = placed + 1
        /\ succ[top] \subseteq visited
        /\ UNCHANGED <<succ, visited, first, last, counter>> /\ b2' = b2
    BY DEF IInv, EInv, PlaceRPO, Fresh, Top, dfsVars
  <1>2. n \in Nat /\ n >= 1 /\ top \in Blocks /\ top \in visited
    BY <1>1 DEF Types, Searching, StackIsPath
  <1>3. placed \in Nat /\ pos \in [Blocks -> Nat] /\ succ \in Graph
    BY <1>1 DEF Types, Graph
  <1>4. pos'[top] # 0 /\ \A b \in Blocks : b # top => pos'[b] = pos[b]
    BY <1>1, <1>2, <1>3
  <1>5. \A b \in Blocks : pos'[b] # 0 => succ[b] \subseteq visited /\ b \in visited
    BY <1>1, <1>2, <1>4 DEF Explored, Searching
  <1>6. CASE n = 1
    <2>1. /\ phase' = "sweep" /\ cur' = placed + 1
          /\ idoms' = [idoms EXCEPT ![Entry] = Entry]
      BY <1>6 DEF PlaceRPO
    <2>2. top = Entry
      BY <1>1, <1>6 DEF Searching, StackIsPath
    <2>3. \A b \in visited : pos'[b] # 0
      BY <1>1, <1>4, <1>6, <2>2 DEF Searching, StackIsPath, Types
    <2>4. Within(succ, Null, visited) /\ {Entry} \ {Null} \subseteq visited
      BY <1>1, <1>2, <1>5, <2>2, <2>3 DEF Within, Types
    <2>5. Avoid(succ, Null) \subseteq visited
      BY <2>4, AvoidLeast
    <2>6. PlacedReachable'
      BY <1>1, <1>5, <2>3, <2>5 DEF PlacedReachable, Explored
    <2>7. \A b \in Blocks \ {Entry} : idoms'[b] = Null
      BY <1>1, <2>1 DEF Types, Searching
    <2>8. TableKeeps'
      BY <2>7 DEF TableKeeps
    <2>9. FingersKeep'
      BY <1>1 DEF FingersKeep, Searching
    <2>10. \A b \in Blocks : ~(pos'[b] > cur')
      <3>1. \A b \in Blocks : pos[b] <= placed
        BY <1>1 DEF Searching
      <3> QED BY <1>1, <1>2, <1>3, <2>1, <3>1
    <2>11. Stable'
      BY <2>10 DEF Stable
    <2> QED BY <1>1, <2>1, <2>6, <2>8, <2>9, <2>11 DEF EInv, NoNumbers
  <1>7. CASE n # 1
    <2>1. phase' = "rpo"
      BY <1>1, <1>7 DEF PlaceRPO
    <2>2. Explored'
      BY <1>1, <1>5 DEF Explored
    <2> QED BY <1>1, <2>1, <2>2 DEF EInv, NoNumbers
  <1> QED BY <1>6, <1>7

-----------------------------------------------------------------------------
(* The sweeps.                                                             *)

\* What a sweep step that leaves the table alone keeps.
LEMMA SweepKeeps ==
  ASSUME EInv, phase = "sweep", UNCHANGED <<succ, phase, pos, idoms, first, last, counter>>,
         FingersKeep', Stable'
  PROVE  EInv'
  <1>1. PlacedReachable'
    BY DEF EInv, PlacedReachable
  <1>2. TableKeeps'
    BY DEF EInv, TableKeeps, KeepsDominators
  <1> QED BY <1>1, <1>2 DEF EInv, NoNumbers

\* Passing over the entry.
LEMMA SkipExact ==
  ASSUME IInv, EInv, NEW b \in Blocks, SkipBlock(b)
  PROVE  EInv'
  <1>1. /\ Types /\ Injective /\ Numbered /\ Fingers /\ Stable /\ phase = "sweep"
        /\ pos[b] = cur /\ cur # 0 /\ b2' = Null /\ cur' = cur - 1
        /\ UNCHANGED <<succ, phase, pos, idoms, changed, first, last, counter>>
    BY DEF IInv, EInv, SkipBlock, rpoVars, dfsVars
  <1>2. b = Entry
    BY <1>1, LaterPredecessor DEF SkipBlock
  <1>3. FingersKeep'
    BY <1>1 DEF FingersKeep
  <1>4. \A c \in Blocks \ {Entry} : pos[c] > cur - 1 => pos[c] > cur
    BY <1>1, <1>2 DEF Types, Injective
  <1>5. Stable'
    BY <1>1, <1>4 DEF Stable
  <1> QED BY <1>1, <1>3, <1>5, SweepKeeps

\* A finger on a predecessor: what dominates the block dominates it too.
LEMMA BeginExact ==
  ASSUME IInv, EInv, NEW b \in Blocks, NEW p \in Blocks, BeginBlock(b, p)
  PROVE  EInv'
  <1>1. /\ Types /\ Injective /\ Stable /\ phase = "sweep"
        /\ pos[b] = cur /\ cur # 0 /\ p \in Processed(b)
        /\ b1' = p /\ b2' = p /\ left' = Processed(b) \ {p}
        /\ UNCHANGED <<succ, phase, pos, idoms, changed, cur, first, last, counter>>
    BY DEF IInv, EInv, BeginBlock, rpoVars, dfsVars
  <1>2. succ \in Graph /\ b \in succ[p]
    BY <1>1 DEF Types, Graph, Processed, Preds
  <1>3. KeepsDominators(b, p)
    BY <1>2, DominatorOfSuccessor DEF KeepsDominators
  <1>4. ASSUME NEW q \in Blocks, b \in succ[q], idoms[q] # Null
        PROVE  q \in left' \/ Above(idoms, p, q)
    <2>1. q \in Processed(b)
      BY <1>4 DEF Processed, Preds
    <2> QED BY <1>1, <2>1, AboveSelf
  <1>5. \A c \in Blocks : pos[c] = cur => c = b
    BY <1>1 DEF Injective
  <1>6. FingersKeep'
    <2> SUFFICES ASSUME NEW c \in Blocks, pos'[c] = cur'
                 PROVE  /\ KeepsDominators(c, b1)' /\ KeepsDominators(c, b2)'
                        /\ \A q \in left' : c \in succ'[q]
                        /\ \A q \in Blocks : c \in succ'[q] /\ idoms'[q] # Null =>
                             q \in left' \/ Above(idoms', b1', q) \/ Above(idoms', b2', q)
      BY DEF FingersKeep
    <2>1. c = b
      BY <1>1, <1>5
    <2>2. KeepsDominators(c, b1)' /\ KeepsDominators(c, b2)'
      BY <1>1, <1>3, <2>1 DEF KeepsDominators
    <2>3. \A q \in left' : c \in succ'[q]
      BY <1>1, <2>1 DEF Processed, Preds
    <2> QED BY <1>1, <1>4, <2>1, <2>2, <2>3
  <1>7. Stable'
    BY <1>1 DEF Stable
  <1> QED BY <1>1, <1>6, <1>7, SweepKeeps

\* So it does the next predecessor.
LEMMA NextPredExact ==
  ASSUME IInv, EInv, NEW p \in Blocks, NextPred(p)
  PROVE  EInv'
  <1>1. /\ Types /\ Injective /\ Fingers /\ FingersKeep /\ Stable /\ phase = "sweep"
        /\ b2 # Null /\ b1 = b2 /\ p \in left
        /\ b1' = p /\ left' = left \ {p}
        /\ UNCHANGED <<succ, phase, pos, idoms, changed, cur, b2, first, last, counter>>
    BY DEF IInv, EInv, NextPred, rpoVars, dfsVars
  <1>2. succ \in Graph
    BY <1>1 DEF Types, Graph
  <1>3. FingersKeep'
    <2> SUFFICES ASSUME NEW c \in Blocks, pos'[c] = cur'
                 PROVE  /\ KeepsDominators(c, b1)' /\ KeepsDominators(c, b2)'
                        /\ \A q \in left' : c \in succ'[q]
                        /\ \A q \in Blocks : c \in succ'[q] /\ idoms'[q] # Null =>
                             q \in left' \/ Above(idoms', b1', q) \/ Above(idoms', b2', q)
      BY DEF FingersKeep
    <2>1. /\ KeepsDominators(c, b2) /\ \A q \in left : c \in succ[q]
          /\ \A q \in Blocks : c \in succ[q] /\ idoms[q] # Null =>
               q \in left \/ Above(idoms, b2, q)
      BY <1>1 DEF FingersKeep
    <2>2. KeepsDominators(c, p)
      BY <1>1, <1>2, <2>1, DominatorOfSuccessor DEF KeepsDominators
    <2>3. KeepsDominators(c, b1)' /\ KeepsDominators(c, b2)'
      BY <1>1, <2>1, <2>2 DEF KeepsDominators
    <2>4. Above(idoms, p, p)
      BY AboveSelf
    <2> QED BY <1>1, <2>1, <2>3, <2>4
  <1>4. Stable'
    BY <1>1 DEF Stable
  <1> QED BY <1>1, <1>3, <1>4, SweepKeeps

\* The finger that moves is on no dominator of the block: that would be
\* placed after the other finger, too.
LEMMA FingerClimbs ==
  ASSUME Types, Numbered, Climbing, TableKeeps,
         NEW b \in Blocks, NEW f \in Blocks, NEW g \in Blocks,
         idoms[f] # Null, idoms[g] # Null, pos[f] < pos[g],
         KeepsDominators(b, f), KeepsDominators(b, g)
  PROVE  KeepsDominators(b, idoms[f])
  <1>1. pos[f] \in Nat /\ pos[g] \in Nat /\ pos[g] # 0
    BY DEF Types, Climbing
  <1>2. f # Entry
    BY <1>1 DEF Numbered, Types
  <1> SUFFICES ASSUME NEW a \in Blocks \ {b}, b \notin Avoid(succ, a)
               PROVE  idoms[f] \notin Avoid(succ, a)
    BY DEF KeepsDominators
  <1>3. f \notin Avoid(succ, a) /\ g \notin Avoid(succ, a)
    BY DEF KeepsDominators
  <1>4. pos[g] <= pos[a]
    BY <1>1, <1>3, DominatorLater
  <1>5. a # f
    BY <1>1, <1>4
  <1> QED BY <1>2, <1>3, <1>5 DEF TableKeeps, KeepsDominators

\* A finger that climbs stays above the predecessors it was above.
LEMMA WalkExact ==
  ASSUME IInv, EInv, Walk
  PROVE  EInv'
  <1>1. /\ Types /\ Injective /\ Numbered /\ Climbing /\ Fingers /\ phase = "sweep" /\ b1 # b2
        /\ TableKeeps /\ FingersKeep /\ Stable
        /\ UNCHANGED <<succ, phase, pos, idoms, changed, cur, left, first, last, counter>>
    BY DEF IInv, EInv, Walk, rpoVars, dfsVars
  <1>2. /\ b2 # Null /\ b1 \in Blocks /\ b2 \in Blocks
        /\ idoms[b1] # Null /\ idoms[b2] # Null
    BY <1>1 DEF Fingers, Types
  <1>3. ASSUME NEW c \in Blocks, pos[c] = cur
        PROVE  /\ KeepsDominators(c, b1') /\ KeepsDominators(c, b2')
               /\ \A q \in Blocks : c \in succ[q] /\ idoms[q] # Null =>
                    q \in left \/ Above(idoms, b1', q) \/ Above(idoms, b2', q)
    <2>1. /\ KeepsDominators(c, b1) /\ KeepsDominators(c, b2)
          /\ \A q \in Blocks : c \in succ[q] /\ idoms[q] # Null =>
               q \in left \/ Above(idoms, b1, q) \/ Above(idoms, b2, q)
      BY <1>1, <1>2, <1>3 DEF FingersKeep
    <2>2. CASE pos[b1] < pos[b2] /\ b1' = idoms[b1] /\ b2' = b2
      <3>1. KeepsDominators(c, b1')
        BY <1>1, <1>2, <2>1, <2>2, FingerClimbs
      <3>2. \A q \in Blocks : Above(idoms, b1, q) => Above(idoms, b1', q)
        BY <1>2, <2>2, AboveUp
      <3> QED BY <2>1, <2>2, <3>1, <3>2
    <2>3. CASE pos[b2] < pos[b1] /\ b2' = idoms[b2] /\ b1' = b1
      <3>1. KeepsDominators(c, b2')
        BY <1>1, <1>2, <2>1, <2>3, FingerClimbs
      <3>2. \A q \in Blocks : Above(idoms, b2, q) => Above(idoms, b2', q)
        BY <1>2, <2>3, AboveUp
      <3> QED BY <2>1, <2>3, <3>1, <3>2
    <2> QED BY <2>2, <2>3 DEF Walk
  <1>4. FingersKeep'
    <2> SUFFICES ASSUME NEW c \in Blocks, pos'[c] = cur'
                 PROVE  /\ KeepsDominators(c, b1)' /\ KeepsDominators(c, b2)'
                        /\ \A q \in left' : c \in succ'[q]
                        /\ \A q \in Blocks : c \in succ'[q] /\ idoms'[q] # Null =>
                             q \in left' \/ Above(idoms', b1', q) \/ Above(idoms', b2', q)
      BY DEF FingersKeep
    <2>1. KeepsDominators(c, b1)' /\ KeepsDominators(c, b2)'
      BY <1>1, <1>3 DEF KeepsDominators
    <2>2. \A q \in left' : c \in succ'[q]
      BY <1>1, <1>2 DEF FingersKeep
    <2> QED BY <1>1, <1>3, <2>1, <2>2
  <1>5. Stable'
    BY <1>1 DEF Stable
  <1> QED BY <1>1, <1>4, <1>5, SweepKeeps

\* The block gets what the fingers kept; if it had that before, it is above
\* all predecessors.
LEMMA AssignExact ==
  ASSUME IInv, EInv, NEW b \in Blocks, AssignBlock(b)
  PROVE  EInv'
  <1>1. /\ Types /\ Injective /\ Fingers /\ phase = "sweep"
        /\ PlacedReachable /\ TableKeeps /\ FingersKeep /\ Stable
        /\ pos[b] = cur /\ b2 # Null /\ b1 = b2 /\ left = {}
        /\ changed' = (changed \/ idoms[b] # b2)
        /\ idoms' = [idoms EXCEPT ![b] = b2] /\ cur' = cur - 1 /\ b2' = Null
        /\ UNCHANGED <<succ, phase, pos, first, last, counter>>
    BY DEF IInv, EInv, AssignBlock, rpoVars, dfsVars
  <1>2. /\ KeepsDominators(b, b2)
        /\ \A p \in Blocks : b \in succ[p] /\ idoms[p] # Null => Above(idoms, b2, p)
    BY <1>1 DEF FingersKeep
  <1>3. idoms'[b] = b2 /\ \A c \in Blocks : c # b => idoms'[c] = idoms[c]
    BY <1>1 DEF Types
  <1>4. TableKeeps'
    <2> SUFFICES ASSUME NEW c \in Blocks \ {Entry}, idoms'[c] # Null
                 PROVE  KeepsDominators(c, idoms'[c])
      BY <1>1 DEF TableKeeps, KeepsDominators
    <2> QED BY <1>1, <1>2, <1>3 DEF TableKeeps
  <1>5. Stable'
    <2> SUFFICES ASSUME ~changed', NEW c \in Blocks \ {Entry}, pos[c] > cur - 1,
                        NEW p \in Blocks, c \in succ[p], idoms'[p] # Null
                 PROVE  Above(idoms', idoms'[c], p)
      BY <1>1 DEF Stable
    <2>1. ~changed /\ idoms[b] = b2
      BY <1>1
    <2>2. idoms' = idoms
      BY <1>1, <2>1 DEF Types
    <2>3. CASE c = b
      BY <1>2, <2>1, <2>2, <2>3
    <2>4. CASE c # b
      <3>1. pos[c] > cur
        BY <1>1, <2>4 DEF Types, Injective, Fingers
      <3> QED BY <1>1, <2>1, <2>2, <3>1 DEF Stable
    <2> QED BY <2>3, <2>4
  <1>6. PlacedReachable' /\ FingersKeep'
    BY <1>1 DEF PlacedReachable, FingersKeep
  <1> QED BY <1>1, <1>4, <1>5, <1>6 DEF EInv, NoNumbers

\* Every chain ends at the entry.
LEMMA ChainsEnd ==
  ASSUME Types, Numbered, Climbing, NEW b \in Blocks, idoms[b] # Null
  PROVE  Above(idoms, Entry, b)
  <1> SUFFICES ASSUME NEW S \in SUBSET Blocks, b \in S, Climbs(idoms, S)
               PROVE  Entry \in S
    BY DEF Above
  <1>0. pos \in [Blocks -> Nat] /\ placed \in Nat
    BY DEF Types
  <1> DEFINE Left == {k \in Nat : \E y \in S : idoms[y] # Null /\ k = placed - pos[y]}
  <1>1. \A y \in Blocks : placed - pos[y] \in Nat
    BY <1>0 DEF Numbered
  <1>2. Left # {}
    BY <1>1
  <1>3. PICK k \in Left : \A j \in Left : k <= j
    BY <1>2, Least
  <1>4. PICK y \in S : idoms[y] # Null /\ k = placed - pos[y]
    BY <1>3
  <1>5. ASSUME y # Entry PROVE FALSE
    <2>1. y \in Blocks /\ idoms[y] \in S /\ idoms[idoms[y]] # Null /\ pos[idoms[y]] > pos[y]
      BY <1>4, <1>5 DEF Climbs, Climbing
    <2>2. idoms[y] \in Blocks /\ placed - pos[idoms[y]] \in Left
      BY <1>1, <2>1
    <2> QED BY <1>0, <1>3, <1>4, <2>1, <2>2
  <1> QED BY <1>5

\* When a sweep has changed nothing, the table is exact.
LEMMA SweepsEnd ==
  ASSUME IInv, EInv, phase = "sweep", cur = 0, ~changed
  PROVE  Rooted /\ ExactTable
  <1>1. Types /\ Numbered /\ Climbing /\ Fingers /\ PlacedReachable /\ TableKeeps /\ Stable
    BY DEF IInv, EInv
  <1>2. Rooted
    BY <1>1, ChainsEnd DEF Rooted, Climbing
  <1>3. succ \in Graph /\ pos \in [Blocks -> Nat] /\ idoms \in Table
    BY <1>1 DEF Types, Graph, Table
  <1>4. \A b \in Blocks : pos[b] # 0 <=> idoms[b] # Null
    BY <1>1, <1>3 DEF Fingers, Climbing
  <1>5. ASSUME NEW b \in Blocks \ {Entry}, b \in Avoid(succ, Null)
        PROVE  /\ idoms[b] \in Blocks \ {b} /\ b \notin Avoid(succ, idoms[b])
               /\ KeepsDominators(b, idoms[b])
    <2> DEFINE d == idoms[b]
               S == {y \in Blocks : pos[y] # 0 /\ ~Above(idoms, d, y)}
    <2>1. d # Null /\ d \in Blocks /\ d # b
      BY <1>1, <1>3, <1>4, <1>5 DEF PlacedReachable, Climbing, Table
    <2>2. KeepsDominators(b, d)
      BY <1>1, <2>1 DEF TableKeeps
    <2>3. Above(idoms, d, b)
      BY <2>1, AboveSelf, AboveUp
    <2>4. Within(succ, d, S)
      <3> SUFFICES ASSUME NEW y \in S, NEW c \in succ[y], c # d
                   PROVE  c \in S
        BY DEF Within
      <3>1. c \in Blocks \ {Entry} /\ pos[c] # 0
        <4>1. c \in Blocks \ {Entry} /\ c # Null
          BY <1>3, EntryIsBlock DEF Graph
        <4>2. c \in Avoid(succ, Null)
          BY <1>1, <1>3, <4>1, AvoidWithin DEF Within, PlacedReachable
        <4> QED BY <1>1, <4>1, <4>2 DEF PlacedReachable
      <3>2. ASSUME Above(idoms, d, c) PROVE FALSE
        <4>1. idoms[c] # Null /\ Above(idoms, d, idoms[c])
          BY <1>3, <3>1, <3>2, AboveParent
        <4>2. Above(idoms, idoms[c], y)
          BY <1>1, <1>3, <1>4, <3>1 DEF Stable
        <4>3. Above(idoms, d, y)
          BY <4>1, <4>2, AboveJoins
        <4> QED BY <4>3
      <3> QED BY <3>1, <3>2
    <2>5. {Entry} \ {d} \subseteq S
      <3> SUFFICES ASSUME Entry # d PROVE Entry \in S
        OBVIOUS
      <3>1. ~Above(idoms, d, Entry)
        BY <1>1, EntryIsBlock, AboveRoot DEF Climbing
      <3> QED BY <1>1, <3>1, EntryIsBlock DEF Numbered
    <2>6. Avoid(succ, d) \subseteq S
      BY <2>4, <2>5, AvoidLeast
    <2> QED BY <2>1, <2>2, <2>3, <2>6
  <1>6. \A b \in Blocks \ {Entry} : b \notin Avoid(succ, Null) => idoms[b] = Null
    BY <1>1, <1>4 DEF PlacedReachable
  <1>7. ExactTable
    BY <1>5, <1>6 DEF ExactTable
  <1> QED BY <1>2, <1>7

\* A sweep that changed something is followed by another, one that did not
\* by the tree, of which only the entry is numbered.
LEMMA EndSweepExact ==
  ASSUME IInv, EInv, EndSweep
  PROVE  EInv'
  <1>1. /\ Types /\ Numbered /\ Climbing /\ Fingers /\ phase = "sweep" /\ cur = 0
        /\ PlacedReachable /\ TableKeeps /\ NoNumbers
        /\ UNCHANGED <<succ, pos, placed, idoms, b2>>
    BY DEF IInv, EInv, EndSweep, NoNumbers
  <1>2. b2 = Null
    BY <1>1 DEF Fingers
  <1>3. PlacedReachable'
    BY <1>1 DEF PlacedReachable
  <1>4. CASE changed
    <2>1. cur' = placed /\ UNCHANGED <<phase, first, last, counter>>
      BY <1>4 DEF EndSweep, dfsVars
    <2>2. FingersKeep'
      BY <1>1, <1>2 DEF FingersKeep
    <2>3. \A c \in Blocks : ~(pos[c] > placed)
      BY <1>1 DEF Numbered, Types
    <2>4. Stable'
      BY <1>1, <2>1, <2>3 DEF Stable
    <2> QED BY <1>1, <2>1, <2>2, <2>4, SweepKeeps
  <1>5. CASE ~changed
    <2>1. /\ phase' = "tree" /\ stack' = <<Entry>> /\ visited' = {Entry}
          /\ counter' = 1 /\ first' = [first EXCEPT ![Entry] = 1] /\ last' = last
      BY <1>5 DEF EndSweep, BeginTree
    <2>2. Rooted /\ ExactTable
      BY <1>1, <1>5, SweepsEnd
    <2>3. Rooted' /\ ExactTable'
      BY <1>1, <2>2 DEF Rooted, ExactTable, KeepsDominators
    <2>4. /\ first' \in [Blocks -> Nat] /\ last' \in [Blocks -> Nat]
          /\ first'[Entry] = 1 /\ \A b \in Blocks : b # Entry => first'[b] = 0
          /\ \A b \in Blocks : last'[b] = 0
      BY <1>1, <2>1, EntryIsBlock DEF NoNumbers
    <2>5. idoms'[Entry] = Entry /\ Entry # Null
      BY <1>1, EntryIsBlock DEF Climbing
    <2>6. NumberTypes'
      BY <2>1, <2>4, <2>5 DEF NumberTypes, Climbs
    <2>7. Len(stack') = 1 /\ stack'[1] = Entry
      BY <2>1
    <2>8. TreeStack'
      BY <2>1, <2>4, <2>7 DEF TreeStack
    <2>9. Above(idoms', Entry, Entry)
      BY AboveSelf
    <2>10. Intervals'
      BY <2>1, <2>4, <2>9, EntryIsBlock DEF Intervals
    <2> QED BY <1>3, <2>1, <2>3, <2>6, <2>8, <2>10 DEF EInv
  <1> QED BY <1>4, <1>5

-----------------------------------------------------------------------------
(* The tree.                                                               *)

\* The block on top of computeDFS's stack is open, and so are only those
\* whose chains it is on.
LEMMA TreeTop ==
  ASSUME Types, NumberTypes, TreeStack
  PROVE  /\ Len(stack) \in Nat /\ Top \in Blocks /\ Top \in visited /\ last[Top] = 0
         /\ \A i \in 1..(Len(stack) - 1) : stack[i] # Top
         /\ \A b \in visited : last[b] = 0 => first[b] <= first[Top]
  <1>1. Len(stack) \in Nat /\ Len(stack) \in 1..Len(stack)
    BY DEF Types, TreeStack
  <1>2. Top \in visited /\ Top \in Blocks
    BY <1>1 DEF Top, TreeStack, Types
  <1>3. last[Top] = 0
    BY <1>1, <1>2 DEF Top, TreeStack
  <1>4. ASSUME NEW i \in 1..(Len(stack) - 1) PROVE stack[i] # Top /\ first[stack[i]] < first[Top]
    <2>1. i \in 1..Len(stack) /\ i < Len(stack)
      BY <1>1
    <2>2. first[stack[i]] < first[Top]
      BY <1>1, <2>1 DEF TreeStack, Top
    <2>3. first[Top] \in Nat
      BY <1>2 DEF NumberTypes
    <2> QED BY <2>2, <2>3
  <1>5. ASSUME NEW b \in visited, last[b] = 0 PROVE first[b] <= first[Top]
    <2>1. PICK i \in 1..Len(stack) : stack[i] = b
      BY <1>5 DEF TreeStack
    <2>2. first[b] \in Nat /\ first[Top] \in Nat
      BY <1>2 DEF NumberTypes, Types
    <2>3. CASE i = Len(stack)
      BY <2>1, <2>2, <2>3 DEF Top
    <2>4. CASE i # Len(stack)
      <3>1. i \in 1..(Len(stack) - 1)
        BY <1>1, <2>4
      <3> QED BY <1>4, <2>1, <2>2, <3>1
    <2> QED BY <2>3, <2>4
  <1> QED BY <1>1, <1>2, <1>3, <1>4, <1>5

\* A child gets the highest number: it is below the open blocks and no other.
LEMMA ChildExact ==
  ASSUME IInv, EInv, NEW c \in Blocks, NumberChild(c)
  PROVE  EInv'
  <1>1. /\ Types /\ phase = "tree" /\ PlacedReachable /\ Rooted /\ ExactTable
        /\ NumberTypes /\ TreeStack /\ Intervals
        /\ idoms[c] = Top /\ c # Top /\ c \notin visited
        /\ stack' = Append(stack, c) /\ visited' = visited \union {c}
        /\ counter' = counter + 1 /\ first' = [first EXCEPT ![c] = counter + 1]
        /\ UNCHANGED <<succ, phase, pos, idoms, last>>
    BY DEF IInv, EInv, NumberChild, Children, sweepVars
  <1> DEFINE n == Len(stack)
             top == Top
  <1>2. /\ n \in Nat /\ top \in Blocks /\ top \in visited /\ last[top] = 0
        /\ \A b \in visited : last[b] = 0 => first[b] <= first[top]
    BY <1>1, TreeTop
  <1>3. idoms \in Table /\ visited \in SUBSET Blocks /\ idoms[c] = top /\ idoms[c] # Null
    BY <1>1, <1>2, EntryIsBlock DEF Types, Table
  <1>4. /\ first \in [Blocks -> Nat] /\ last \in [Blocks -> Nat] /\ counter \in Nat
        /\ \A b \in Blocks : first[b] <= counter
    BY <1>1 DEF NumberTypes
  <1>5. /\ first' \in [Blocks -> Nat] /\ first'[c] = counter + 1
        /\ \A b \in Blocks : b # c => first'[b] = first[b]
        /\ \A b \in visited : first'[b] = first[b]
    BY <1>1, <1>3, <1>4
  <1>6. last[c] = 0
    BY <1>1 DEF TreeStack
  <1>7. Above(idoms, top, c)
    BY <1>3, AboveSelf, AboveUp
  <1> HIDE DEF top
  <1>8. NumberTypes'
    <2>1. \A b \in Blocks : first'[b] <= counter' /\ (first'[b] # 0 <=> b \in visited')
      BY <1>1, <1>4, <1>5 DEF NumberTypes
    <2>2. Climbs(idoms', visited')
      BY <1>1, <1>2, <1>3 DEF NumberTypes, Climbs
    <2>3. \A b \in visited' : idoms'[b] # Null
      BY <1>1, <1>3 DEF NumberTypes
    <2>4. counter' \in Nat /\ \E x \in visited' : first'[x] = counter'
      BY <1>1, <1>4, <1>5
    <2>5. last' \in [Blocks -> Nat]
      BY <1>1, <1>4
    <2> QED BY <1>5, <2>1, <2>2, <2>3, <2>4, <2>5 DEF NumberTypes
  <1>9. TreeStack'
    <2>1. /\ Len(stack') = n + 1 /\ stack'[n + 1] = c /\ n >= 1
          /\ \A i \in 1..n : stack'[i] = stack[i] /\ stack[i] \in visited
      BY <1>1, <1>2 DEF TreeStack, Types
    <2> HIDE DEF n
    <2>2. Len(stack') >= 1 /\ stack'[1] = Entry
      BY <1>1, <1>2, <2>1 DEF TreeStack
    <2>3. \A i \in 1..Len(stack') : stack'[i] \in visited'
      BY <1>1, <1>2, <2>1
    <2>4. ASSUME NEW i \in 1..Len(stack'), NEW j \in 1..Len(stack'), i < j
          PROVE  first'[stack'[i]] < first'[stack'[j]]
      <3>1. i \in 1..n /\ stack'[i] = stack[i] /\ first'[stack[i]] = first[stack[i]]
        BY <1>2, <1>5, <2>1, <2>4
      <3>2. CASE j = n + 1
        <4>1. first[stack[i]] \in Nat /\ first[stack[i]] <= counter
          BY <1>3, <1>4, <2>1, <3>1
        <4> QED BY <1>4, <1>5, <2>1, <3>1, <3>2, <4>1
      <3>3. CASE j # n + 1
        <4>1. j \in 1..n
          BY <1>2, <2>1, <3>3
        <4>2. first[stack[i]] < first[stack[j]]
          BY <1>1, <2>4, <3>1, <4>1 DEF TreeStack, n
        <4> QED BY <1>5, <2>1, <3>1, <4>1, <4>2
      <3> QED BY <3>2, <3>3
    <2>5. ASSUME NEW i \in 2..Len(stack')
          PROVE  idoms'[stack'[i]] = stack'[i - 1]
      <3>1. i - 1 \in 1..n /\ stack'[i - 1] = stack[i - 1]
        BY <1>2, <2>1
      <3>2. CASE i = n + 1
        <4>1. i - 1 = n
          BY <1>2, <3>2
        <4> QED BY <1>1, <1>3, <2>1, <3>1, <3>2, <4>1 DEF Top, top, n
      <3>3. CASE i # n + 1
        <4>1. i \in 2..n /\ i \in 1..n
          BY <1>2, <2>1, <3>3
        <4> QED BY <1>1, <2>1, <3>1, <4>1 DEF TreeStack, n
      <3> QED BY <3>2, <3>3
    <2>6. ASSUME NEW b \in visited'
          PROVE  last'[b] = 0 <=> \E i \in 1..Len(stack') : stack'[i] = b
      <3>1. CASE b = c
        BY <1>1, <1>2, <1>6, <2>1, <3>1
      <3>2. CASE b # c
        <4>1. last[b] = 0 <=> \E i \in 1..n : stack[i] = b
          BY <1>1, <3>2 DEF TreeStack, n
        <4>2. (\E i \in 1..n : stack[i] = b) <=> \E i \in 1..Len(stack') : stack'[i] = b
          BY <1>2, <2>1, <3>2
        <4> QED BY <1>1, <4>1, <4>2
      <3> QED BY <3>1, <3>2
    <2>7. \A b \in Blocks : last'[b] # 0 => b \in visited'
      BY <1>1 DEF TreeStack
    <2> QED BY <2>2, <2>3, <2>4, <2>5, <2>6, <2>7 DEF TreeStack
  <1>10. ASSUME NEW b \in visited', last[b] # 0
         PROVE  /\ \A x \in visited' : Above(idoms, b, x) <=> first'[b] <= first'[x] /\ first'[x] <= last[b]
                /\ \E x \in visited' : Above(idoms, b, x) /\ first'[x] = last[b]
                /\ \A x \in Blocks : idoms[x] # Null /\ Above(idoms, b, x) => last[x] # 0
    <2>1. b \in visited /\ b # c
      BY <1>1, <1>6, <1>10
    <2>2. /\ \A x \in visited : Above(idoms, b, x) <=> first[b] <= first[x] /\ first[x] <= last[b]
          /\ \E x \in visited : Above(idoms, b, x) /\ first[x] = last[b]
          /\ \A x \in Blocks : idoms[x] # Null /\ Above(idoms, b, x) => last[x] # 0
      BY <1>1, <1>10, <2>1 DEF Intervals
    <2>3. ~Above(idoms, b, c)
      <3>1. ASSUME Above(idoms, b, c) PROVE FALSE
        <4>1. Above(idoms, b, top)
          BY <1>3, <2>1, <3>1, AboveParent
        <4>2. idoms[top] # Null
          BY <1>1, <1>2 DEF NumberTypes
        <4> QED BY <1>2, <2>2, <4>1, <4>2
      <3> QED BY <3>1
    <2>4. ~(first'[c] <= last[b])
      BY <1>3, <1>4, <1>5, <2>2
    <2>5. \A x \in visited' : Above(idoms, b, x) <=> first'[b] <= first'[x] /\ first'[x] <= last[b]
      BY <1>1, <1>5, <2>1, <2>2, <2>3, <2>4
    <2> QED BY <1>1, <1>5, <2>2, <2>5
  <1>11. ASSUME NEW b \in visited', last[b] = 0, NEW x \in visited'
         PROVE  Above(idoms, b, x) <=> first'[b] <= first'[x]
    <2>1. CASE b = c /\ x = c
      BY <1>4, <1>5, <2>1, AboveSelf
    <2>2. CASE b = c /\ x # c
      <3>1. x \in visited
        BY <1>1, <2>2
      <3>2. ~Above(idoms, c, x)
        BY <1>1, <1>3, <3>1, AboveWithin DEF NumberTypes
      <3>3. first'[x] \in Nat /\ first'[x] <= counter
        BY <1>3, <1>4, <1>5, <3>1
      <3> QED BY <1>4, <1>5, <2>2, <3>2, <3>3
    <2>3. CASE b # c /\ x = c
      <3>1. b \in visited
        BY <1>1, <2>3
      <3>2. Above(idoms, b, top)
        BY <1>1, <1>2, <1>11, <3>1 DEF Intervals
      <3>3. Above(idoms, b, c)
        BY <1>7, <3>2, AboveJoins
      <3>4. first'[b] \in Nat /\ first'[b] <= counter
        BY <1>3, <1>4, <1>5, <3>1
      <3> QED BY <1>4, <1>5, <2>3, <3>3, <3>4
    <2>4. CASE b # c /\ x # c
      BY <1>1, <1>5, <1>11, <2>4 DEF Intervals
    <2> QED BY <2>1, <2>2, <2>3, <2>4
  <1>12. Intervals'
    BY <1>1, <1>10, <1>11 DEF Intervals
  <1>13. PlacedReachable' /\ Rooted' /\ ExactTable'
    BY <1>1 DEF PlacedReachable, Rooted, ExactTable, KeepsDominators
  <1> QED BY <1>1, <1>8, <1>9, <1>12, <1>13 DEF EInv

\* What leaving the block on top makes of its number.
LEMMA TopDone ==
  ASSUME IInv, EInv, NumberDone
  PROVE  /\ last' \in [Blocks -> Nat] /\ last'[Top] # 0
         /\ \A b \in Blocks : b # Top => last'[b] = last[b]
         /\ \A b \in visited : last'[b] # 0 =>
              /\ \A c \in visited : Above(idoms, b, c) <=> first[b] <= first[c] /\ first[c] <= last'[b]
              /\ \E c \in visited : Above(idoms, b, c) /\ first[c] = last'[b]
              /\ \A c \in Blocks : idoms[c] # Null /\ Above(idoms, b, c) => last'[c] # 0
  <1> DEFINE n == Len(stack)
             top == Top
  <1>1. /\ Types /\ phase = "tree" /\ Rooted
        /\ NumberTypes /\ TreeStack /\ Intervals
        /\ Children(top) \subseteq visited
        /\ last' = [last EXCEPT ![top] = counter]
    BY DEF IInv, EInv, NumberDone
  <1>2. /\ n \in Nat /\ top \in Blocks /\ top \in visited /\ last[top] = 0 /\ top = stack[n]
        /\ \A i \in 1..(n - 1) : stack[i] # top
    BY <1>1, TreeTop DEF Top
  <1>3. idoms \in Table /\ visited \in SUBSET Blocks
    BY <1>1 DEF Types, Table
  <1>4. /\ first \in [Blocks -> Nat] /\ last \in [Blocks -> Nat] /\ counter \in Nat
        /\ \A b \in Blocks : first[b] <= counter
        /\ first[top] # 0
    BY <1>1, <1>2 DEF NumberTypes
  <1>5. /\ last' \in [Blocks -> Nat] /\ last'[top] = counter /\ last'[top] # 0
        /\ \A b \in Blocks : b # top => last'[b] = last[b]
    BY <1>1, <1>2, <1>4
  <1> HIDE DEF top
  <1>6. ASSUME NEW c \in visited
        PROVE  Above(idoms, top, c) <=> first[top] <= first[c] /\ first[c] <= last'[top]
    BY <1>1, <1>2, <1>3, <1>4, <1>5 DEF Intervals
  <1>7. \E c \in visited : Above(idoms, top, c) /\ first[c] = last'[top]
    <2>1. PICK c \in visited : first[c] = counter
      BY <1>1 DEF NumberTypes
    <2> QED BY <1>1, <1>2, <1>4, <1>5, <2>1 DEF Intervals
  <1>8. ASSUME NEW c \in Blocks, idoms[c] # Null, Above(idoms, top, c)
        PROVE  last'[c] # 0
    <2>1. CASE c = top
      BY <1>5, <2>1
    <2>2. CASE c # top
      <3>1. PICK d \in Blocks : d # top /\ idoms[d] = top /\ Above(idoms, d, c)
        BY <1>3, <1>8, <2>2, AboveChild
      <3>2. d \in visited
        BY <1>1, <3>1 DEF Children
      <3>3. ASSUME NEW i \in 1..n, stack[i] = d PROVE FALSE
        <4>1. CASE i = 1
          BY <1>1, <3>1, <3>3, <4>1 DEF TreeStack, Rooted
        <4>2. CASE i # 1
          <5>1. i \in 2..n /\ i - 1 \in 1..(n - 1)
            BY <1>2, <4>2
          <5>2. idoms[d] = stack[i - 1]
            BY <1>1, <3>3, <5>1 DEF TreeStack
          <5> QED BY <1>2, <3>1, <5>1, <5>2
        <4> QED BY <4>1, <4>2
      <3>4. last[d] # 0
        BY <1>1, <3>2, <3>3 DEF TreeStack
      <3>5. last[c] # 0
        BY <1>1, <1>8, <3>1, <3>2, <3>4 DEF Intervals
      <3> QED BY <1>5, <2>2, <3>5
    <2> QED BY <2>1, <2>2
  <1>9. ASSUME NEW b \in visited, last'[b] # 0
        PROVE  /\ \A c \in visited : Above(idoms, b, c) <=> first[b] <= first[c] /\ first[c] <= last'[b]
               /\ \E c \in visited : Above(idoms, b, c) /\ first[c] = last'[b]
               /\ \A c \in Blocks : idoms[c] # Null /\ Above(idoms, b, c) => last'[c] # 0
    <2>1. CASE b = top
      BY <1>6, <1>7, <1>8, <2>1
    <2>2. CASE b # top
      <3>1. last[b] # 0 /\ last'[b] = last[b]
        BY <1>3, <1>5, <1>9, <2>2
      <3>2. /\ \A c \in visited : Above(idoms, b, c) <=> first[b] <= first[c] /\ first[c] <= last[b]
            /\ \E c \in visited : Above(idoms, b, c) /\ first[c] = last[b]
            /\ \A c \in Blocks : idoms[c] # Null /\ Above(idoms, b, c) => last[c] # 0
        BY <1>1, <3>1 DEF Intervals
      <3>3. \A c \in Blocks : last[c] # 0 => last'[c] # 0
        BY <1>5
      <3> QED BY <3>1, <3>2, <3>3
    <2> QED BY <2>1, <2>2
  <1> QED BY <1>5, <1>9 DEF top

\* The last block to be left is the entry, above all others; then every block
\* has its interval.
LEMMA DoneExact ==
  ASSUME IInv, EInv, NumberDone
  PROVE  EInv'
  <1> DEFINE n == Len(stack)
  <1>1. /\ Types /\ phase = "tree" /\ PlacedReachable /\ Rooted /\ ExactTable
        /\ NumberTypes /\ TreeStack /\ Intervals
        /\ stack' = Pop
        /\ UNCHANGED <<succ, idoms, first>>
    BY DEF IInv, EInv, NumberDone, sweepVars
  <1>2. /\ n \in Nat /\ n >= 1 /\ Top \in Blocks /\ Top \in visited /\ last[Top] = 0
        /\ Top = stack[n] /\ \A i \in 1..(n - 1) : stack[i] # Top
    BY <1>1, TreeTop DEF Top, TreeStack
  <1>3. /\ last' \in [Blocks -> Nat] /\ last'[Top] # 0
        /\ \A b \in Blocks : b # Top => last'[b] = last[b]
    BY TopDone
  <1>4. \A b \in visited : last'[b] # 0 =>
              /\ \A c \in visited : Above(idoms, b, c) <=> first[b] <= first[c] /\ first[c] <= last'[b]
              /\ \E c \in visited : Above(idoms, b, c) /\ first[c] = last'[b]
              /\ \A c \in Blocks : idoms[c] # Null /\ Above(idoms, b, c) => last'[c] # 0
    BY TopDone
  <1>5. visited \in SUBSET Blocks
    BY <1>1 DEF Types
  <1>6. Rooted' /\ ExactTable'
    BY <1>1 DEF Rooted, ExactTable, KeepsDominators
  <1>7. CASE n = 1
    <2>1. phase' = "done"
      BY <1>7 DEF NumberDone, Return
    <2>2. Top = Entry
      BY <1>1, <1>2, <1>7 DEF TreeStack
    <2>3. ASSUME NEW b \in Blocks, idoms[b] # Null PROVE b \in visited /\ last'[b] # 0
      <3>1. Above(idoms, Entry, b)
        BY <1>1, <2>3 DEF Rooted
      <3>2. last'[b] # 0
        BY <1>2, <1>3, <1>4, <2>2, <2>3, <3>1
      <3>3. b \in visited
        BY <1>1, <1>2, <1>3, <3>2 DEF TreeStack
      <3> QED BY <3>2, <3>3
    <2>4. \A b \in Blocks : first[b] # 0 <=> idoms[b] # Null
      BY <1>1, <2>3 DEF NumberTypes
    <2>5. ASSUME NEW a \in Blocks, NEW b \in Blocks, idoms[a] # Null, idoms[b] # Null
          PROVE  Above(idoms, a, b) <=> first[a] <= first[b] /\ last'[a] >= last'[b]
      <3>1. a \in visited /\ b \in visited /\ last'[a] # 0 /\ last'[b] # 0
        BY <2>3, <2>5
      <3>2. first \in [Blocks -> Nat]
        BY <1>1 DEF NumberTypes
      <3>3. ASSUME Above(idoms, a, b) PROVE first[a] <= first[b] /\ last'[a] >= last'[b]
        <4>1. PICK c \in visited : Above(idoms, b, c) /\ first[c] = last'[b]
          BY <1>4, <3>1
        <4>2. Above(idoms, a, c)
          BY <3>3, <4>1, AboveJoins
        <4>3. first[c] <= last'[a]
          BY <1>4, <3>1, <4>2
        <4>4. first[a] <= first[b]
          BY <1>4, <3>1, <3>3
        <4> QED BY <1>3, <4>1, <4>3, <4>4
      <3>4. ASSUME first[a] <= first[b], last'[a] >= last'[b] PROVE Above(idoms, a, b)
        <4>1. Above(idoms, b, b)
          BY AboveSelf
        <4>2. first[b] <= last'[b]
          BY <1>4, <3>1, <4>1
        <4>3. first[b] <= last'[a]
          BY <1>3, <3>2, <3>4, <4>2
        <4> QED BY <1>4, <3>1, <3>4, <4>3
      <3> QED BY <3>3, <3>4
    <2>6. Answers'
      BY <1>1, <2>4, <2>5 DEF Answers
    <2> QED BY <1>6, <2>1, <2>6 DEF EInv
  <1>8. CASE n # 1
    <2>1. UNCHANGED <<phase, visited, pos, counter>>
      BY <1>8 DEF NumberDone
    <2>2. NumberTypes'
      BY <1>1, <1>3, <2>1 DEF NumberTypes, Climbs
    <2>3. PlacedReachable'
      BY <1>1, <2>1 DEF PlacedReachable
    <2>4. Intervals'
      <3>1. \A b \in visited : last'[b] = 0 => last[b] = 0
        BY <1>2, <1>3, <1>5
      <3>2. \A b \in visited : last'[b] = 0 =>
              \A c \in visited : Above(idoms, b, c) <=> first[b] <= first[c]
        BY <1>1, <3>1 DEF Intervals
      <3> QED BY <1>1, <1>4, <2>1, <3>2 DEF Intervals
    <2>5. TreeStack'
      <3>1. /\ Len(stack') = n - 1
            /\ \A i \in 1..(n - 1) : stack'[i] = stack[i]
        BY <1>1, <1>2, PopFacts DEF Pop, Types
      <3>2. n - 1 >= 1 /\ \A i \in 1..(n - 1) : i \in 1..n
        <4> HIDE DEF n
        <4> QED BY <1>2, <1>8
      <3>3. Len(stack') >= 1 /\ stack'[1] = Entry
        BY <1>1, <1>2, <3>1, <3>2 DEF TreeStack
      <3>4. \A i \in 1..Len(stack') : stack'[i] \in visited'
        BY <1>1, <2>1, <3>1, <3>2 DEF TreeStack
      <3>5. \A i, j \in 1..Len(stack') : i < j => first'[stack'[i]] < first'[stack'[j]]
        BY <1>1, <3>1, <3>2 DEF TreeStack
      <3>6. ASSUME NEW i \in 2..Len(stack') PROVE idoms'[stack'[i]] = stack'[i - 1]
        <4>1. i \in 2..n /\ i \in 1..(n - 1) /\ i - 1 \in 1..(n - 1)
          BY <1>2, <3>1
        <4> QED BY <1>1, <3>1, <4>1 DEF TreeStack
      <3>7. ASSUME NEW b \in visited
            PROVE  last'[b] = 0 <=> \E i \in 1..(n - 1) : stack[i] = b
        <4>1. CASE b = Top
          BY <1>2, <1>3, <4>1
        <4>2. CASE b # Top
          <5>1. last'[b] = last[b]
            BY <1>3, <1>5, <4>2
          <5>2. last[b] = 0 <=> \E i \in 1..n : stack[i] = b
            BY <1>1 DEF TreeStack
          <5>3. \A i \in 1..n : stack[i] = b => i \in 1..(n - 1)
            BY <1>2, <4>2
          <5> QED BY <3>2, <5>1, <5>2, <5>3
        <4> QED BY <4>1, <4>2
      <3>8. \A b \in visited' : last'[b] = 0 <=> \E i \in 1..Len(stack') : stack'[i] = b
        BY <2>1, <3>1, <3>7
      <3>9. \A b \in Blocks : last'[b] # 0 => b \in visited'
        BY <1>1, <1>2, <1>3, <2>1 DEF TreeStack
      <3> QED BY <3>3, <3>4, <3>5, <3>6, <3>8, <3>9 DEF TreeStack
    <2> QED BY <1>1, <1>6, <2>1, <2>2, <2>3, <2>4, <2>5 DEF EInv
  <1> QED BY <1>7, <1>8

\* A step that changes no variable of analyze keeps the second invariant.
LEMMA StutterExact ==
  ASSUME EInv, UNCHANGED domVars
  PROVE  EInv'
  <1>1. /\ UNCHANGED <<succ, phase, stack, visited, pos, placed, idoms, changed, cur, left, b1, b2>>
        /\ UNCHANGED <<first, last, counter>>
    BY DEF domVars, rpoVars, sweepVars, dfsVars
  <1>2. phase = "rpo" => Explored'
    BY <1>1 DEF EInv, Explored
  <1>3. phase \in {"sweep", "tree"} => PlacedReachable'
    BY <1>1 DEF EInv, PlacedReachable
  <1>4. phase = "sweep" => TableKeeps' /\ FingersKeep' /\ Stable'
    BY <1>1 DEF EInv, TableKeeps, FingersKeep, Stable, KeepsDominators
  <1>5. phase \in {"tree", "done"} => Rooted' /\ ExactTable'
    BY <1>1 DEF EInv, Rooted, ExactTable, KeepsDominators
  <1>6. phase = "tree" => NumberTypes' /\ TreeStack' /\ Intervals'
    BY <1>1 DEF EInv, NumberTypes, TreeStack, Intervals, Climbs
  <1>7. phase = "done" => Answers'
    BY <1>1 DEF EInv, Answers
  <1> QED BY <1>1, <1>2, <1>3, <1>4, <1>5, <1>6, <1>7 DEF EInv, NoNumbers

\* Every step of analyze keeps the second invariant.
LEMMA NextExact ==
  ASSUME IInv, EInv, [DomNext]_domVars
  PROVE  EInv'
  <1>1. CASE UNCHANGED domVars
    BY <1>1, StutterExact
  <1>2. ASSUME NEW b \in Blocks, VisitRPO(b) PROVE EInv'
    BY <1>2, VisitExact
  <1>3. ASSUME NEW b \in Blocks, SkipBlock(b) PROVE EInv'
    BY <1>3, SkipExact
  <1>4. ASSUME NEW b \in Blocks, NEW p \in Blocks, BeginBlock(b, p) PROVE EInv'
    BY <1>4, BeginExact
  <1>5. ASSUME NEW b \in Blocks, NextPred(b) PROVE EInv'
    BY <1>5, NextPredExact
  <1>6. ASSUME NEW b \in Blocks, AssignBlock(b) PROVE EInv'
    BY <1>6, AssignExact
  <1>7. ASSUME NEW b \in Blocks, NumberChild(b) PROVE EInv'
    BY <1>7, ChildExact
  <1>8. CASE PlaceRPO
    BY <1>8, PlaceExact
  <1>9. CASE Walk
    BY <1>9, WalkExact
  <1>10. CASE EndSweep
    BY <1>10, EndSweepExact
  <1>11. CASE NumberDone
    BY <1>11, DoneExact
  <1> QED
    BY <1>1, <1>2, <1>3, <1>4, <1>5, <1>6, <1>7, <1>8, <1>9, <1>10, <1>11 DEF DomNext

-----------------------------------------------------------------------------
(* From the invariant to the paths.                                        *)

\* The blocks on the chain of an exact table are the dominators.
LEMMA ChainIsDominators ==
  ASSUME succ \in Graph, idoms \in Table, Rooted, ExactTable,
         NEW a \in Blocks, NEW b \in Blocks, idoms[b] # Null
  PROVE  Above(idoms, a, b) <=> b \notin Avoid(succ, a)
  <1>1. succ \in Graph /\ idoms \in Table
    OBVIOUS
  <1>2. \A y \in Blocks \ {Entry} : idoms[y] # Null => y \in Avoid(succ, Null)
    BY DEF ExactTable
  <1>3. ASSUME Above(idoms, a, b) PROVE b \notin Avoid(succ, a)
    <2> DEFINE S == {x \in Blocks : b \notin Avoid(succ, x)}
    <2>1. b \in S
      BY <1>1, AvoidWithin
    <2>2. ASSUME NEW x \in S, idoms[x] # Null PROVE idoms[x] \in S
      <3>1. CASE x = Entry
        BY <3>1 DEF Rooted
      <3>2. CASE x # Entry
        <4>1. idoms[x] \in Blocks /\ x \notin Avoid(succ, idoms[x])
          BY <1>2, <2>2, <3>2 DEF ExactTable
        <4> QED BY <1>1, <4>1, DominanceTransitive
      <3> QED BY <3>1, <3>2
    <2>3. Climbs(idoms, S)
      BY <2>2 DEF Climbs
    <2>4. a \in S
      BY <1>3, <2>1, <2>3, AboveWithin
    <2> QED BY <2>4
  <1>4. ASSUME b \notin Avoid(succ, a), ~Above(idoms, a, b) PROVE FALSE
    <2> DEFINE S == {y \in Blocks : y \notin Avoid(succ, a) /\ Above(idoms, y, b)}
    <2>1. b \in S
      BY <1>4, AboveSelf
    <2>2. Above(idoms, Entry, b)
      BY DEF Rooted
    <2>3. Entry \in Avoid(succ, a)
      BY <1>1, <1>4, <2>2, AvoidWithin
    <2>4. ASSUME NEW y \in S, idoms[y] # Null PROVE idoms[y] \in S
      <3>1. y # Entry /\ y # a
        BY <1>4, <2>3
      <3>2. idoms[y] \in Blocks /\ KeepsDominators(y, idoms[y])
        BY <1>2, <2>4, <3>1 DEF ExactTable
      <3>3. idoms[y] \notin Avoid(succ, a)
        BY <3>1, <3>2 DEF KeepsDominators
      <3>4. Above(idoms, idoms[y], b)
        BY <2>4, AboveUp
      <3> QED BY <3>2, <3>3, <3>4
    <2>5. Climbs(idoms, S)
      BY <2>4 DEF Climbs
    <2>6. Entry \in S
      BY <2>1, <2>2, <2>5, AboveWithin
    <2> QED BY <2>3, <2>6
  <1> QED BY <1>3, <1>4

\* The first half of DominanceExact.
LEMMA TableExact ==
  ASSUME IInv, EInv
  PROVE  IdomsAreDominators
  <1> SUFFICES ASSUME phase = "tree" PROVE IdomsAreDominators
    BY DEF IdomsAreDominators
  <1>1. Types /\ Rooted /\ ExactTable
    BY DEF IInv, EInv
  <1>2. Reachable = Avoid(succ, Null)
    BY ReachIsAvoid DEF Reachable
  <1>3. \A a, b : OnEveryPath(a, b) <=> b \notin Avoid(succ, a)
    BY ReachIsAvoid DEF OnEveryPath
  <1>4. ASSUME NEW b \in Blocks \ {Entry}, b \in Reachable
        PROVE  /\ idoms[b] \in StrictDominators(b)
               /\ \A a \in StrictDominators(b) : a = idoms[b] \/ OnEveryPath(a, idoms[b])
    <2>1. /\ idoms[b] \in Blocks \ {b} /\ b \notin Avoid(succ, idoms[b])
          /\ KeepsDominators(b, idoms[b])
      BY <1>1, <1>2, <1>4 DEF ExactTable
    <2>2. \A a : a \in StrictDominators(b) <=> a \in Blocks \ {b} /\ b \notin Avoid(succ, a)
      BY <1>3 DEF StrictDominators
    <2> QED BY <1>3, <2>1, <2>2 DEF KeepsDominators
  <1>5. ASSUME NEW b \in Blocks \ {Entry}, b \notin Reachable PROVE idoms[b] = Null
    BY <1>1, <1>2, <1>5 DEF ExactTable
  <1> QED BY <1>1, <1>4, <1>5 DEF IdomsAreDominators, Rooted

\* The second half.
LEMMA AnswersExact ==
  ASSUME IInv, EInv
  PROVE  DominatesMeansPaths
  <1> SUFFICES ASSUME phase = "done", NEW a \in Blocks, NEW b \in Blocks
               PROVE  Dominates(a, b) <=>
                        b \in IF a \in Reachable THEN Reachable \ ReachAvoiding(a) ELSE {a}
    BY DEF DominatesMeansPaths
  <1>1. Types /\ Rooted /\ ExactTable /\ Answers
    BY DEF IInv, EInv
  <1>2. Reachable = Avoid(succ, Null) /\ ReachAvoiding(a) = Avoid(succ, a)
    BY ReachIsAvoid DEF Reachable
  <1>3. succ \in Graph /\ idoms \in Table
    BY <1>1 DEF Types, Graph, Table
  <1>4. \A y \in Blocks : idoms[y] # Null <=> y \in Reachable
    <2>1. Entry \in Reachable /\ idoms[Entry] # Null
      BY <1>1, <1>2, <1>3, AvoidWithin, EntryIsBlock DEF Rooted
    <2>2. \A y \in Blocks \ {Entry} : idoms[y] # Null <=> y \in Reachable
      BY <1>1, <1>2, EntryIsBlock DEF ExactTable
    <2> QED BY <2>1, <2>2
  <1>5. \A y \in Blocks : first[y] # 0 <=> y \in Reachable
    BY <1>1, <1>4 DEF Answers
  <1>6. CASE a \in Reachable /\ b \in Reachable
    <2>1. Above(idoms, a, b) <=> first[a] <= first[b] /\ last[a] >= last[b]
      BY <1>1, <1>4, <1>6 DEF Answers
    <2>2. Above(idoms, a, b) <=> b \notin Avoid(succ, a)
      BY <1>1, <1>3, <1>4, <1>6, ChainIsDominators
    <2>3. Above(idoms, a, a)
      BY AboveSelf
    <2>4. Dominates(a, b) <=> b \notin Avoid(succ, a)
      BY <1>5, <1>6, <2>1, <2>2, <2>3 DEF Dominates
    <2> QED BY <1>2, <1>6, <2>4
  <1>7. CASE ~(a \in Reachable /\ b \in Reachable)
    <2>1. Dominates(a, b) <=> a = b
      BY <1>5, <1>7 DEF Dominates
    <2> QED BY <1>7, <2>1
  <1> QED BY <1>6, <1>7

\* analyze is exact on every control flow graph of any size, whatever the
\* order of its lists: when a sweep has changed nothing the table holds the
\* immediate dominators, and the numbers of the tree answer dominates as the
\* paths from the entry do.
THEOREM AnalysisIsExact == DomSpec => []DominanceExact
  <1>1. DomInit => EInv
    BY ExactInit
  <1>2. IInv /\ EInv /\ [DomNext]_domVars => EInv'
    BY NextExact
  <1>3. IInv /\ EInv => DominanceExact
    BY TableExact, AnswersExact DEF DominanceExact
  <1> QED BY <1>1, <1>2, <1>3, InvariantHolds, PTL DEF DomSpec

-----------------------------------------------------------------------------
(* The end of the sweeps.                                                  *)

\* Of a block's entry m and a predecessor p placed later, as long as the sweep
\* has not come to m, or once it has passed the block: m is on p's chain.  At
\* any time: what p's chain has from m's place on, m's chain has too.
Follows ==
  \A b \in Blocks \ {Entry}, p \in Blocks :
    idoms[b] # Null /\ b \in succ[p] /\ pos[p] > pos[b] =>
      /\ idoms[p] # Null
      /\ pos[idoms[b]] <= cur \/ pos[b] > cur => Above(idoms, idoms[b], p)
      /\ \A d \in Blocks : Above(idoms, d, p) /\ pos[d] >= pos[idoms[b]] =>
           Above(idoms, d, idoms[b])

\* Nothing that is above all predecessors of a block is placed before its
\* entry; the fingers are not past it.
AboveAll(d, b) == \A p \in Blocks : b \in succ[p] /\ idoms[p] # Null => Above(idoms, d, p)
AboveSeen(d, b) ==
  \A p \in Blocks : b \in succ[p] /\ idoms[p] # Null /\ p \notin left => Above(idoms, d, p)
Lowest ==
  \A b \in Blocks \ {Entry}, d \in Blocks :
    idoms[b] # Null /\ AboveAll(d, b) => pos[d] >= pos[idoms[b]]
FingersLowest ==
  b2 # Null => \A b, d \in Blocks : pos[b] = cur /\ AboveSeen(d, b) =>
    Above(idoms, d, b1) /\ Above(idoms, d, b2)

CInv == phase = "sweep" => Follows /\ Lowest /\ FingersLowest

\* Every table entry, once made, only moves to a block placed later: the sweeps
\* come to an end, since a changed entry has moved and no block is placed
\* after the entry.
EntriesClimb ==
  [][phase = "sweep" => \A b \in Blocks : idoms[b] # Null =>
       /\ idoms'[b] \in Blocks
       /\ idoms'[b] # idoms[b] => pos[idoms'[b]] > pos[idoms[b]]]_domVars

\* Of two blocks on one chain, one is above the other.
LEMMA ChainLinear ==
  ASSUME NEW up \in Table, NEW y \in Blocks, NEW m, NEW d, Above(up, m, y), Above(up, d, y)
  PROVE  Above(up, d, m) \/ Above(up, m, d)
  <1> DEFINE S == {x \in Blocks : Above(up, d, x) \/ Above(up, x, d)}
  <1>1. ASSUME NEW x \in S, up[x] # Null PROVE up[x] \in S
    <2>1. up[x] \in Blocks
      BY <1>1 DEF Table
    <2>2. CASE Above(up, x, d)
      BY <1>1, <2>1, <2>2, AboveUp
    <2>3. CASE Above(up, d, x) /\ d = x
      BY <1>1, <2>1, <2>3, AboveUp
    <2>4. CASE Above(up, d, x) /\ d # x
      BY <1>1, <2>1, <2>4, AboveParent
    <2> QED BY <2>2, <2>3, <2>4
  <1>2. Climbs(up, S)
    BY <1>1 DEF Climbs
  <1>3. m \in S
    BY <1>2, AboveWithin
  <1> QED BY <1>3

\* Chains that climb in the order ps.
Upward(up, ps) ==
  /\ up \in Table /\ ps \in [Blocks -> Nat]
  /\ \A z \in Blocks : up[z] # Null => ps[up[z]] >= ps[z]

\* So do the table's in reverse post-order.
LEMMA TableUpward ==
  ASSUME Types, Climbing
  PROVE  Upward(idoms, pos)
  <1>1. idoms \in Table /\ pos \in [Blocks -> Nat]
    BY DEF Types, Table
  <1>2. ASSUME NEW z \in Blocks, idoms[z] # Null PROVE pos[idoms[z]] >= pos[z]
    <2>1. CASE z = Entry
      BY <1>1, <2>1 DEF Climbing
    <2>2. CASE z # Entry
      <3>1. pos[idoms[z]] > pos[z] /\ idoms[z] \in Blocks
        BY <1>1, <1>2, <2>2 DEF Climbing, Table
      <3> QED BY <1>1, <3>1
    <2> QED BY <2>1, <2>2
  <1> QED BY <1>1, <1>2 DEF Upward

\* What is above a block is placed no earlier.
LEMMA AboveLater ==
  ASSUME NEW up, NEW ps, Upward(up, ps), NEW y \in Blocks, NEW d, Above(up, d, y)
  PROVE  d \in Blocks /\ ps[d] >= ps[y]
  <1> DEFINE S == {x \in Blocks : ps[x] >= ps[y]}
  <1>1. ps \in [Blocks -> Nat] /\ y \in S
    BY DEF Upward
  <1>2. ASSUME NEW x \in S, up[x] # Null PROVE up[x] \in S
    <2>1. up[x] \in Blocks /\ ps[up[x]] >= ps[x]
      BY <1>2 DEF Upward, Table
    <2> QED BY <1>1, <2>1
  <1>3. Climbs(up, S)
    BY <1>2 DEF Climbs
  <1>4. d \in S
    BY <1>1, <1>3, AboveWithin
  <1> QED BY <1>4

\* So of two blocks on one chain the one placed later is above the other.
LEMMA ChainOrder ==
  ASSUME NEW up, NEW ps, Upward(up, ps), NEW y \in Blocks, NEW m, NEW d,
         \A x \in Blocks : ps[x] = ps[m] => x = m,
         Above(up, m, y), Above(up, d, y), ps[d] >= ps[m]
  PROVE  Above(up, d, m)
  <1>1. up \in Table /\ ps \in [Blocks -> Nat]
    BY DEF Upward
  <1>2. m \in Blocks /\ d \in Blocks
    BY AboveLater
  <1>3. CASE Above(up, m, d)
    <2>1. ps[m] >= ps[d]
      BY <1>2, <1>3, AboveLater
    <2>2. d = m
      BY <1>1, <1>2, <2>1
    <2> QED BY <2>2, AboveSelf
  <1> QED BY <1>1, <1>3, ChainLinear

\* An assignment of w to b.
Reassigned(b, w) ==
  /\ Types /\ Climbing /\ b \in Blocks \ {Entry} /\ w \in Blocks /\ pos[w] > pos[b]
  /\ idoms[w] # Null

\* The chains that start above b stay as they are.
LEMMA ChainsAboveStay ==
  ASSUME NEW b, NEW w, Reassigned(b, w), NEW y \in Blocks, pos[y] > pos[b], NEW d
  PROVE  Above([idoms EXCEPT ![b] = w], d, y) <=> Above(idoms, d, y)
  <1> DEFINE up == [idoms EXCEPT ![b] = w]
  <1>1. /\ pos \in [Blocks -> Nat] /\ b \in Blocks
        /\ \A z \in Blocks : z # b => up[z] = idoms[z]
    BY DEF Reassigned, Types
  <1> HIDE DEF up
  <1>2. ASSUME NEW z \in Blocks, pos[z] > pos[b], idoms[z] # Null
        PROVE  idoms[z] \in Blocks /\ pos[idoms[z]] > pos[b] /\ up[z] = idoms[z]
    BY <1>1, <1>2, EntryIsBlock DEF Reassigned, Climbing, Types
  <1>3. ASSUME Above(up, d, y), NEW S \in SUBSET Blocks, y \in S, Climbs(idoms, S)
        PROVE  d \in S
    <2> DEFINE T == {z \in S : pos[z] > pos[b]}
    <2>1. ASSUME NEW z \in T, up[z] # Null PROVE up[z] \in T
      <3>1. z \in Blocks /\ z # b
        BY <1>1
      <3>2. up[z] = idoms[z]
        BY <1>1, <3>1
      <3> QED BY <1>2, <1>3, <2>1, <3>1, <3>2 DEF Climbs
    <2>2. Climbs(up, T) /\ y \in T
      BY <1>3, <2>1 DEF Climbs
    <2>3. d \in T
      BY <1>3, <2>2, AboveWithin
    <2> QED BY <2>3
  <1>4. ASSUME Above(idoms, d, y), NEW S \in SUBSET Blocks, y \in S, Climbs(up, S)
        PROVE  d \in S
    <2> DEFINE T == {z \in S : pos[z] > pos[b]}
    <2>1. ASSUME NEW z \in T, idoms[z] # Null PROVE idoms[z] \in T
      <3>1. z \in Blocks /\ up[z] = idoms[z] /\ idoms[z] \in Blocks /\ pos[idoms[z]] > pos[b]
        BY <1>2, <2>1
      <3> QED BY <1>4, <2>1, <3>1 DEF Climbs
    <2>2. Climbs(idoms, T) /\ y \in T
      BY <1>4, <2>1 DEF Climbs
    <2>3. d \in T
      BY <1>4, <2>2, AboveWithin
    <2> QED BY <2>3
  <1> QED BY <1>3, <1>4 DEF Above, up

\* What is not above b stays on every chain.
LEMMA ChainsBelowStay ==
  ASSUME NEW b, NEW w, Reassigned(b, w), NEW y \in Blocks, NEW d \in Blocks, pos[d] <= pos[b],
         Above(idoms, d, y)
  PROVE  Above([idoms EXCEPT ![b] = w], d, y)
  <1> DEFINE up == [idoms EXCEPT ![b] = w]
  <1>1. /\ pos \in [Blocks -> Nat] /\ b \in Blocks
        /\ \A z \in Blocks : z # b => up[z] = idoms[z]
    BY DEF Reassigned, Types
  <1> HIDE DEF up
  <1>2. ASSUME NEW S \in SUBSET Blocks, y \in S, Climbs(up, S) PROVE d \in S
    <2> DEFINE T == S \union {z \in Blocks : pos[z] > pos[b]}
    <2>1. ASSUME NEW z \in T, idoms[z] # Null PROVE idoms[z] \in T
      <3>1. idoms[z] \in Blocks /\ pos[idoms[z]] >= pos[z]
        BY <1>1, <2>1, EntryIsBlock DEF Reassigned, Climbing, Types
      <3>2. CASE pos[z] > pos[b]
        BY <1>1, <3>1, <3>2
      <3>3. CASE z = b
        <4>1. pos[idoms[b]] > pos[b]
          BY <2>1, <3>3 DEF Reassigned, Climbing
        <4> QED BY <3>1, <3>3, <4>1
      <3>4. CASE z # b /\ z \in S
        BY <1>1, <1>2, <2>1, <3>4 DEF Climbs
      <3> QED BY <3>2, <3>3, <3>4
    <2>2. T \in SUBSET Blocks /\ y \in T /\ Climbs(idoms, T)
      BY <1>2, <2>1 DEF Climbs
    <2>3. d \in T
      BY <2>2, AboveWithin
    <2> QED BY <1>1, <2>3
  <1> QED BY <1>2 DEF Above, up

\* No chain gains a block if w is above the old entry of b, or b had none and
\* was on no other chain.
LEMMA ChainsShrink ==
  ASSUME NEW b, NEW w, Reassigned(b, w), NEW y \in Blocks, NEW d,
         idoms[b] # Null => Above(idoms, w, idoms[b]), idoms[b] = Null => y # b,
         Above([idoms EXCEPT ![b] = w], d, y)
  PROVE  Above(idoms, d, y)
  <1> DEFINE up == [idoms EXCEPT ![b] = w]
  <1>1. /\ b \in Blocks /\ b # Entry /\ idoms \in Table /\ up[b] = w
        /\ \A z \in Blocks : z # b => up[z] = idoms[z]
    BY DEF Reassigned, Types, Table
  <1>2. Above(up, d, y)
    OBVIOUS
  <1> HIDE DEF up
  <1> SUFFICES ASSUME NEW S \in SUBSET Blocks, y \in S, Climbs(idoms, S) PROVE d \in S
    BY DEF Above
  <1>3. CASE idoms[b] # Null
    <2>1. ASSUME NEW z \in S, up[z] # Null PROVE up[z] \in S
      <3>1. CASE z = b
        <4>1. idoms[b] \in S
          BY <1>3, <3>1 DEF Climbs
        <4> QED BY <1>1, <1>3, <3>1, <4>1, AboveWithin
      <3>2. CASE z # b
        BY <1>1, <2>1, <3>2 DEF Climbs
      <3> QED BY <3>1, <3>2
    <2>2. Climbs(up, S)
      BY <2>1 DEF Climbs
    <2> QED BY <1>2, <2>2, AboveWithin
  <1>4. CASE idoms[b] = Null
    <2> DEFINE T == S \ {b}
    <2>1. ASSUME NEW z \in T, up[z] # Null PROVE up[z] \in T
      <3>1. z \in Blocks /\ z # b /\ up[z] = idoms[z] /\ idoms[z] \in S
        BY <1>1, <2>1 DEF Climbs
      <3>2. idoms[z] # b
        <4>1. CASE z = Entry
          BY <1>1, <4>1 DEF Reassigned, Climbing
        <4>2. CASE z # Entry
          BY <1>4, <2>1, <3>1, <4>2 DEF Reassigned, Climbing
        <4> QED BY <4>1, <4>2
      <3> QED BY <3>1, <3>2
    <2>2. T \in SUBSET Blocks /\ y \in T /\ Climbs(up, T)
      BY <1>4, <2>1 DEF Climbs
    <2>3. d \in T
      BY <1>2, <2>2, AboveWithin
    <2> QED BY <2>3
  <1> QED BY <1>3, <1>4

\* What an assignment finds: the new entry is placed after the block and above
\* the old one.
LEMMA AssignedAbove ==
  ASSUME IInv, EInv, CInv, NEW b \in Blocks, AssignBlock(b)
  PROVE  Reassigned(b, b2) /\ (idoms[b] # Null => Above(idoms, b2, idoms[b]))
  <1>1. /\ Types /\ Injective /\ Numbered /\ Climbing /\ Fingers /\ FingersKeep
        /\ Follows /\ Lowest /\ phase = "sweep"
        /\ pos[b] = cur /\ b2 # Null /\ b1 = b2 /\ left = {}
    BY DEF IInv, EInv, CInv, AssignBlock
  <1>2. cur # 0 /\ b # Entry /\ idoms[b2] # Null /\ b2 \in Blocks
    BY <1>1 DEF Fingers, Types
  <1>3. AboveAll(b2, b)
    BY <1>1 DEF FingersKeep, AboveAll
  <1>4. PICK p \in Blocks : b \in succ[p] /\ pos[p] > pos[b] /\ idoms[p] # Null
    <2>1. PICK p \in Processed(b) : pos[p] > pos[b]
      BY <1>1, <1>2, LaterPredecessor
    <2> QED BY <2>1 DEF Processed, Preds
  <1>5. Above(idoms, b2, p)
    BY <1>3, <1>4 DEF AboveAll
  <1>6. pos[b2] > pos[b]
    <2>1. pos[b2] >= pos[p]
      BY <1>1, <1>5, TableUpward, AboveLater
    <2> QED BY <1>1, <1>2, <1>4, <2>1 DEF Types
  <1>7. ASSUME idoms[b] # Null PROVE Above(idoms, b2, idoms[b])
    <2>1. pos[b2] >= pos[idoms[b]]
      BY <1>1, <1>2, <1>3, <1>7 DEF Lowest
    <2> QED BY <1>1, <1>2, <1>4, <1>5, <1>7, <2>1 DEF Follows
  <1> QED BY <1>1, <1>2, <1>6, <1>7 DEF Reassigned

\* So chains only shrink, and what was said of them stays true.
LEMMA AssignClimbs ==
  ASSUME IInv, EInv, CInv, NEW b \in Blocks, AssignBlock(b)
  PROVE  CInv'
  <1>1. /\ Types /\ Injective /\ Climbing /\ Fingers /\ FingersKeep
        /\ Follows /\ Lowest /\ FingersLowest /\ phase = "sweep"
        /\ pos[b] = cur /\ b2 # Null /\ b1 = b2 /\ left = {}
        /\ idoms' = [idoms EXCEPT ![b] = b2] /\ cur' = cur - 1 /\ b2' = Null
        /\ UNCHANGED <<succ, phase, pos>>
    BY DEF IInv, EInv, CInv, AssignBlock, rpoVars
  <1>2. Reassigned(b, b2) /\ (idoms[b] # Null => Above(idoms, b2, idoms[b]))
    BY AssignedAbove
  <1>3. idoms' \in Table /\ \A c \in Blocks : idoms[c] # Null => pos[c] # 0
    BY <1>1, <1>2 DEF Types, Table, Reassigned, Climbing
  <1>4. Upward(idoms, pos)
    BY <1>1, TableUpward
  <1>5. /\ idoms'[b] = b2 /\ \A c \in Blocks : c # b => idoms'[c] = idoms[c]
        /\ \A c \in Blocks : idoms[c] # Null => idoms'[c] # Null
        /\ pos \in [Blocks -> Nat] /\ cur \in Nat /\ b2 \in Blocks /\ b \in Blocks \ {Entry}
        /\ idoms[b2] # Null
        /\ \A c \in Blocks : pos[c] = cur => c = b
    BY <1>1, <1>2 DEF Types, Injective, Fingers, Reassigned
  <1>6. Upward(idoms', pos)
    <2>1. pos[b2] > pos[b]
      BY <1>2 DEF Reassigned
    <2>2. ASSUME NEW z \in Blocks, idoms'[z] # Null PROVE pos[idoms'[z]] >= pos[z]
      BY <1>4, <1>5, <2>1, <2>2 DEF Upward
    <2> QED BY <1>3, <1>5, <2>2 DEF Upward
  <1>7. ASSUME NEW c \in Blocks, idoms[c] # Null, NEW x \in Blocks, pos[x] = pos[c] PROVE x = c
    BY <1>1, <1>3, <1>7 DEF Injective
  <1>8. ASSUME NEW y \in Blocks, pos[y] > pos[b], NEW d
        PROVE  Above(idoms', d, y) <=> Above(idoms, d, y)
    BY <1>1, <1>2, <1>8, ChainsAboveStay
  <1>9. ASSUME NEW y \in Blocks, NEW d \in Blocks, pos[d] <= pos[b], Above(idoms, d, y)
        PROVE  Above(idoms', d, y)
    BY <1>1, <1>2, <1>9, ChainsBelowStay
  <1>10. ASSUME NEW y \in Blocks, idoms[y] # Null, NEW d, Above(idoms', d, y)
        PROVE  Above(idoms, d, y)
    BY <1>1, <1>2, <1>10, ChainsShrink
  <1>11. Follows'
    <2> SUFFICES ASSUME NEW c \in Blocks \ {Entry}, NEW p \in Blocks,
                        idoms'[c] # Null, c \in succ[p], pos[p] > pos[c]
                 PROVE  /\ idoms'[p] # Null
                        /\ pos[idoms'[c]] <= cur - 1 \/ pos[c] > cur - 1 => Above(idoms', idoms'[c], p)
                        /\ \A d \in Blocks : Above(idoms', d, p) /\ pos[d] >= pos[idoms'[c]] =>
                             Above(idoms', d, idoms'[c])
      BY <1>1 DEF Follows
    <2>1. CASE c = b
      <3>1. idoms[p] # Null /\ idoms'[p] # Null
        BY <1>1, <1>5, <2>1 DEF Fingers
      <3>2. Above(idoms, b2, p)
        BY <1>1, <2>1, <3>1 DEF FingersKeep
      <3>3. Above(idoms', b2, p)
        BY <1>8, <2>1, <3>2
      <3>4. ASSUME NEW d \in Blocks, Above(idoms', d, p), pos[d] >= pos[b2]
            PROVE  Above(idoms', d, b2)
        <4>1. Above(idoms, d, p)
          BY <1>8, <2>1, <3>4
        <4>2. Above(idoms, d, b2)
          BY <1>4, <1>7, <1>5, <3>2, <3>4, <4>1, ChainOrder
        <4>3. pos[b2] > pos[b]
          BY <1>2 DEF Reassigned
        <4> QED BY <1>5, <1>8, <4>2, <4>3
      <3> QED BY <1>5, <2>1, <3>1, <3>3, <3>4
    <2>2. CASE c # b
      <3> DEFINE m == idoms[c]
      <3>1. idoms'[c] = m /\ m # Null /\ m \in Blocks
        BY <1>1, <1>5, <2>2 DEF Types
      <3>2. /\ idoms[p] # Null
            /\ pos[m] <= cur \/ pos[c] > cur => Above(idoms, m, p)
            /\ \A d \in Blocks : Above(idoms, d, p) /\ pos[d] >= pos[m] => Above(idoms, d, m)
        BY <1>1, <3>1 DEF Follows
      <3>3. pos[c] # cur
        BY <1>5, <2>2
      <3> HIDE DEF m
      <3>4. ASSUME pos[m] <= cur PROVE Above(idoms', m, p)
        BY <1>1, <1>9, <3>1, <3>2, <3>4
      <3>5. ASSUME pos[c] > cur PROVE Above(idoms', m, p)
        <4>1. pos[p] > pos[b]
          BY <1>1, <1>5, <3>5
        <4> QED BY <1>8, <3>2, <3>5, <4>1
      <3>6. ASSUME NEW d \in Blocks, Above(idoms', d, p), pos[d] >= pos[m]
            PROVE  Above(idoms', d, m)
        <4>1. Above(idoms, d, m)
          BY <1>10, <3>2, <3>6
        <4>2. CASE pos[m] > pos[b]
          BY <1>8, <3>1, <4>1, <4>2
        <4>3. CASE pos[m] <= cur
          <5>1. Above(idoms', m, p)
            BY <3>4, <4>3
          <5>2. idoms[m] # Null
            BY <1>1, <3>1 DEF Climbing, m
          <5>3. \A x \in Blocks : pos[x] = pos[m] => x = m
            BY <1>7, <3>1, <5>2
          <5> QED BY <1>6, <3>6, <5>1, <5>3, ChainOrder
        <4> QED BY <1>1, <1>5, <3>1, <4>2, <4>3
      <3>7. pos[m] <= cur - 1 \/ pos[c] > cur - 1 => pos[m] <= cur \/ pos[c] > cur
        BY <1>5, <3>1, <3>3
      <3> QED BY <1>5, <3>1, <3>2, <3>4, <3>5, <3>6, <3>7
    <2> QED BY <2>1, <2>2
  <1>12. Lowest'
    <2> SUFFICES ASSUME NEW c \in Blocks \ {Entry}, NEW d \in Blocks, idoms'[c] # Null,
                        \A p \in Blocks : c \in succ[p] /\ idoms'[p] # Null => Above(idoms', d, p)
                 PROVE  pos[d] >= pos[idoms'[c]]
      BY <1>1 DEF Lowest, AboveAll
    <2>1. AboveAll(d, c)
      BY <1>5, <1>10 DEF AboveAll
    <2>2. CASE c = b
      <3>1. AboveSeen(d, b)
        BY <1>1, <2>1, <2>2 DEF AboveAll, AboveSeen
      <3>2. Above(idoms, d, b2)
        BY <1>1, <3>1 DEF FingersLowest
      <3>3. pos[d] >= pos[b2]
        BY <1>4, <1>5, <3>2, AboveLater
      <3> QED BY <1>5, <2>2, <3>3
    <2>3. CASE c # b
      BY <1>1, <1>5, <2>1, <2>3 DEF Lowest
    <2> QED BY <2>2, <2>3
  <1>13. FingersLowest'
    BY <1>1 DEF FingersLowest
  <1> QED BY <1>11, <1>12, <1>13 DEF CInv

\* Passing over the entry.
LEMMA SkipClimbs ==
  ASSUME IInv, CInv, NEW b \in Blocks, SkipBlock(b)
  PROVE  CInv'
  <1>1. /\ Types /\ Injective /\ Numbered /\ Fingers /\ Follows /\ Lowest /\ phase = "sweep"
        /\ pos[b] = cur /\ cur # 0 /\ b2' = Null /\ cur' = cur - 1
        /\ UNCHANGED <<succ, phase, pos, idoms>>
    BY DEF IInv, CInv, SkipBlock, rpoVars
  <1>2. b = Entry
    BY <1>1, LaterPredecessor DEF SkipBlock
  <1>3. \A c \in Blocks \ {Entry} : pos[c] > cur - 1 => pos[c] > cur
    BY <1>1, <1>2 DEF Types, Injective
  <1>4. \A c \in Blocks : pos[c] <= cur - 1 => pos[c] <= cur
    BY <1>1 DEF Types
  <1>5. \A c \in Blocks : idoms[c] # Null => idoms[c] \in Blocks
    BY <1>1 DEF Types
  <1>6. Follows'
    BY <1>1, <1>3, <1>4, <1>5 DEF Follows
  <1>7. Lowest' /\ FingersLowest'
    BY <1>1 DEF Lowest, AboveAll, FingersLowest
  <1> QED BY <1>6, <1>7 DEF CInv

\* What a finger step keeps.
LEMMA FingerStep ==
  ASSUME CInv, phase = "sweep", UNCHANGED <<succ, phase, pos, idoms, cur>>, FingersLowest'
  PROVE  CInv'
  <1>1. Follows'
    BY DEF CInv, Follows
  <1>2. Lowest'
    BY DEF CInv, Lowest, AboveAll
  <1> QED BY <1>1, <1>2 DEF CInv

\* The fingers begin on the first predecessor.
LEMMA BeginClimbs ==
  ASSUME IInv, CInv, NEW b \in Blocks, NEW p \in Blocks, BeginBlock(b, p)
  PROVE  CInv'
  <1>1. /\ Types /\ Injective /\ phase = "sweep"
        /\ pos[b] = cur /\ cur # 0 /\ p \in Processed(b)
        /\ b1' = p /\ b2' = p /\ left' = Processed(b) \ {p}
        /\ UNCHANGED <<succ, phase, pos, idoms, cur>>
    BY DEF IInv, BeginBlock, rpoVars
  <1>2. \A c \in Blocks : pos[c] = cur => c = b
    BY <1>1 DEF Injective
  <1>3. b \in succ[p] /\ idoms[p] # Null
    BY <1>1 DEF Processed, Preds
  <1>4. FingersLowest'
    <2> SUFFICES ASSUME NEW c \in Blocks, NEW d \in Blocks, pos[c] = cur, AboveSeen(d, c)'
                 PROVE  Above(idoms', d, p)
      BY <1>1 DEF FingersLowest
    <2>1. c = b
      BY <1>2
    <2> QED BY <1>1, <1>3, <2>1 DEF AboveSeen
  <1> QED BY <1>1, <1>4, FingerStep

\* One finger goes to the next, which is then seen.
LEMMA NextPredClimbs ==
  ASSUME IInv, EInv, CInv, NEW p \in Blocks, NextPred(p)
  PROVE  CInv'
  <1>1. /\ Fingers /\ FingersKeep /\ FingersLowest /\ phase = "sweep"
        /\ b2 # Null /\ b1 = b2 /\ p \in left
        /\ b1' = p /\ left' = left \ {p}
        /\ UNCHANGED <<succ, phase, pos, idoms, cur, b2>>
    BY DEF IInv, EInv, CInv, NextPred, rpoVars
  <1>2. FingersLowest'
    <2> SUFFICES ASSUME NEW c \in Blocks, NEW d \in Blocks, pos[c] = cur, AboveSeen(d, c)'
                 PROVE  Above(idoms, d, p) /\ Above(idoms, d, b2)
      BY <1>1 DEF FingersLowest
    <2>1. c \in succ[p] /\ idoms[p] # Null
      BY <1>1 DEF FingersKeep, Fingers
    <2>2. Above(idoms, d, p)
      BY <1>1, <2>1 DEF AboveSeen
    <2>3. AboveSeen(d, c)
      BY <1>1 DEF AboveSeen
    <2> QED BY <1>1, <2>2, <2>3 DEF FingersLowest
  <1> QED BY <1>1, <1>2, FingerStep

\* The finger that moves is not on a block above both.
LEMMA WalkClimbs ==
  ASSUME IInv, CInv, Walk
  PROVE  CInv'
  <1>1. /\ Types /\ Climbing /\ Fingers /\ FingersLowest /\ phase = "sweep" /\ b1 # b2
        /\ UNCHANGED <<succ, phase, pos, idoms, cur, left>>
    BY DEF IInv, CInv, Walk, rpoVars
  <1>2. b2 # Null /\ b1 \in Blocks /\ b2 \in Blocks
    BY <1>1 DEF Fingers, Types
  <1>3. Upward(idoms, pos) /\ idoms \in Table /\ pos \in [Blocks -> Nat]
    BY <1>1, TableUpward DEF Upward
  <1>4. ASSUME NEW f \in Blocks, NEW g \in Blocks, pos[f] < pos[g],
               NEW d \in Blocks, Above(idoms, d, f), Above(idoms, d, g)
        PROVE  Above(idoms, d, idoms[f])
    <2>1. pos[d] >= pos[g]
      BY <1>3, <1>4, AboveLater
    <2>2. d # f
      BY <1>3, <1>4, <2>1
    <2> QED BY <1>3, <1>4, <2>2, AboveParent
  <1>5. FingersLowest'
    <2> SUFFICES ASSUME NEW c \in Blocks, NEW d \in Blocks, pos[c] = cur, AboveSeen(d, c)
                 PROVE  Above(idoms, d, b1') /\ Above(idoms, d, b2')
      BY <1>1 DEF FingersLowest, AboveSeen
    <2>1. Above(idoms, d, b1) /\ Above(idoms, d, b2)
      BY <1>1, <1>2 DEF FingersLowest
    <2>2. CASE pos[b1] < pos[b2] /\ b1' = idoms[b1] /\ b2' = b2
      BY <1>2, <1>4, <2>1, <2>2
    <2>3. CASE pos[b2] < pos[b1] /\ b2' = idoms[b2] /\ b1' = b1
      BY <1>2, <1>4, <2>1, <2>3
    <2> QED BY <2>2, <2>3 DEF Walk
  <1> QED BY <1>1, <1>5, FingerStep

\* A sweep begins with all entries on the chains of the later predecessors,
\* the first one with no entry but the root.
LEMMA SweepBegins ==
  ASSUME IInv, CInv, PlaceRPO \/ EndSweep
  PROVE  CInv'
  <1> SUFFICES ASSUME phase' = "sweep" PROVE CInv'
    BY DEF CInv
  <1>1. CASE PlaceRPO
    <2>1. /\ Types /\ Searching /\ idoms' = [idoms EXCEPT ![Entry] = Entry] /\ b2' = b2
      BY <1>1 DEF IInv, PlaceRPO
    <2>2. \A c \in Blocks \ {Entry} : idoms'[c] = Null
      BY <2>1 DEF Types, Searching
    <2>3. b2' = Null
      BY <2>1 DEF Searching
    <2>4. Follows'
      BY <2>2 DEF Follows
    <2>5. Lowest' /\ FingersLowest'
      BY <2>2, <2>3 DEF Lowest, FingersLowest
    <2> QED BY <2>4, <2>5 DEF CInv
  <1>2. CASE EndSweep
    <2>1. /\ Types /\ Climbing /\ Fingers /\ Follows /\ Lowest /\ cur = 0
          /\ UNCHANGED <<succ, pos, idoms, b2>>
      BY <1>2 DEF IInv, CInv, EndSweep
    <2>2. b2' = Null
      BY <2>1 DEF Fingers
    <2>3. \A c \in Blocks : idoms[c] # Null => pos[c] > cur
      BY <2>1 DEF Types, Climbing
    <2>4. Follows'
      BY <2>1, <2>3 DEF Follows
    <2>5. Lowest' /\ FingersLowest'
      BY <2>1, <2>2 DEF Lowest, AboveAll, FingersLowest
    <2> QED BY <2>4, <2>5 DEF CInv
  <1> QED BY <1>1, <1>2

\* Every step of analyze keeps the third invariant.
LEMMA NextClimbs ==
  ASSUME IInv, EInv, CInv, [DomNext]_domVars
  PROVE  CInv'
  <1>1. CASE UNCHANGED domVars
    <2>1. UNCHANGED <<succ, phase, pos, idoms, cur, left, b1, b2>>
      BY <1>1 DEF domVars, rpoVars, sweepVars
    <2>2. phase = "sweep" => FingersLowest'
      BY <2>1 DEF CInv, FingersLowest, AboveSeen
    <2>3. phase = "sweep" => CInv'
      BY <2>1, <2>2, FingerStep
    <2> QED BY <2>1, <2>3 DEF CInv
  <1>2. ASSUME NEW b \in Blocks, VisitRPO(b) \/ NumberChild(b) PROVE CInv'
    BY <1>2 DEF CInv, VisitRPO, NumberChild
  <1>3. ASSUME NEW b \in Blocks, SkipBlock(b) PROVE CInv'
    BY <1>3, SkipClimbs
  <1>4. ASSUME NEW b \in Blocks, NEW p \in Blocks, BeginBlock(b, p) PROVE CInv'
    BY <1>4, BeginClimbs
  <1>5. ASSUME NEW b \in Blocks, NextPred(b) PROVE CInv'
    BY <1>5, NextPredClimbs
  <1>6. ASSUME NEW b \in Blocks, AssignBlock(b) PROVE CInv'
    BY <1>6, AssignClimbs
  <1>7. CASE PlaceRPO \/ EndSweep
    BY <1>7, SweepBegins
  <1>8. CASE Walk
    BY <1>8, WalkClimbs
  <1>9. CASE NumberDone
    BY <1>9 DEF CInv, NumberDone, Return
  <1> QED
    BY <1>1, <1>2, <1>3, <1>4, <1>5, <1>6, <1>7, <1>8, <1>9 DEF DomNext

\* On every control flow graph an entry of the table never goes back to a
\* block placed earlier, and every change moves one: the sweeps that analyze
\* repeats while something changes come to an end.
THEOREM SweepsClimb == DomSpec => EntriesClimb
  <1> DEFINE A == phase = "sweep" => \A b \in Blocks : idoms[b] # Null =>
                    /\ idoms'[b] \in Blocks
                    /\ idoms'[b] # idoms[b] => pos[idoms'[b]] > pos[idoms[b]]
  <1>1. ASSUME IInv, EInv, CInv, [DomNext]_domVars PROVE [A]_domVars
    <2> SUFFICES ASSUME DomNext, phase = "sweep", NEW b \in Blocks, idoms[b] # Null
                 PROVE  /\ idoms'[b] \in Blocks
                        /\ idoms'[b] # idoms[b] => pos[idoms'[b]] > pos[idoms[b]]
      BY <1>1
    <2>1. Types /\ Climbing /\ Injective
      BY <1>1 DEF IInv
    <2>2. CASE idoms' = idoms
      BY <2>1, <2>2 DEF Types
    <2>3. ASSUME NEW c \in Blocks, AssignBlock(c)
          PROVE  /\ idoms'[b] \in Blocks
                 /\ idoms'[b] # idoms[b] => pos[idoms'[b]] > pos[idoms[b]]
      <3>1. Reassigned(c, b2) /\ (idoms[c] # Null => Above(idoms, b2, idoms[c]))
        BY <1>1, <2>3, AssignedAbove
      <3>2. idoms' = [idoms EXCEPT ![c] = b2] /\ idoms \in Table /\ pos \in [Blocks -> Nat]
        BY <2>1, <2>3 DEF AssignBlock, Types, Table
      <3>3. CASE b # c
        BY <3>2, <3>3 DEF Table
      <3>4. CASE b = c
        <4>1. idoms'[b] = b2 /\ b2 \in Blocks /\ idoms[b2] # Null /\ idoms[b] \in Blocks
          BY <3>1, <3>2, <3>4 DEF Reassigned, Table
        <4>2. pos[b2] >= pos[idoms[b]]
          BY <2>1, <3>1, <3>4, <4>1, TableUpward, AboveLater
        <4>3. b2 # idoms[b] => pos[b2] # pos[idoms[b]]
          BY <2>1, <4>1 DEF Injective, Climbing
        <4> QED BY <3>2, <4>1, <4>2, <4>3
      <3> QED BY <3>3, <3>4
    <2>4. idoms' = idoms \/ \E c \in Blocks : AssignBlock(c)
      BY DEF DomNext, VisitRPO, SkipBlock, BeginBlock, NextPred, NumberChild, PlaceRPO, Walk,
             EndSweep, NumberDone, sweepVars
    <2> QED BY <2>2, <2>3, <2>4
  <1>2. DomInit => EInv /\ CInv
    BY ExactInit DEF DomInit, CInv
  <1>3. IInv /\ EInv /\ CInv /\ [DomNext]_domVars => EInv' /\ CInv'
    BY NextExact, NextClimbs
  <1> HIDE DEF A
  <1>4. IInv /\ EInv /\ CInv /\ [DomNext]_domVars => [A]_domVars
    BY <1>1
  <1>5. DomSpec => [][A]_domVars
    BY <1>2, <1>3, <1>4, InvariantHolds, PTL DEF DomSpec
  <1> QED BY <1>5 DEF EntriesClimb, A

-----------------------------------------------------------------------------
(* Promotion to registers.                                                 *)

\* The value at the end of a block: what it stores, or what it loaded.
AtEnd(b) == IF b \in stores THEN StoreVal(b) ELSE loads[b]

PassTypes ==
  /\ stage \in {"scan", "phis", "rename", "run"}
  /\ home \in Blocks \union {Null}
  /\ stores \in SUBSET Blocks /\ work \in SUBSET Blocks /\ hasPhi \in SUBSET Blocks
  /\ path \in Seq(Blocks) /\ renamed \in SUBSET Blocks /\ values \in Seq(Values)
  /\ loads \in [Blocks -> Values]
  /\ incoming \in [Blocks -> [Blocks -> Values \union {NoEntry}]]
  /\ at \in Blocks \union {Null} /\ mem \in Blocks \union {Undef}
  /\ phiReg \in [Blocks -> Int]

\* The pass asks for a finished tree, and the analysis is at its end.
Tree ==
  /\ phase = "used"
  /\ succ \in Graph /\ idoms \in Table
  /\ Rooted /\ ExactTable

\* The frontier of a recorded definition that the worklist is done with has
\* phis.
Placed == \A x \in (Recorded \union hasPhi) \ work : Frontier(x) \subseteq hasPhi

\* What renameDFS has done to the blocks it has entered: a load without a phi
\* got the value at the end of the immediate dominator, a phi the one at the
\* end of each predecessor.
Replaced ==
  /\ Entry \in renamed
  /\ \A b \in renamed :
       /\ idoms[b] \in renamed
       /\ loads[b] = IF b \in hasPhi THEN PhiVal(b)
                     ELSE IF b = Entry THEN Undef ELSE AtEnd(idoms[b])
       /\ \A y \in succ[b] \cap hasPhi : incoming[y][b] = AtEnd(b)

\* Its recursion is a path down the tree, and each call finds its value where
\* the calls above it left off.
Levels(d) ==
  /\ d[0] = 0 /\ d[Len(path)] = Len(values)
  /\ \A i, j \in 0..Len(path) : i <= j => d[i] <= d[j]
  /\ \A i \in 1..Len(path) :
       /\ d[i] = d[i - 1] + Pushed(path[i])
       /\ AtEnd(path[i]) = IF d[i] = 0 THEN Undef ELSE values[d[i]]
Walking ==
  /\ Len(path) >= 1 /\ path[1] = Entry
  /\ \A i \in 1..Len(path) : path[i] \in renamed
  /\ \A i \in 2..Len(path) : idoms[path[i]] = path[i - 1]
  /\ \A b \in renamed : Children(b) \subseteq renamed \/ \E i \in 1..Len(path) : path[i] = b
  /\ \E d \in [0..Len(path) -> 0..Len(values)] : Levels(d)

\* While the two functions run, the promoted load agrees with the memory as
\* long as that holds the value of a recorded store.
Agrees ==
  mem \in Recorded /\ at \notin Avoid(succ, home) => Holds(loads[at]) = mem
Running ==
  /\ Avoid(succ, Null) \subseteq renamed
  /\ at \in Avoid(succ, Null)
  /\ Agrees

PassInv ==
  /\ PassTypes
  /\ stage = "scan" => IInv /\ EInv /\ path = <<>> /\ values = <<>> /\ hasPhi = {} /\ renamed = {}
  /\ stage # "scan" => Tree /\ Placed
  /\ stage = "phis" => path = <<>> /\ values = <<>> /\ renamed = {}
  /\ stage \in {"rename", "run"} => work = {} /\ Replaced
  /\ stage = "rename" => Walking
  /\ stage = "run" => Running
  /\ stage # "run" => mem = Undef

-----------------------------------------------------------------------------
(* Climbing from a predecessor.                                            *)

\* The runner of computeDominanceFrontiers, and its first m steps from p.
RunnerStep(d, x) == IF x \in {Null, d} THEN x ELSE idoms[x]
Climb(p, d, m, R) ==
  [n \in 0..m |-> IF n = 0 THEN p
                  ELSE IF R[n - 1] \in {Null, d} THEN R[n - 1] ELSE idoms[R[n - 1]]]

\* The recursive function of Runners exists.
LEMMA ClimbExists ==
  ASSUME NEW p, NEW d, NEW m \in Nat
  PROVE  \E R : R = Climb(p, d, m, R)
  <1> DEFINE Bad == {k \in Nat : ~ \E R : R = Climb(p, d, k, R)}
  <1>1. SUFFICES ASSUME Bad # {} PROVE FALSE
    OBVIOUS
  <1>2. PICK k \in Bad : \A j \in Bad : k <= j
    BY <1>1, Least
  <1>3. CASE k = 0
    <2> DEFINE R == [n \in 0..0 |-> p]
    <2>1. R = Climb(p, d, 0, R)
      BY DEF Climb
    <2> QED BY <1>2, <1>3, <2>1
  <1>4. CASE k # 0
    <2>1. k - 1 \in Nat /\ k - 1 \notin Bad
      BY <1>2, <1>4
    <2>2. PICK R : R = Climb(p, d, k - 1, R)
      BY <2>1
    <2> DEFINE Row(n) == IF n = 0 THEN p ELSE RunnerStep(d, R[n - 1])
               h == [n \in 0..k |-> Row(n)]
    <2>3. \A n \in 0..(k - 1) : R[n] = Row(n)
      BY <2>2 DEF Climb, RunnerStep
    <2>4. \A n \in 0..(k - 1) : h[n] = R[n]
      <3>1. \A n \in 0..(k - 1) : n \in 0..k
        BY <1>2
      <3>2. \A n \in 0..k : h[n] = Row(n)
        OBVIOUS
      <3> HIDE DEF h, Row
      <3> QED BY <2>3, <3>1, <3>2, Zenon
    <2>5. ASSUME NEW n \in 0..k
          PROVE  h[n] = Climb(p, d, k, h)[n]
      <3>1. CASE n = 0
        BY <3>1 DEF Climb
      <3>2. CASE n # 0
        <4>1. n - 1 \in 0..(k - 1)
          BY <3>2
        <4>2. h[n - 1] = R[n - 1]
          BY <2>4, <4>1
        <4>3. h[n] = RunnerStep(d, R[n - 1])
          BY <3>2
        <4>4. Climb(p, d, k, h)[n] = RunnerStep(d, h[n - 1])
          BY <3>2 DEF Climb, RunnerStep
        <4> QED BY <4>2, <4>3, <4>4
      <3> QED BY <3>1, <3>2
    <2>6. h = Climb(p, d, k, h)
      BY <2>5 DEF Climb
    <2> QED BY <1>2, <2>6
  <1> QED BY <1>3, <1>4

\* The runner starts at p and goes step by step; it stands on the Runners.
LEMMA RunnerSteps ==
  ASSUME NEW p, NEW b
  PROVE  \E R : /\ Runners(p, b) = {R[n] : n \in 0..NumBlocks} \ {Null, idoms[b]}
                /\ R[0] = p
                /\ \A n \in 1..NumBlocks : R[n] = RunnerStep(idoms[b], R[n - 1])
  <1> DEFINE R == CHOOSE f : f = Climb(p, idoms[b], NumBlocks, f)
  <1>1. Runners(p, b) = {R[n] : n \in 0..NumBlocks} \ {Null, idoms[b]}
    BY DEF Runners, Climb
  <1>2. R = Climb(p, idoms[b], NumBlocks, R)
    <2>1. \E f : f = Climb(p, idoms[b], NumBlocks, f)
      BY NumBlocksAssumption, ClimbExists
    <2> QED BY <2>1, Zenon
  <1> HIDE DEF R
  <1>3. \A n \in 0..NumBlocks : R[n] = Climb(p, idoms[b], NumBlocks, R)[n]
    BY <1>2
  <1>4. R[0] = p
    <2>1. 0 \in 0..NumBlocks
      BY NumBlocksAssumption
    <2>2. Climb(p, idoms[b], NumBlocks, R)[0] = p
      BY <2>1 DEF Climb
    <2> QED BY <1>3, <2>1, <2>2
  <1>5. ASSUME NEW n \in 1..NumBlocks
        PROVE  R[n] = RunnerStep(idoms[b], R[n - 1])
    <2>1. n \in 0..NumBlocks /\ n # 0
      BY NumBlocksAssumption
    <2>2. Climb(p, idoms[b], NumBlocks, R)[n] = RunnerStep(idoms[b], R[n - 1])
      BY <2>1 DEF Climb, RunnerStep
    <2> QED BY <1>3, <2>1, <2>2
  <1> QED BY <1>1, <1>4, <1>5

\* The reachable blocks are those the tree has.
LEMMA InTree ==
  ASSUME Tree, NEW b \in Blocks
  PROVE  b \in Avoid(succ, Null) <=> idoms[b] # Null
  <1>1. Entry \in Avoid(succ, Null) /\ idoms[Entry] # Null
    BY AvoidWithin, EntryIsBlock DEF Tree, Rooted
  <1>2. b # Entry => (b \in Avoid(succ, Null) <=> idoms[b] # Null)
    BY EntryIsBlock DEF Tree, ExactTable
  <1> QED BY <1>1, <1>2

\* An edge into a block comes from below its immediate dominator.
LEMMA EdgeBelow ==
  ASSUME Tree, NEW p \in Avoid(succ, Null), NEW t \in succ[p]
  PROVE  /\ p \in Blocks /\ t \in Blocks \ {Entry} /\ t \in Avoid(succ, Null)
         /\ idoms[p] # Null /\ idoms[t] \in Blocks
         /\ Above(idoms, idoms[t], p)
  <1>1. succ \in Graph /\ idoms \in Table /\ Rooted /\ ExactTable
    BY DEF Tree
  <1>2. p \in Blocks /\ t \in Blocks \ {Entry}
    BY <1>1, AvoidWithin DEF Graph
  <1>3. t \in Avoid(succ, Null)
    BY <1>1, <1>2, AvoidWithin, EntryIsBlock DEF Within
  <1>4. idoms[p] # Null /\ idoms[t] # Null
    BY <1>2, <1>3, InTree
  <1>5. idoms[t] \in Blocks \ {t} /\ t \notin Avoid(succ, idoms[t])
    BY <1>1, <1>2, <1>3 DEF ExactTable
  <1>6. p \notin Avoid(succ, idoms[t])
    BY <1>1, <1>2, <1>5, DominatorOfSuccessor
  <1>7. Above(idoms, idoms[t], p)
    BY <1>1, <1>2, <1>4, <1>5, <1>6, ChainIsDominators
  <1> QED BY <1>2, <1>3, <1>4, <1>5, <1>7

\* Two blocks that dominate each other are one.
LEMMA DominanceAntisymmetric ==
  ASSUME NEW g \in Graph, NEW x \in Avoid(g, Null), NEW y \in Blocks,
         x \notin Avoid(g, y), y \notin Avoid(g, x)
  PROVE  x = y
  <1> SUFFICES ASSUME x # y PROVE FALSE
    OBVIOUS
  <1> DEFINE S == Avoid(g, x) \intersect Avoid(g, y)
  <1>1. x \in Blocks /\ x # Null /\ y # Null
    BY AvoidWithin, EntryIsBlock
  <1>2. x # Entry /\ y # Entry
    BY AvoidWithin
  <1>3. Entry \in S
    BY <1>2, AvoidWithin
  <1>4. Within(g, x, Avoid(g, x)) /\ Within(g, y, Avoid(g, y))
    BY AvoidWithin
  <1>5. Within(g, Null, S)
    <2> SUFFICES ASSUME NEW b \in S, NEW c \in g[b] PROVE c \in S
      BY DEF Within
    <2>1. c # x
      BY <1>4 DEF Within
    <2>2. c # y
      BY <1>4 DEF Within
    <2> QED BY <1>4, <2>1, <2>2 DEF Within
  <1>6. Avoid(g, Null) \subseteq S
    BY <1>3, <1>5, AvoidLeast
  <1> QED BY <1>6, AvoidWithin

\* The only predecessor of a block is its immediate dominator.
LEMMA OnlyPredecessor ==
  ASSUME Tree, NEW p \in Avoid(succ, Null), NEW t \in succ[p], ~(Cardinality(Preds(t)) >= 2)
  PROVE  p = idoms[t]
  <1>1. /\ succ \in Graph /\ idoms \in Table /\ Rooted /\ ExactTable
        /\ p \in Blocks /\ t \in Blocks \ {Entry} /\ t \in Avoid(succ, Null)
        /\ idoms[p] # Null /\ idoms[t] \in Blocks /\ Above(idoms, idoms[t], p)
    BY EdgeBelow DEF Tree
  <1>2. Preds(t) = {p}
    <2> SUFFICES ASSUME NEW q \in Preds(t), q # p PROVE FALSE
      BY <1>1 DEF Preds
    <2>1. IsFiniteSet(Preds(t)) /\ Cardinality(Preds(t)) \in Nat
      <3>1. IsFiniteSet(Blocks)
        BY FS_Interval, NumBlocksAssumption DEF Blocks
      <3>2. Preds(t) \subseteq Blocks
        BY DEF Preds
      <3> QED BY <3>1, <3>2, FS_Subset, FS_CardinalityType
    <2>2. {p, q} \subseteq Preds(t)
      BY <1>1 DEF Preds
    <2>3. Cardinality({p, q}) = 2
      <3>1. Cardinality({p}) = 1 /\ IsFiniteSet({p})
        BY FS_Singleton
      <3>2. Cardinality({p} \union {q}) = Cardinality({p}) + 1
        BY <3>1, FS_AddElement
      <3>3. {p} \union {q} = {p, q}
        OBVIOUS
      <3> QED BY <3>1, <3>2, <3>3
    <2>4. Cardinality({p, q}) <= Cardinality(Preds(t))
      BY <2>1, <2>2, FS_Subset
    <2> QED BY <2>1, <2>3, <2>4
  <1>3. \A b \in Blocks : t \in succ[b] => b = p
    BY <1>2 DEF Preds
  <1>4. p # t
    <2> SUFFICES ASSUME p = t PROVE FALSE
      OBVIOUS
    <2> DEFINE S == Avoid(succ, Null) \ {t}
    <2>1. Entry \in S
      BY <1>1, AvoidWithin, EntryIsBlock
    <2>2. Within(succ, Null, S)
      <3> SUFFICES ASSUME NEW b \in S, NEW c \in succ[b], c # Null PROVE c \in S
        BY DEF Within
      <3>1. b \in Blocks
        BY <1>1, AvoidWithin
      <3>2. c # t
        BY <1>3, <3>1
      <3> QED BY <1>1, <3>2, AvoidWithin DEF Within
    <2>3. Avoid(succ, Null) \subseteq S
      BY <2>1, <2>2, AvoidLeast
    <2> QED BY <1>1, <2>3
  <1>5. t \notin Avoid(succ, p)
    <2> DEFINE S == Avoid(succ, p) \ {t}
    <2>1. {Entry} \ {p} \subseteq S
      BY <1>1, AvoidWithin
    <2>2. Within(succ, p, S)
      <3> SUFFICES ASSUME NEW b \in S, NEW c \in succ[b], c # p PROVE c \in S
        BY DEF Within
      <3>1. b \in Blocks /\ b # p
        BY <1>1, AvoidWithin
      <3>2. c # t
        BY <1>3, <3>1
      <3> QED BY <1>1, <3>2, AvoidWithin DEF Within
    <2>3. Avoid(succ, p) \subseteq S
      BY <2>1, <2>2, AvoidLeast
    <2> QED BY <2>3
  <1>6. idoms[t] \notin Avoid(succ, p)
    BY <1>1, <1>4, <1>5 DEF ExactTable, KeepsDominators
  <1>7. p \notin Avoid(succ, idoms[t])
    BY <1>1, ChainIsDominators
  <1> QED BY <1>1, <1>6, <1>7, DominanceAntisymmetric

\* The runner never leaves the chain of p and comes to the immediate dominator.
LEMMA RunnerArrives ==
  ASSUME Tree, NEW p \in Blocks, NEW d \in Blocks, Above(idoms, d, p),
         NEW R, R[0] = p, \A n \in 1..NumBlocks : R[n] = RunnerStep(d, R[n - 1])
  PROVE  /\ \A n \in 0..NumBlocks : R[n] \in Blocks /\ Above(idoms, d, R[n])
         /\ \E n \in 0..NumBlocks : R[n] = d
  <1>0. idoms \in Table /\ NumBlocks \in Nat \ {0}
    BY NumBlocksAssumption DEF Tree
  <1> DEFINE Good(n) == R[n] \in Blocks /\ Above(idoms, d, R[n])
             Bad == {n \in Nat : n <= NumBlocks /\ ~Good(n)}
  <1>1. ASSUME Bad # {} PROVE FALSE
    <2>1. PICK n \in Bad : \A j \in Bad : n <= j
      BY <1>1, Least
    <2>2. n # 0
      BY <2>1
    <2>3. n \in 1..NumBlocks /\ n - 1 \in Nat /\ n - 1 <= NumBlocks /\ n - 1 \notin Bad
      BY <1>0, <2>1, <2>2
    <2>4. Good(n - 1)
      BY <2>3
    <2>5. R[n] = RunnerStep(d, R[n - 1])
      BY <2>3
    <2>6. CASE R[n - 1] = d
      <3>1. R[n] = R[n - 1]
        BY <2>5, <2>6 DEF RunnerStep
      <3> QED BY <2>1, <2>4, <3>1
    <2>7. CASE R[n - 1] # d
      <3>1. R[n] = idoms[R[n - 1]]
        BY <2>4, <2>5, <2>7, EntryIsBlock DEF RunnerStep
      <3>2. idoms[R[n - 1]] # Null /\ Above(idoms, d, idoms[R[n - 1]])
        BY <1>0, <2>4, <2>7, AboveParent
      <3>3. idoms[R[n - 1]] \in Blocks
        BY <1>0, <2>4, <3>2 DEF Table
      <3> QED BY <2>1, <3>1, <3>2, <3>3
    <2> QED BY <2>6, <2>7
  <1>2. \A n \in 0..NumBlocks : Good(n)
    BY <1>0, <1>1
  <1>3. ASSUME \A n \in 0..NumBlocks : R[n] # d PROVE FALSE
    <2> DEFINE f == [n \in 0..NumBlocks |-> R[n]]
    <2>1. f \in [0..NumBlocks -> Blocks]
      BY <1>2
    <2>2. /\ IsFiniteSet(0..NumBlocks) /\ Cardinality(0..NumBlocks) = NumBlocks + 1
          /\ IsFiniteSet(Blocks) /\ Cardinality(Blocks) = NumBlocks
      <3>1. 0 \in Int /\ 1 \in Int /\ NumBlocks \in Int
        BY <1>0
      <3>2. IsFiniteSet(0..NumBlocks) /\ Cardinality(0..NumBlocks) = NumBlocks + 1
        BY <1>0, <3>1, FS_Interval
      <3>3. IsFiniteSet(Blocks) /\ Cardinality(Blocks) = NumBlocks
        <4>1. /\ IsFiniteSet(1..NumBlocks)
              /\ Cardinality(1..NumBlocks) = IF 1 > NumBlocks THEN 0 ELSE NumBlocks - 1 + 1
          BY <3>1, FS_Interval, Zenon
        <4> QED BY <1>0, <4>1 DEF Blocks
      <3> QED BY <3>2, <3>3
    <2>3. \E i, j \in 0..NumBlocks : i # j /\ f[i] = f[j]
      <3>1. Cardinality(Blocks) < Cardinality(0..NumBlocks)
        BY <1>0, <2>2
      <3> DEFINE D == 0..NumBlocks
      <3>2. IsFiniteSet(D) /\ IsFiniteSet(Blocks) /\ Cardinality(Blocks) < Cardinality(D) /\ f \in [D -> Blocks]
        BY <2>1, <2>2, <3>1
      <3> HIDE DEF f, D
      <3>3. \E i, j \in D : i # j /\ f[i] = f[j]
        BY <3>2, FS_PigeonHole, SMTT(60)
      <3> QED BY <3>3 DEF D
    <2>4. PICK i \in 0..NumBlocks, j \in 0..NumBlocks : i < j /\ R[i] = R[j]
      BY <1>0, <2>3
    <2> DEFINE V == {R[n] : n \in 0..(j - 1)}
    <2>5. V \in SUBSET Blocks
      BY <1>0, <1>2
    <2>6. p \in V
      BY <2>4
    <2>7. ASSUME NEW z \in V PROVE idoms[z] \in V
      <3>1. PICK n \in 0..(j - 1) : z = R[n]
        OBVIOUS
      <3>2. n + 1 \in 1..NumBlocks /\ (n + 1) - 1 = n
        BY <1>0, <3>1
      <3>3. R[n + 1] = idoms[z]
        BY <1>2, <1>3, <3>1, <3>2, EntryIsBlock DEF RunnerStep
      <3>4. CASE n + 1 = j
        BY <2>4, <3>3, <3>4
      <3>5. CASE n + 1 # j
        BY <3>1, <3>3, <3>5
      <3> QED BY <3>4, <3>5
    <2>8. Climbs(idoms, V)
      BY <2>7 DEF Climbs
    <2>9. d \in V
      BY <2>5, <2>6, <2>8, AboveWithin
    <2> QED BY <1>0, <1>3, <2>9
  <1> QED BY <1>2, <1>3

\* A block without a phi is entered from every side with the value at the end
\* of its immediate dominator, or with that of a store that was not recorded:
\* no runner has met a definition that was.
LEMMA SameFromEverySide ==
  ASSUME Tree, Placed, work = {}, Replaced, Avoid(succ, Null) \subseteq renamed,
         NEW p \in Avoid(succ, Null), NEW t \in succ[p], t \notin hasPhi
  PROVE  AtEnd(p) = AtEnd(idoms[t]) \/ AtEnd(p) \in stores \ Recorded
  <1>1. CASE ~(Cardinality(Preds(t)) >= 2)
    <2>1. p = idoms[t]
      BY <1>1, OnlyPredecessor
    <2> QED BY <2>1
  <1>2. CASE Cardinality(Preds(t)) >= 2
    <2> DEFINE d == idoms[t]
    <2>1. /\ idoms \in Table /\ Rooted /\ NumBlocks \in Nat \ {0}
          /\ p \in Blocks /\ t \in Blocks /\ d \in Blocks /\ Above(idoms, d, p)
      BY EdgeBelow, NumBlocksAssumption DEF Tree
    <2>2. PICK R : /\ Runners(p, t) = {R[n] : n \in 0..NumBlocks} \ {Null, d}
                   /\ R[0] = p
                   /\ \A n \in 1..NumBlocks : R[n] = RunnerStep(d, R[n - 1])
      BY RunnerSteps
    <2> HIDE DEF d
    <2>3. /\ \A n \in 0..NumBlocks : R[n] \in Blocks /\ Above(idoms, d, R[n])
          /\ \E n \in 0..NumBlocks : R[n] = d
      BY <2>1, <2>2, RunnerArrives
    <2>4. ASSUME NEW n \in 0..NumBlocks, R[n] # d
          PROVE  AtEnd(R[n]) = AtEnd(idoms[R[n]]) \/ AtEnd(R[n]) \in stores \ Recorded
      <3> DEFINE z == R[n]
      <3>1. z \in Blocks /\ z # Null /\ Above(idoms, d, z)
        BY <2>3, EntryIsBlock
      <3>2. z \in Runners(p, t)
        BY <2>2, <2>4, <3>1
      <3>3. t \in Frontier(z)
        BY <1>2, <2>1, <3>2 DEF Frontier, Preds
      <3> HIDE DEF z
      <3>4. z \notin Recorded /\ z \notin hasPhi
        BY <3>3 DEF Placed
      <3>5. idoms[z] # Null
        BY <2>1, <2>4, <3>1, AboveParent DEF z
      <3>6. z \in renamed
        BY <3>1, <3>5, InTree
      <3>7. z # Entry
        BY <2>1, <2>4, <3>1, AboveRoot DEF z, Rooted
      <3>8. AtEnd(z) = AtEnd(idoms[z]) \/ AtEnd(z) \in stores \ Recorded
        BY <3>4, <3>6, <3>7 DEF Replaced, AtEnd, StoreVal
      <3> QED BY <3>8 DEF z
    <2> DEFINE Bad == {n \in Nat : n <= NumBlocks /\ AtEnd(R[n]) # AtEnd(p)}
    <2> SUFFICES ASSUME AtEnd(p) \notin stores \ Recorded
                 PROVE  AtEnd(p) = AtEnd(d)
      BY DEF d
    <2>5. ASSUME Bad # {} PROVE FALSE
      <3>1. PICK n \in Bad : \A j \in Bad : n <= j
        BY <2>5, Least
      <3>2. n # 0
        BY <2>2, <3>1
      <3>3. /\ n \in 1..NumBlocks /\ n - 1 \in 0..NumBlocks /\ n - 1 \in Nat
            /\ n - 1 <= NumBlocks /\ n - 1 \notin Bad
        BY <2>1, <3>1, <3>2
      <3>4. AtEnd(R[n - 1]) = AtEnd(p) /\ R[n] = RunnerStep(d, R[n - 1])
        BY <2>2, <3>3
      <3>5. CASE R[n - 1] = d
        <4>1. R[n] = R[n - 1]
          BY <3>4, <3>5 DEF RunnerStep
        <4> QED BY <3>1, <3>4, <4>1
      <3>6. CASE R[n - 1] # d
        <4>1. R[n] = idoms[R[n - 1]]
          BY <2>3, <3>3, <3>4, <3>6, EntryIsBlock DEF RunnerStep
        <4>2. AtEnd(R[n - 1]) = AtEnd(idoms[R[n - 1]])
          BY <2>4, <3>3, <3>6
        <4> QED BY <3>1, <3>4, <4>1, <4>2
      <3> QED BY <3>5, <3>6
    <2>6. \A n \in 0..NumBlocks : AtEnd(R[n]) = AtEnd(p)
      BY <2>1, <2>5
    <2> QED BY <2>3, <2>6
  <1> QED BY <1>1, <1>2

-----------------------------------------------------------------------------
(* The steps of the pass.                                                  *)

\* Before the pass.
LEMMA PassInit == Init => PassInv
  <1> SUFFICES ASSUME Init PROVE PassInv
    OBVIOUS
  <1>1. IInv /\ EInv
    BY InitHolds, ExactInit DEF Init
  <1>2. PassTypes
    BY NumBlocksAssumption DEF Init, PassTypes, Undef, Values, Null
  <1> QED BY <1>1, <1>2 DEF Init, PassInv

\* The analysis.
LEMMA AnalyzeKeeps ==
  ASSUME PassInv, Analyze
  PROVE  PassInv'
  <1>1. stage = "scan"
    <2>1. phase # "used"
      BY DEF Analyze, DomNext, VisitRPO, SkipBlock, BeginBlock, NextPred, AssignBlock,
             NumberChild, PlaceRPO, Walk, EndSweep, NumberDone
    <2> QED BY <2>1 DEF PassInv, Tree
  <1>2. IInv' /\ EInv'
    BY <1>1, NextKeeps, NextExact DEF PassInv, Analyze
  <1>3. UNCHANGED <<stage, home, stores, passVars, runVars>>
    BY DEF Analyze
  <1>4. PassTypes'
    BY <1>3 DEF PassInv, PassTypes, passVars, runVars
  <1> QED BY <1>1, <1>2, <1>3, <1>4 DEF PassInv, passVars, runVars

\* The scan for the stores.
LEMMA ScanKeeps ==
  ASSUME PassInv, Scan
  PROVE  PassInv'
  <1>1. stage = "scan" /\ phase = "done" /\ IInv /\ EInv /\ PassTypes /\ hasPhi = {}
    BY DEF PassInv, Scan
  <1>2. PICK in \in Inputs : home' = in[1] /\ stores' = in[2] /\ work' = {b \in in[2] : b >= in[1]}
    BY DEF Scan
  <1>3. home' \in Blocks /\ stores' \in SUBSET Blocks
    BY <1>2 DEF Inputs
  <1>4. work' = Recorded' /\ work' \in SUBSET Blocks
    BY <1>2, <1>3 DEF Blocks, Recorded
  <1>5. UNCHANGED <<succ, idoms, hasPhi, path, renamed, values, loads, incoming, at, mem, phiReg>>
    BY DEF Scan, rpoVars, sweepVars, runVars
  <1>6. stage' = "phis" /\ phase' = "used"
    BY DEF Scan
  <1>7. PassTypes'
    BY <1>1, <1>3, <1>4, <1>5, <1>6 DEF PassTypes
  <1>8. Tree'
    <2>1. Rooted /\ ExactTable /\ succ \in Graph /\ idoms \in Table
      BY <1>1 DEF IInv, EInv, Types, Graph, Table
    <2> QED BY <2>1, <1>5, <1>6 DEF Tree, Rooted, ExactTable, KeepsDominators
  <1>9. Placed'
    BY <1>1, <1>3, <1>4, <1>5 DEF Placed
  <1> QED BY <1>1, <1>5, <1>6, <1>7, <1>8, <1>9 DEF PassInv

\* What the pass does not touch stays as it is.
LEMMA TreeStays ==
  ASSUME Tree, UNCHANGED domVars
  PROVE  Tree' /\ \A x : Frontier(x)' = Frontier(x)
  <1>1. UNCHANGED <<succ, phase, idoms>>
    BY DEF domVars, sweepVars
  <1>2. Tree'
    BY <1>1 DEF Tree, Rooted, ExactTable, KeepsDominators
  <1>3. \A x : Frontier(x)' = Frontier(x)
    BY <1>1 DEF Frontier, Runners, Preds
  <1> QED BY <1>2, <1>3

\* A round of the worklist: a block that gets a phi is looked at again unless
\* it was in the list from the start.
LEMMA PlaceKeepsFrontiers ==
  ASSUME PassInv, NEW x \in Blocks, PlacePhis(x)
  PROVE  PassInv'
  <1>1. stage = "phis" /\ x \in work /\ PassTypes /\ Tree /\ Placed /\ UNCHANGED domVars
    BY DEF PassInv, PlacePhis
  <1> DEFINE new == Frontier(x) \ hasPhi
  <1>2. /\ hasPhi' = hasPhi \union new
        /\ work' = (work \ {x}) \union {y \in new : y \notin stores \/ y < home}
        /\ UNCHANGED <<stage, home, stores, path, renamed, values, loads, incoming, at, mem, phiReg>>
    BY DEF PlacePhis, runVars
  <1>3. new \in SUBSET Blocks
    BY DEF Frontier
  <1>4. PassTypes'
    BY <1>1, <1>2, <1>3 DEF PassTypes
  <1>5. Tree' /\ \A z : Frontier(z)' = Frontier(z)
    BY <1>1, TreeStays
  <1>6. ASSUME NEW z \in (Recorded \union hasPhi') \ work' PROVE Frontier(z) \subseteq hasPhi'
    <2>1. z = x \/ z \notin work
      BY <1>2, <1>6
    <2>2. CASE z = x
      BY <1>2, <2>2
    <2>3. CASE z # x
      <3>1. z \notin work
        BY <2>1, <2>3
      <3>2. z \in Recorded \union hasPhi
        BY <1>1, <1>2, <1>3, <1>6 DEF Recorded, PassTypes, Blocks, Null
      <3> QED BY <1>1, <1>2, <3>1, <3>2 DEF Placed
    <2> QED BY <2>2, <2>3
  <1>7. Placed'
    <2>1. Recorded' = Recorded
      BY <1>2 DEF Recorded
    <2> QED BY <1>5, <1>6, <2>1 DEF Placed
  <1> QED BY <1>1, <1>2, <1>4, <1>5, <1>7 DEF PassInv

\* What a call pushes.
LEMMA PushedIs ==
  ASSUME NEW b
  PROVE  Pushed(b) = (IF b \in hasPhi THEN 1 ELSE 0) + (IF b \in stores THEN 1 ELSE 0)
  <1>1. ASSUME NEW S PROVE Cardinality({b} \cap S) = IF b \in S THEN 1 ELSE 0
    <2>1. CASE b \in S
      <3>1. {b} \cap S = {b}
        BY <2>1
      <3> QED BY <2>1, <3>1, FS_Singleton
    <2>2. CASE b \notin S
      <3>1. {b} \cap S = {}
        BY <2>2
      <3> QED BY <2>2, <3>1, FS_EmptySet
    <2> QED BY <2>1, <2>2
  <1>2. Cardinality({b} \cap hasPhi) = IF b \in hasPhi THEN 1 ELSE 0
    BY <1>1
  <1>3. Cardinality({b} \cap stores) = IF b \in stores THEN 1 ELSE 0
    BY <1>1
  <1> QED BY <1>2, <1>3 DEF Pushed

\* The stack of values after steps a and b of a call on block b.
AtLoad(b) == IF b \in hasPhi THEN Append(values, PhiVal(b)) ELSE values
AfterStore(b) == IF b \in stores THEN Append(AtLoad(b), StoreVal(b)) ELSE AtLoad(b)

LEMMA StackGrows ==
  ASSUME PassTypes, NEW b \in Blocks
  PROVE  /\ AfterStore(b) \in Seq(Values) /\ Active(AtLoad(b)) \in Values
         /\ Len(AfterStore(b)) = Len(values) + Pushed(b)
         /\ \A k \in 1..Len(values) : AfterStore(b)[k] = values[k]
         /\ Active(AtLoad(b)) = IF b \in hasPhi THEN PhiVal(b) ELSE Active(values)
         /\ Active(AfterStore(b)) = IF b \in stores THEN StoreVal(b) ELSE Active(AtLoad(b))
         /\ Active(AfterStore(b)) \in Values
  <1>1. values \in Seq(Values) /\ PhiVal(b) \in Values /\ StoreVal(b) \in Values /\ Undef \in Values
    BY NumBlocksAssumption DEF PassTypes, Values, PhiVal, StoreVal, Blocks, Undef
  <1>2. ASSUME NEW s \in Seq(Values), NEW v \in Values
        PROVE  /\ Append(s, v) \in Seq(Values) /\ Len(Append(s, v)) = Len(s) + 1
               /\ \A k \in 1..Len(s) : Append(s, v)[k] = s[k]
               /\ Active(Append(s, v)) = v
    <2>1. /\ Append(s, v) \in Seq(Values) /\ Len(Append(s, v)) = Len(s) + 1
          /\ \A k \in 1..Len(s) : Append(s, v)[k] = s[k]
          /\ Append(s, v)[Len(s) + 1] = v
      BY AppendProperties
    <2>2. Append(s, v) # <<>>
      BY <2>1
    <2> QED BY <2>1, <2>2 DEF Active
  <1>3. ASSUME NEW s \in Seq(Values) PROVE Active(s) \in Values
    <2>1. CASE s = <<>>
      BY <1>1, <2>1 DEF Active
    <2>2. CASE s # <<>>
      <3>1. Len(s) \in 1..Len(s)
        BY <2>2
      <3> QED BY <2>2, <3>1 DEF Active
    <2> QED BY <2>1, <2>2
  <1>4. /\ AtLoad(b) \in Seq(Values)
        /\ Len(AtLoad(b)) = Len(values) + (IF b \in hasPhi THEN 1 ELSE 0)
        /\ \A k \in 1..Len(values) : AtLoad(b)[k] = values[k]
        /\ Active(AtLoad(b)) = IF b \in hasPhi THEN PhiVal(b) ELSE Active(values)
    <2>1. CASE b \in hasPhi
      BY <1>1, <1>2, <2>1 DEF AtLoad
    <2>2. CASE b \notin hasPhi
      BY <1>1, <2>2 DEF AtLoad
    <2> QED BY <2>1, <2>2
  <1>5. /\ AfterStore(b) \in Seq(Values)
        /\ Len(AfterStore(b)) = Len(AtLoad(b)) + (IF b \in stores THEN 1 ELSE 0)
        /\ \A k \in 1..Len(AtLoad(b)) : AfterStore(b)[k] = AtLoad(b)[k]
        /\ Active(AfterStore(b)) = IF b \in stores THEN StoreVal(b) ELSE Active(AtLoad(b))
    <2>1. CASE b \in stores
      BY <1>1, <1>2, <1>4, <2>1 DEF AfterStore
    <2>2. CASE b \notin stores
      BY <1>4, <2>2 DEF AfterStore
    <2> QED BY <2>1, <2>2
  <1>6. Len(values) \in Nat /\ Len(AtLoad(b)) \in Nat
    BY <1>1, <1>4
  <1>7. Len(AfterStore(b)) = Len(values) + Pushed(b)
    <2>1. Pushed(b) = (IF b \in hasPhi THEN 1 ELSE 0) + (IF b \in stores THEN 1 ELSE 0)
      BY PushedIs
    <2>2. CASE b \in hasPhi
      BY <1>4, <1>5, <1>6, <2>1, <2>2
    <2>3. CASE b \notin hasPhi
      BY <1>4, <1>5, <1>6, <2>1, <2>3
    <2> QED BY <2>2, <2>3
  <1>8. ASSUME NEW k \in 1..Len(values) PROVE AfterStore(b)[k] = values[k]
    <2>1. Len(values) <= Len(AtLoad(b))
      BY <1>4, <1>6
    <2>2. k \in 1..Len(AtLoad(b))
      BY <1>6, <2>1
    <2> QED BY <1>4, <1>5, <2>2
  <1> QED BY <1>3, <1>4, <1>5, <1>7, <1>8

\* The levels of a recursion that has not begun.
LEMMA NoLevels ==
  ASSUME path = <<>>, values = <<>>
  PROVE  \E d \in [0..Len(path) -> 0..Len(values)] : Levels(d)
  <1> DEFINE d == [i \in 0..0 |-> 0]
  <1>1. Len(path) = 0 /\ Len(values) = 0
    OBVIOUS
  <1>2. d \in [0..0 -> 0..0] /\ d[0] = 0
    OBVIOUS
  <1> HIDE DEF d
  <1>3. Levels(d)
    BY <1>1, <1>2 DEF Levels
  <1> QED BY <1>1, <1>2, <1>3

\* A call replaces the load of its block by the value that its caller left,
\* or by the phi, and hands its own last value to the phis of the successors.
LEMMA EnterReplaces ==
  ASSUME PassTypes, Tree, NEW c \in Blocks, c \notin renamed, Enter(c),
         UNCHANGED <<domVars, stores, hasPhi>>,
         Active(values) = (IF c = Entry THEN Undef ELSE AtEnd(idoms[c])),
         idoms[c] \in renamed \/ c = Entry,
         renamed # {} => Replaced,
         \A i \in 1..Len(path) : path[i] \in renamed,
         \E d \in [0..Len(path) -> 0..Len(values)] : Levels(d)
  PROVE  /\ Entry \in renamed' => Replaced'
         /\ \E d \in [0..Len(path') -> 0..Len(values')] : Levels(d)'
         /\ path' \in Seq(Blocks) /\ renamed' \in SUBSET Blocks /\ values' \in Seq(Values)
         /\ loads' \in [Blocks -> Values]
         /\ incoming' \in [Blocks -> [Blocks -> Values \union {NoEntry}]]
  <1>1. /\ path' = Append(path, c) /\ renamed' = renamed \union {c}
        /\ loads' = [loads EXCEPT ![c] = Active(AtLoad(c))]
        /\ values' = AfterStore(c)
        /\ incoming' = [y \in Blocks |->
             IF y \in succ[c] \cap hasPhi THEN [incoming[y] EXCEPT ![c] = Active(AfterStore(c))]
             ELSE incoming[y]]
    BY DEF Enter, AtLoad, AfterStore
  <1>2. UNCHANGED <<succ, idoms, stores, hasPhi>>
    BY DEF domVars, sweepVars
  <1>3. /\ AfterStore(c) \in Seq(Values) /\ Active(AtLoad(c)) \in Values
        /\ Len(AfterStore(c)) = Len(values) + Pushed(c)
        /\ \A k \in 1..Len(values) : AfterStore(c)[k] = values[k]
        /\ Active(AtLoad(c)) = (IF c \in hasPhi THEN PhiVal(c) ELSE Active(values))
        /\ Active(AfterStore(c)) = (IF c \in stores THEN StoreVal(c) ELSE Active(AtLoad(c)))
        /\ Active(AfterStore(c)) \in Values
    BY StackGrows
  <1>4. loads' \in [Blocks -> Values] /\ path' \in Seq(Blocks) /\ renamed' \in SUBSET Blocks
    BY <1>1, <1>3 DEF PassTypes
  <1>5. incoming' \in [Blocks -> [Blocks -> Values \union {NoEntry}]]
    BY <1>1, <1>3 DEF PassTypes
  <1> DEFINE End(b) == IF b \in stores THEN StoreVal(b) ELSE loads'[b]
  <1>6. \A b \in renamed : End(b) = AtEnd(b)
    BY <1>1 DEF AtEnd, PassTypes
  <1>7. End(c) = Active(AfterStore(c))
    BY <1>1, <1>3 DEF PassTypes
  <1>8. Entry \in renamed' => Replaced'
    <2> SUFFICES ASSUME Entry \in renamed', NEW b \in renamed'
                 PROVE  /\ idoms[b] \in renamed'
                        /\ loads'[b] = IF b \in hasPhi THEN PhiVal(b)
                                       ELSE IF b = Entry THEN Undef ELSE End(idoms[b])
                        /\ \A y \in succ[b] \cap hasPhi : incoming'[y][b] = End(b)
      BY <1>2 DEF Replaced, PhiVal, AtEnd, StoreVal, Undef, Entry
    <2> HIDE DEF End
    <2>1. CASE b = c
      <3>1. idoms[c] \in renamed'
        BY <1>1 DEF Tree, Rooted
      <3>2. loads'[c] = IF c \in hasPhi THEN PhiVal(c)
                        ELSE IF c = Entry THEN Undef ELSE End(idoms[c])
        <4>1. loads'[c] = Active(AtLoad(c))
          BY <1>1 DEF PassTypes
        <4>2. c # Entry => End(idoms[c]) = AtEnd(idoms[c])
          BY <1>6
        <4> QED BY <1>3, <4>1, <4>2
      <3>3. \A y \in succ[c] \cap hasPhi : incoming'[y][c] = Active(AfterStore(c))
        BY <1>1 DEF PassTypes
      <3> QED BY <1>7, <2>1, <3>1, <3>2, <3>3
    <2>2. CASE b # c
      <3>1. b \in renamed /\ Replaced /\ b \in Blocks
        BY <1>1, <2>2 DEF PassTypes
      <3>2. loads'[b] = loads[b]
        BY <1>1, <2>2, <3>1 DEF PassTypes
      <3>3. idoms[b] \in renamed
        BY <3>1 DEF Replaced
      <3>4. \A y \in Blocks : incoming'[y][b] = incoming[y][b]
        BY <1>1, <2>2, <3>1 DEF PassTypes
      <3>5. succ[b] \in SUBSET Blocks
        BY <3>1 DEF Tree, Graph
      <3> QED BY <1>1, <1>6, <3>1, <3>2, <3>3, <3>4, <3>5 DEF Replaced
    <2> QED BY <2>1, <2>2
  <1>9. \E d \in [0..Len(path') -> 0..Len(values')] : Levels(d)'
    <2>1. PICK d \in [0..Len(path) -> 0..Len(values)] : Levels(d)
      OBVIOUS
    <2> DEFINE n == Len(path)
               e == [i \in 0..(n + 1) |-> IF i <= n THEN d[i] ELSE Len(AfterStore(c))]
    <2>2. n \in Nat /\ path \in Seq(Blocks) /\ values \in Seq(Values) /\ Len(values) \in Nat
      BY DEF PassTypes
    <2>3. /\ Len(path') = n + 1 /\ path'[n + 1] = c
          /\ \A i \in 1..n : path'[i] = path[i]
      BY <1>1, <2>2, AppendProperties
    <2>4. Pushed(c) \in Nat /\ \A b : Pushed(b)' = Pushed(b)
      BY <1>2, PushedIs DEF Pushed
    <2>5. Len(values') \in Nat /\ Len(values') = Len(values) + Pushed(c) /\ Len(values) <= Len(values')
      BY <1>1, <1>3, <2>2, <2>4
    <2>6. \A i \in 0..n : e[i] = d[i] /\ d[i] \in 0..Len(values)
      BY <2>2
    <2>7. e[n + 1] = Len(values')
      BY <1>1, <2>2
    <2>8. e \in [0..(n + 1) -> 0..Len(values')]
      BY <1>1, <2>1, <2>2, <2>5
    <2> HIDE DEF e, n, End
    <2>9. d[0] = 0 /\ d[n] = Len(values)
      BY <2>1 DEF Levels, n
    <2>10. ASSUME NEW i \in 0..(n + 1), NEW j \in 0..(n + 1), i <= j PROVE e[i] <= e[j]
      <3>1. CASE j = n + 1
        BY <2>2, <2>5, <2>7, <2>8, <3>1
      <3>2. CASE j # n + 1
        <4>1. i \in 0..n /\ j \in 0..n
          BY <2>2, <2>10, <3>2
        <4> QED BY <2>1, <2>6, <2>10, <4>1 DEF Levels, n
      <3> QED BY <3>1, <3>2
    <2>11. ASSUME NEW i \in 1..(n + 1)
           PROVE  /\ e[i] = e[i - 1] + Pushed(path'[i])
                  /\ End(path'[i]) = IF e[i] = 0 THEN Undef ELSE values'[e[i]]
      <3>1. CASE i = n + 1
        <4>1. i - 1 = n /\ n \in 0..n
          BY <2>2, <3>1
        <4>2. e[i] = e[i - 1] + Pushed(path'[i])
          BY <2>3, <2>5, <2>6, <2>7, <2>9, <3>1, <4>1
        <4>3. Active(values') = IF Len(values') = 0 THEN Undef ELSE values'[Len(values')]
          BY <1>1, <1>3 DEF Active
        <4> QED BY <1>1, <1>7, <2>3, <2>7, <3>1, <4>2, <4>3
      <3>2. CASE i # n + 1
        <4>1. i \in 1..n /\ i \in 0..n /\ i - 1 \in 0..n
          BY <2>2, <3>2
        <4>2. path'[i] = path[i] /\ path[i] \in renamed
          BY <2>3, <4>1 DEF n
        <4>3. /\ d[i] = d[i - 1] + Pushed(path[i])
              /\ AtEnd(path[i]) = IF d[i] = 0 THEN Undef ELSE values[d[i]]
          BY <2>1, <4>1 DEF Levels, n
        <4>4. d[i] # 0 => values'[d[i]] = values[d[i]]
          <5>1. d[i] # 0 => d[i] \in 1..Len(values)
            BY <2>2, <2>6, <4>1
          <5> QED BY <1>1, <1>3, <5>1
        <4> QED BY <1>6, <2>6, <4>1, <4>2, <4>3, <4>4
      <3> QED BY <3>1, <3>2
    <2>12. e[0] = 0
      BY <2>2, <2>6, <2>9
    <2>13. PICK g \in [0..Len(path') -> 0..Len(values')] :
             /\ g[0] = 0 /\ g[Len(path')] = Len(values')
             /\ \A i, j \in 0..Len(path') : i <= j => g[i] <= g[j]
             /\ \A i \in 1..Len(path') :
                  /\ g[i] = g[i - 1] + Pushed(path'[i])
                  /\ End(path'[i]) = IF g[i] = 0 THEN Undef ELSE values'[g[i]]
      <3>1. /\ e[0] = 0 /\ e[Len(path')] = Len(values')
            /\ \A i, j \in 0..Len(path') : i <= j => e[i] <= e[j]
            /\ \A i \in 1..Len(path') :
                 /\ e[i] = e[i - 1] + Pushed(path'[i])
                 /\ End(path'[i]) = IF e[i] = 0 THEN Undef ELSE values'[e[i]]
        BY <2>3, <2>7, <2>8, <2>10, <2>11, <2>12
      <3> QED BY <2>3, <2>8, <3>1
    <2>14. Levels(g)'
      BY <1>2, <2>4, <2>13 DEF Levels, Undef, AtEnd, StoreVal, End, Pushed
    <2> QED BY <2>14
  <1> QED BY <1>1, <1>3, <1>4, <1>5, <1>8, <1>9

\* The value on top of the stack is the one at the end of the block on top of
\* the recursion.
LEMMA TopIsActive ==
  ASSUME PassTypes, Walking
  PROVE  /\ Len(path) \in Nat \ {0} /\ path[Len(path)] \in renamed
         /\ Active(values) = AtEnd(path[Len(path)])
  <1>1. Len(path) \in Nat \ {0} /\ Len(path) \in 1..Len(path) /\ values \in Seq(Values)
    BY DEF PassTypes, Walking
  <1>2. PICK d \in [0..Len(path) -> 0..Len(values)] : Levels(d)
    BY DEF Walking
  <1>3. AtEnd(path[Len(path)]) = IF Len(values) = 0 THEN Undef ELSE values[Len(values)]
    BY <1>1, <1>2 DEF Levels
  <1>4. Active(values) = IF Len(values) = 0 THEN Undef ELSE values[Len(values)]
    BY <1>1 DEF Active
  <1> QED BY <1>1, <1>3, <1>4 DEF Walking

\* The call of renameDFS on the entry block.
LEMMA BeginRenameKeeps ==
  ASSUME PassInv, BeginRename
  PROVE  PassInv'
  <1>1. /\ stage = "phis" /\ work = {} /\ path = <<>> /\ values = <<>> /\ renamed = {}
        /\ PassTypes /\ Tree /\ Placed /\ mem = Undef
    BY DEF PassInv, BeginRename
  <1>2. /\ stage' = "rename" /\ Enter(Entry)
        /\ UNCHANGED <<domVars, home, stores, work, hasPhi, at, mem, phiReg>>
    BY DEF BeginRename, runVars
  <1>3. path' = <<Entry>> /\ renamed' = {Entry}
    BY <1>1, <1>2 DEF Enter
  <1>4. Active(values) = Undef
    BY <1>1 DEF Active
  <1>5. /\ Replaced'
        /\ \E d \in [0..Len(path') -> 0..Len(values')] : Levels(d)'
        /\ path' \in Seq(Blocks) /\ renamed' \in SUBSET Blocks /\ values' \in Seq(Values)
        /\ loads' \in [Blocks -> Values]
        /\ incoming' \in [Blocks -> [Blocks -> Values \union {NoEntry}]]
    <2>1. \A i \in 1..Len(path) : path[i] \in renamed
      BY <1>1
    <2>2. \E d \in [0..Len(path) -> 0..Len(values)] : Levels(d)
      BY <1>1, NoLevels
    <2> QED BY <1>1, <1>2, <1>3, <1>4, <2>1, <2>2, EnterReplaces, EntryIsBlock
  <1>6. PassTypes'
    BY <1>1, <1>2, <1>5 DEF PassTypes
  <1>7. Tree' /\ Placed'
    <2>1. Tree' /\ \A x : Frontier(x)' = Frontier(x)
      BY <1>1, <1>2, TreeStays
    <2> QED BY <1>1, <1>2, <2>1 DEF Placed, Recorded
  <1>8. Walking'
    <2>1. Len(path') = 1 /\ path'[1] = Entry
      BY <1>3
    <2> QED BY <1>3, <1>5, <2>1 DEF Walking
  <1> QED BY <1>1, <1>2, <1>5, <1>6, <1>7, <1>8 DEF PassInv

\* The call on a child of the block on top.
LEMMA RenameChildKeeps ==
  ASSUME PassInv, NEW c \in Blocks, RenameChild(c)
  PROVE  PassInv'
  <1>1. stage = "rename" /\ PassTypes /\ Tree /\ Placed /\ work = {} /\ Replaced /\ Walking /\ mem = Undef
    BY DEF PassInv, RenameChild
  <1> DEFINE n == Len(path)
             top == path[n]
  <1>2. /\ Enter(c) /\ c \notin renamed /\ idoms[c] = top /\ c # top
        /\ UNCHANGED <<domVars, stage, home, stores, work, hasPhi, at, mem, phiReg>>
    BY DEF RenameChild, Children, runVars
  <1>3. n \in Nat \ {0} /\ top \in renamed /\ Active(values) = AtEnd(top)
    BY <1>1, TopIsActive
  <1>4. c # Entry
    BY <1>1, <1>2 DEF Replaced
  <1>5. path \in Seq(Blocks) /\ path' = Append(path, c) /\ renamed' = renamed \union {c}
    BY <1>1, <1>2 DEF Enter, PassTypes
  <1>6. Len(path') = n + 1 /\ path'[n + 1] = c /\ \A i \in 1..n : path'[i] = path[i]
    BY <1>5, AppendProperties
  <1>7. /\ Replaced'
        /\ \E d \in [0..Len(path') -> 0..Len(values')] : Levels(d)'
        /\ path' \in Seq(Blocks) /\ renamed' \in SUBSET Blocks /\ values' \in Seq(Values)
        /\ loads' \in [Blocks -> Values]
        /\ incoming' \in [Blocks -> [Blocks -> Values \union {NoEntry}]]
    <2>1. Entry \in renamed'
      BY <1>1, <1>5 DEF Replaced
    <2>2. \A i \in 1..Len(path) : path[i] \in renamed
      BY <1>1 DEF Walking
    <2>3. \E d \in [0..Len(path) -> 0..Len(values)] : Levels(d)
      BY <1>1 DEF Walking
    <2>4. UNCHANGED <<domVars, stores, hasPhi>>
      BY <1>2
    <2> QED BY <1>1, <1>2, <1>3, <1>4, <2>1, <2>2, <2>3, <2>4, EnterReplaces
  <1>8. PassTypes'
    BY <1>1, <1>2, <1>7 DEF PassTypes
  <1>9. Tree' /\ Placed'
    <2>1. Tree' /\ \A x : Frontier(x)' = Frontier(x)
      BY <1>1, <1>2, TreeStays
    <2> QED BY <1>1, <1>2, <2>1 DEF Placed, Recorded
  <1>10. Walking'
    <2>1. idoms' = idoms /\ \A b : Children(b)' = Children(b)
      BY <1>2 DEF domVars, sweepVars, Children
    <2>2. Len(path') >= 1 /\ path'[1] = Entry
      BY <1>1, <1>3, <1>6 DEF Walking
    <2>3. \A i \in 1..Len(path') : path'[i] \in renamed'
      BY <1>1, <1>3, <1>5, <1>6 DEF Walking
    <2>4. ASSUME NEW i \in 2..Len(path') PROVE idoms[path'[i]] = path'[i - 1]
      <3>1. CASE i = n + 1
        <4>1. i - 1 = n /\ n \in 1..n
          BY <1>3, <3>1
        <4> QED BY <1>2, <1>6, <3>1, <4>1
      <3>2. CASE i # n + 1
        <4>1. i \in 2..n /\ i \in 1..n /\ i - 1 \in 1..n
          BY <1>3, <1>6, <3>2
        <4> QED BY <1>1, <1>6, <4>1 DEF Walking
      <3> QED BY <3>1, <3>2
    <2>5. ASSUME NEW b \in renamed'
          PROVE  Children(b) \subseteq renamed' \/ \E i \in 1..Len(path') : path'[i] = b
      <3>1. CASE b = c
        <4>1. n + 1 \in 1..Len(path')
          BY <1>3, <1>6
        <4> QED BY <1>6, <3>1, <4>1
      <3>2. CASE b # c
        <4>1. b \in renamed
          BY <1>5, <3>2
        <4>2. CASE Children(b) \subseteq renamed
          BY <1>5, <4>2
        <4>3. ASSUME NEW i \in 1..n, path[i] = b PROVE \E j \in 1..Len(path') : path'[j] = b
          BY <1>3, <1>6, <4>3
        <4> QED BY <1>1, <4>1, <4>2, <4>3 DEF Walking
      <3> QED BY <3>1, <3>2
    <2> QED BY <1>7, <2>1, <2>2, <2>3, <2>4, <2>5 DEF Walking
  <1> QED BY <1>1, <1>2, <1>7, <1>8, <1>9, <1>10 DEF PassInv

\* When every call has returned, the walk has been everywhere.
LEMMA WalkCovers ==
  ASSUME Tree, Replaced, renamed \in SUBSET Blocks, \A b \in renamed : Children(b) \subseteq renamed
  PROVE  Avoid(succ, Null) \subseteq renamed
  <1> SUFFICES ASSUME NEW y \in Avoid(succ, Null), y \notin renamed PROVE FALSE
    OBVIOUS
  <1>1. succ \in Graph /\ idoms \in Table /\ Rooted
    BY DEF Tree
  <1>2. y \in Blocks /\ idoms[y] # Null
    BY <1>1, AvoidWithin, InTree
  <1> DEFINE S == Blocks \ renamed
  <1>3. ASSUME NEW z \in S, idoms[z] # Null PROVE idoms[z] \in S
    <2>1. idoms[z] \in Blocks
      BY <1>1, <1>3 DEF Table
    <2>2. ASSUME idoms[z] \in renamed PROVE FALSE
      <3>1. z \in Children(idoms[z])
        BY <2>2 DEF Children
      <3> QED BY <2>2, <3>1
    <2> QED BY <2>1, <2>2
  <1>4. Climbs(idoms, S)
    BY <1>3 DEF Climbs
  <1>5. Above(idoms, Entry, y)
    BY <1>1, <1>2 DEF Rooted
  <1>6. Entry \in S
    BY <1>2, <1>4, <1>5, AboveWithin
  <1> QED BY <1>6 DEF Replaced

\* A sequence without its last elements.
LEMMA Shortened ==
  ASSUME NEW T, NEW s \in Seq(T), NEW m \in 0..Len(s)
  PROVE  /\ SubSeq(s, 1, m) \in Seq(T) /\ Len(SubSeq(s, 1, m)) = m
         /\ \A i \in 1..m : SubSeq(s, 1, m)[i] = s[i]
  OBVIOUS

\* A call returns and takes what it pushed off the stack: its caller finds its
\* own value again.
LEMMA RenameReturnKeeps ==
  ASSUME PassInv, RenameReturn
  PROVE  PassInv'
  <1>1. stage = "rename" /\ PassTypes /\ Tree /\ Placed /\ work = {} /\ Replaced /\ Walking /\ mem = Undef
    BY DEF PassInv, RenameReturn
  <1> DEFINE n == Len(path)
             top == path[n]
             m == Len(values) - Pushed(top)
  <1>2. /\ Children(top) \subseteq renamed
        /\ values' = SubSeq(values, 1, m)
        /\ path' = SubSeq(path, 1, n - 1)
        /\ UNCHANGED <<domVars, home, stores, work, hasPhi, renamed, loads, incoming, mem, phiReg>>
        /\ n = 1 => stage' = "run" /\ at' = Entry
        /\ n # 1 => stage' = stage /\ at' = at
    BY DEF RenameReturn
  <1>3. n \in Nat \ {0} /\ top \in renamed /\ path \in Seq(Blocks) /\ values \in Seq(Values)
        /\ n \in 1..n /\ Len(values) \in Nat
    BY <1>1, TopIsActive DEF PassTypes
  <1>4. PICK d \in [0..n -> 0..Len(values)] : Levels(d)
    BY <1>1 DEF Walking
  <1>5. d[n - 1] = m /\ m \in 0..Len(values) /\ n - 1 \in 0..n
    <2>1. d[n] = Len(values) /\ d[n] = d[n - 1] + Pushed(top)
      BY <1>3, <1>4 DEF Levels
    <2>2. n - 1 \in 0..n
      BY <1>3
    <2>3. Pushed(top) \in Nat
      BY PushedIs
    <2>4. d[n - 1] \in 0..Len(values)
      BY <2>2
    <2> QED BY <1>3, <2>1, <2>2, <2>3, <2>4
  <1>6. /\ path' \in Seq(Blocks) /\ Len(path') = n - 1 /\ \A i \in 1..(n - 1) : path'[i] = path[i]
    BY <1>2, <1>3, <1>5, Shortened
  <1>7. /\ values' \in Seq(Values) /\ Len(values') = m /\ \A k \in 1..m : values'[k] = values[k]
    <2> HIDE DEF m
    <2> QED BY <1>2, <1>3, <1>5, Shortened
  <1>8. PassTypes'
    BY <1>1, <1>2, <1>6, <1>7, EntryIsBlock DEF PassTypes
  <1>9. Tree' /\ Placed'
    <2>1. Tree' /\ \A x : Frontier(x)' = Frontier(x)
      BY <1>1, <1>2, TreeStays
    <2> QED BY <1>1, <1>2, <2>1 DEF Placed, Recorded
  <1>10. UNCHANGED <<succ, idoms>> /\ (\A b : Children(b)' = Children(b)) /\ \A b : AtEnd(b)' = AtEnd(b)
    BY <1>2 DEF domVars, sweepVars, Children, AtEnd
  <1>11. Replaced'
    BY <1>1, <1>2, <1>10 DEF Replaced, AtEnd
  <1>12. CASE n = 1
    <2>1. stage' = "run" /\ at' = Entry /\ mem' = Undef /\ work' = {}
      BY <1>1, <1>2, <1>12
    <2>2. \A b \in renamed : Children(b) \subseteq renamed
      BY <1>1, <1>2, <1>12 DEF Walking
    <2>3. Avoid(succ, Null) \subseteq renamed
      BY <1>1, <2>2, WalkCovers DEF PassTypes
    <2>4. Entry \in Avoid(succ, Null)
      BY <1>1, AvoidWithin, EntryIsBlock DEF Tree
    <2>5. Running'
      BY <1>1, <1>2, <1>10, <2>1, <2>3, <2>4 DEF Running, Agrees, Recorded, Undef, PassTypes, Blocks
    <2> QED BY <1>8, <1>9, <1>11, <2>1, <2>5 DEF PassInv
  <1>13. CASE n # 1
    <2>1. stage' = "rename" /\ mem' = Undef /\ work' = {}
      BY <1>1, <1>2, <1>13
    <2>2. Len(path') >= 1 /\ path'[1] = Entry
      BY <1>1, <1>3, <1>6, <1>13 DEF Walking
    <2>3. \A i \in 1..Len(path') : path'[i] \in renamed'
      BY <1>1, <1>2, <1>3, <1>6 DEF Walking
    <2>4. \A i \in 2..Len(path') : idoms[path'[i]] = path'[i - 1]
      BY <1>1, <1>3, <1>6 DEF Walking
    <2>5. ASSUME NEW b \in renamed'
          PROVE  Children(b) \subseteq renamed' \/ \E i \in 1..Len(path') : path'[i] = b
      <3>1. CASE Children(b) \subseteq renamed
        BY <1>2, <3>1
      <3>2. CASE ~(Children(b) \subseteq renamed)
        <4>1. PICK i \in 1..n : path[i] = b
          BY <1>1, <1>2, <3>2 DEF Walking
        <4>2. i # n
          BY <1>2, <3>2, <4>1
        <4>3. i \in 1..(n - 1)
          BY <1>3, <4>1, <4>2
        <4> QED BY <1>6, <4>1, <4>3
      <3> QED BY <3>1, <3>2
    <2>6. \E g \in [0..Len(path') -> 0..Len(values')] : Levels(g)'
      <3> DEFINE e == [i \in 0..(n - 1) |-> d[i]]
      <3>0. \A i \in 0..(n - 1) : i \in 0..n /\ e[i] = d[i] /\ d[i] \in 0..Len(values)
        BY <1>3
      <3>1. \A i \in 0..(n - 1) : d[i] <= m
        BY <1>3, <1>4, <1>5, <3>0 DEF Levels
      <3>2. e \in [0..(n - 1) -> 0..m]
        <4>1. \A i \in 0..(n - 1) : d[i] \in 0..m
          BY <1>3, <1>5, <3>0, <3>1
        <4> HIDE DEF m, n
        <4> QED BY <4>1
      <3> HIDE DEF e
      <3>3. ASSUME NEW i \in 1..(n - 1)
            PROVE  /\ e[i] = e[i - 1] + Pushed(path'[i])
                   /\ AtEnd(path'[i]) = IF e[i] = 0 THEN Undef ELSE values'[e[i]]
        <4>1. i \in 1..n /\ i \in 0..(n - 1) /\ i - 1 \in 0..(n - 1)
          BY <1>3
        <4>2. /\ d[i] = d[i - 1] + Pushed(path[i])
              /\ AtEnd(path[i]) = IF d[i] = 0 THEN Undef ELSE values[d[i]]
          BY <1>4, <4>1 DEF Levels
        <4>3. d[i] # 0 => values'[d[i]] = values[d[i]]
          <5>1. d[i] # 0 => d[i] \in 1..m
            BY <3>0, <3>1, <4>1, <1>5
          <5> QED BY <1>7, <5>1
        <4> QED BY <1>6, <3>0, <4>1, <4>2, <4>3
      <3>4. e[0] = 0 /\ e[n - 1] = m
        <4>1. 0 \in 0..(n - 1) /\ n - 1 \in 0..(n - 1)
          BY <1>3
        <4> QED BY <1>4, <1>5, <3>0, <4>1 DEF Levels
      <3>5. \A i, j \in 0..(n - 1) : i <= j => e[i] <= e[j]
        BY <1>4, <3>0 DEF Levels
      <3> HIDE DEF m, n
      <3>6. PICK g \in [0..Len(path') -> 0..Len(values')] :
             /\ g[0] = 0 /\ g[Len(path')] = Len(values')
             /\ \A i, j \in 0..Len(path') : i <= j => g[i] <= g[j]
             /\ \A i \in 1..Len(path') :
                  /\ g[i] = g[i - 1] + Pushed(path'[i])
                  /\ AtEnd(path'[i]) = IF g[i] = 0 THEN Undef ELSE values'[g[i]]
        BY <1>6, <1>7, <3>2, <3>3, <3>4, <3>5
      <3>7. Levels(g)'
        BY <1>2, <3>6 DEF Levels, Undef, AtEnd, StoreVal, Pushed
      <3> QED BY <3>7
    <2>7. Walking'
      BY <1>10, <2>2, <2>3, <2>4, <2>5, <2>6 DEF Walking
    <2> QED BY <1>8, <1>9, <1>11, <2>1, <2>7 DEF PassInv
  <1> QED BY <1>12, <1>13

\* A branch: the phi or the load of the target has the value of the memory.
LEMMA GotoKeeps ==
  ASSUME PassInv, NEW t \in Blocks, Goto(t)
  PROVE  PassInv'
  <1>1. /\ stage = "run" /\ PassTypes /\ Tree /\ Placed /\ work = {} /\ Replaced /\ Running
        /\ t \in succ[at]
    BY DEF PassInv, Goto
  <1>2. /\ at' = t
        /\ mem' = IF t = home THEN Undef ELSE IF at \in stores THEN StoreVal(at) ELSE mem
        /\ phiReg' = IF t \in hasPhi THEN [phiReg EXCEPT ![t] = Holds(incoming[t][at])] ELSE phiReg
        /\ UNCHANGED <<domVars, stage, home, stores, work, hasPhi, path, renamed, values, loads, incoming>>
    BY DEF Goto, passVars
  <1>3. at \in Avoid(succ, Null) /\ at \in renamed /\ at \in Blocks
    BY <1>1 DEF Running, PassTypes
  <1>4. t \in Blocks \ {Entry} /\ t \in Avoid(succ, Null) /\ t \in renamed /\ idoms[t] \in Blocks
    BY <1>1, <1>3, EdgeBelow DEF Running
  <1>5. ASSUME NEW v \in Values PROVE Holds(v) \in Int
    <2>1. v > NumBlocks => v - NumBlocks \in Blocks
      BY NumBlocksAssumption DEF Values, Blocks
    <2>2. v \in Int
      BY NumBlocksAssumption DEF Values
    <2> QED BY <1>1, <2>1, <2>2 DEF Holds, PassTypes
  <1>6. AtEnd(at) \in Values
    BY <1>1, <1>3, NumBlocksAssumption DEF AtEnd, PassTypes, StoreVal, Values, Blocks
  <1>7. t \in hasPhi => incoming[t][at] = AtEnd(at)
    BY <1>1, <1>3 DEF Replaced
  <1>8. phiReg' \in [Blocks -> Int]
    BY <1>1, <1>2, <1>5, <1>6, <1>7 DEF PassTypes
  <1>9. mem' \in Blocks \union {Undef}
    BY <1>1, <1>2, <1>3 DEF PassTypes, StoreVal
  <1>10. PassTypes'
    BY <1>1, <1>2, <1>4, <1>8, <1>9 DEF PassTypes
  <1>11. Tree' /\ Placed'
    <2>1. Tree' /\ \A x : Frontier(x)' = Frontier(x)
      BY <1>1, <1>2, TreeStays
    <2> QED BY <1>1, <1>2, <2>1 DEF Placed, Recorded
  <1>12. UNCHANGED <<succ, idoms>>
    BY <1>2 DEF domVars, sweepVars
  <1>13. Replaced'
    BY <1>1, <1>2, <1>12 DEF Replaced, AtEnd
  <1>14. ASSUME mem' \in Recorded, t \notin Avoid(succ, home)
         PROVE  Holds(loads[t])' = mem'
    <2>1. t # home
      BY <1>1, <1>2, <1>14 DEF Recorded, PassTypes, Undef, Blocks
    <2>2. at \notin Avoid(succ, home)
      BY <1>1, <1>3, <1>14, <2>1, DominatorOfSuccessor DEF Tree
    <2>3. Holds(AtEnd(at)) = mem'
      <3>1. CASE at \in stores
        <4>1. AtEnd(at) = at /\ mem' = at
          BY <1>2, <2>1, <3>1 DEF AtEnd, StoreVal
        <4>2. ~(at > NumBlocks)
          BY <1>3, NumBlocksAssumption DEF Blocks
        <4> QED BY <4>1, <4>2 DEF Holds
      <3>2. CASE at \notin stores
        <4>1. mem' = mem /\ AtEnd(at) = loads[at]
          BY <1>2, <2>1, <3>2 DEF AtEnd
        <4> QED BY <1>1, <1>14, <2>2, <4>1 DEF Running, Agrees
      <3> QED BY <3>1, <3>2
    <2>4. CASE t \in hasPhi
      <3>1. loads[t] = NumBlocks + t
        BY <1>1, <1>4, <2>4 DEF Replaced, PhiVal
      <3>2. phiReg'[t] = Holds(AtEnd(at))
        BY <1>1, <1>2, <1>4, <1>7, <2>4 DEF PassTypes
      <3>3. NumBlocks + t > NumBlocks /\ (NumBlocks + t) - NumBlocks = t
        BY <1>4, NumBlocksAssumption DEF Blocks
      <3> QED BY <1>2, <2>3, <3>1, <3>2, <3>3 DEF Holds
    <2>5. CASE t \notin hasPhi
      <3>1. loads[t] = AtEnd(idoms[t])
        BY <1>1, <1>4, <2>5 DEF Replaced
      <3>2. AtEnd(at) = AtEnd(idoms[t])
        <4>1. AtEnd(at) = AtEnd(idoms[t]) \/ AtEnd(at) \in stores \ Recorded
          BY <1>1, <1>3, <2>5, SameFromEverySide DEF Running
        <4>2. AtEnd(at) \in stores => Holds(AtEnd(at)) = AtEnd(at)
          <5>1. ASSUME NEW v \in stores PROVE ~(v > NumBlocks)
            <6>1. v \in 1..NumBlocks
              BY <1>1 DEF PassTypes, Blocks
            <6> QED BY <6>1, NumBlocksAssumption
          <5> QED BY <5>1 DEF Holds
        <4> QED BY <1>14, <2>3, <4>1, <4>2
      <3>3. phiReg' = phiReg /\ loads' = loads
        BY <1>2, <2>5
      <3> QED BY <2>3, <3>1, <3>2, <3>3 DEF Holds
    <2> QED BY <2>4, <2>5
  <1>15. Running'
    <2>1. Recorded' = Recorded /\ home' = home
      BY <1>2 DEF Recorded
    <2> QED BY <1>1, <1>2, <1>4, <1>12, <1>14, <2>1 DEF Running, Agrees
  <1> QED BY <1>1, <1>2, <1>10, <1>11, <1>13, <1>15 DEF PassInv

\* Nothing happens.
LEMMA PassStutters ==
  ASSUME PassInv, UNCHANGED vars
  PROVE  PassInv'
  <1>1. /\ UNCHANGED domVars
        /\ UNCHANGED <<stage, home, stores, work, hasPhi, path, renamed, values, loads, incoming, at, mem, phiReg>>
    BY DEF vars, passVars, runVars
  <1>2. UNCHANGED <<succ, idoms, phase>>
    BY <1>1 DEF domVars, sweepVars
  <1>3. PassTypes'
    BY <1>1 DEF PassInv, PassTypes
  <1>4. stage = "scan" => IInv' /\ EInv'
    BY <1>1, NextKeeps, NextExact DEF PassInv
  <1>5. stage # "scan" => Tree' /\ Placed'
    BY <1>1, TreeStays DEF PassInv, Placed, Recorded
  <1>6. stage \in {"rename", "run"} => Replaced'
    BY <1>1, <1>2 DEF PassInv, Replaced, AtEnd
  <1>7. stage = "rename" => Walking'
    <2> SUFFICES ASSUME Walking PROVE Walking'
      BY DEF PassInv
    <2>1. PICK d \in [0..Len(path) -> 0..Len(values)] : Levels(d)
      BY DEF Walking
    <2>2. Levels(d)'
      BY <1>1, <2>1 DEF Levels, AtEnd, Pushed
    <2>3. \A b : Children(b)' = Children(b)
      BY <1>2 DEF Children
    <2>4. \E e \in [0..Len(path') -> 0..Len(values')] : Levels(e)'
      BY <1>1, <2>1, <2>2
    <2> QED BY <1>1, <1>2, <2>3, <2>4 DEF Walking
  <1>8. stage = "run" => Running'
    BY <1>1, <1>2 DEF PassInv, Running, Agrees, Holds, Recorded
  <1> QED BY <1>1, <1>3, <1>4, <1>5, <1>6, <1>7, <1>8 DEF PassInv

\* Every step of the pass, and every branch of the two functions, keeps the
\* invariant.
LEMMA PassKeeps ==
  ASSUME PassInv, [Next]_vars
  PROVE  PassInv'
  BY PassStutters, AnalyzeKeeps, ScanKeeps, PlaceKeepsFrontiers, RenameChildKeeps, GotoKeeps,
     BeginRenameKeeps, RenameReturnKeeps DEF Next

\* On every control flow graph of any size, for every alloca and every set of
\* stores that it dominates, wherever the blocks are listed, and along every
\* path: as long as the memory would hold the value of a store that the scan
\* has recorded, that is the value by which Mem2RegPass replaces a load.
THEOREM PromotionIsCorrect == Spec => []RecordedStoresKept
  <1>1. Init => PassInv
    BY PassInit
  <1>2. PassInv /\ [Next]_vars => PassInv'
    BY PassKeeps
  <1>3. PassInv => RecordedStoresKept
    BY ReachIsAvoid DEF PassInv, Running, Agrees, RecordedStoresKept, OnEveryPath
  <1> QED BY <1>1, <1>2, <1>3, PTL DEF Spec
=============================================================================
