-------------------------- MODULE SchedulerProofs --------------------------
(***************************************************************************)
(* Proofs about module Scheduler, for every finite set of coroutines and   *)
(* of threads and every set of priorities.                                 *)
(***************************************************************************)
EXTENDS Scheduler, SequenceTheorems, FiniteSetTheorems, TLAPS

-----------------------------------------------------------------------------
(* Sequences.                                                              *)

\* What InsertAt returns.
LEMMA InsertAtProperties ==
  ASSUME NEW S, NEW q \in Seq(S), NEW i \in 1..(Len(q) + 1), NEW e \in S
  PROVE  /\ LM!InsertAt(q, i, e) \in Seq(S)
         /\ Len(LM!InsertAt(q, i, e)) = Len(q) + 1
         /\ \A k \in 1..(Len(q) + 1) :
              /\ k < i => LM!InsertAt(q, i, e)[k] = q[k]
              /\ k = i => LM!InsertAt(q, i, e)[k] = e
              /\ k > i => LM!InsertAt(q, i, e)[k] = q[k - 1]
<1>. DEFINE a == SubSeq(q, 1, i - 1)
            b == SubSeq(q, i, Len(q))
            m == a \o <<e>>
<1>1. Len(q) \in Nat /\ \A k \in 1..Len(q) : q[k] \in S
  BY LenProperties, ElementOfSeq
<1>2. /\ a \in Seq(S) /\ Len(a) = i - 1
      /\ \A k \in 1..(i - 1) : a[k] = q[k]
  BY <1>1, SubSeqProperties
<1>3. /\ b \in Seq(S) /\ Len(b) = Len(q) - i + 1
      /\ \A k \in 1..(Len(q) - i + 1) : b[k] = q[i + k - 1]
  BY <1>1, SubSeqProperties
<1>4. <<e>> \in Seq(S) /\ Len(<<e>>) = 1 /\ <<e>>[1] = e
  OBVIOUS
<1>. HIDE DEF a, b
<1>5. /\ m \in Seq(S) /\ Len(m) = i
      /\ \A k \in 1..i : m[k] = IF k <= i - 1 THEN a[k] ELSE <<e>>[k - (i - 1)]
  BY <1>2, <1>4, ConcatProperties
<1>6. \A k \in 1..i : m[k] = IF k < i THEN q[k] ELSE e
  BY <1>2, <1>4, <1>5
<1>. HIDE DEF m
<1>7. /\ m \o b \in Seq(S) /\ Len(m \o b) = Len(q) + 1
      /\ \A k \in 1..(Len(q) + 1) :
           (m \o b)[k] = IF k <= i THEN m[k] ELSE b[k - i]
  BY <1>1, <1>3, <1>5, ConcatProperties
<1>8. ASSUME NEW k \in 1..(Len(q) + 1)
      PROVE  /\ k < i => (m \o b)[k] = q[k]
             /\ k = i => (m \o b)[k] = e
             /\ k > i => (m \o b)[k] = q[k - 1]
  <2>1. (k < i => (m \o b)[k] = q[k]) /\ (k = i => (m \o b)[k] = e)
    BY <1>6, <1>7
  <2>2. ASSUME k > i
        PROVE  (m \o b)[k] = q[k - 1]
    <3>1. k - i \in 1..(Len(q) - i + 1) /\ i + (k - i) - 1 = k - 1
      BY <1>1, <2>2
    <3>2. (m \o b)[k] = b[k - i]
      BY <1>1, <1>7, <2>2
    <3>3. b[k - i] = q[i + (k - i) - 1]
      BY <1>3, <3>1
    <3>. QED
      BY <3>1, <3>2, <3>3
  <2>. QED
    BY <2>1, <2>2
<1>9. LM!InsertAt(q, i, e) = m \o b
  BY DEF LM!InsertAt, m, a, b
<1>. QED
  BY <1>7, <1>8, <1>9

\* Aging a queue keeps its length and its coroutines.
LEMMA AgeAllProperties ==
  ASSUME NEW q \in Seq(Node)
  PROVE  /\ AgeAll(q) \in Seq(Node)
         /\ Len(AgeAll(q)) = Len(q)
         /\ \A k \in 1..Len(q) :
              AgeAll(q)[k] = [coro |-> q[k].coro, priority |-> q[k].priority + 1,
                              age |-> q[k].age + 1]
<1>1. DOMAIN q = 1..Len(q) /\ Len(q) \in Nat /\ \A k \in 1..Len(q) : q[k] \in Node
  BY LenProperties, ElementOfSeq
<1>2. AgeAll(q) \in [1..Len(q) -> Node]
  BY <1>1 DEF AgeAll, Node
<1>3. AgeAll(q) \in Seq(Node) /\ Len(AgeAll(q)) = Len(q)
  BY <1>1, <1>2
<1>. QED
  BY <1>1, <1>3 DEF AgeAll

-----------------------------------------------------------------------------
(* Types.                                                                  *)

\* A node made by schedule is a node, whatever the registry holds.
LEMMA NewNodeType ==
  ASSUME TypeOK, NEW c \in Coros
  PROVE  NewNode(c) \in Node /\ NewNode(c).coro = c /\ NewNode(c).age = 0
<1>1. GetPriority(c) \in Int
  BY DEF TypeOK, GetPriority
<1>. QED
  BY <1>1 DEF NewNode, Node

\* A thread that is not idle holds a node.
LEMMA InsertingNode ==
  ASSUME TypeOK, NEW t \in Threads, ~Idle(t)
  PROVE  inserting[t] \in Node
BY DEF TypeOK, Idle

\* The head of a non-empty queue and what is left of it.
LEMMA HeadAndTail ==
  ASSUME TypeOK, queue # <<>>
  PROVE  /\ Head(queue) \in Node /\ Head(queue) = queue[1]
         /\ Tail(queue) \in Seq(Node)
         /\ Len(queue) \in Nat \ {0} /\ Len(Tail(queue)) = Len(queue) - 1
         /\ \A k \in 1..(Len(queue) - 1) : Tail(queue)[k] = queue[k + 1]
BY HeadTailProperties, LenProperties, EmptySeq, ElementOfSeq DEF TypeOK

\* The queue that Run leaves: the tail, every node one step older.
LEMMA AgedTail ==
  ASSUME TypeOK, queue # <<>>
  PROVE  /\ AgeAll(Tail(queue)) \in Seq(Node)
         /\ Len(AgeAll(Tail(queue))) = Len(queue) - 1
         /\ \A k \in 1..(Len(queue) - 1) :
              /\ k + 1 \in 1..Len(queue)
              /\ queue[k + 1] \in Node
              /\ AgeAll(Tail(queue))[k].coro = queue[k + 1].coro
              /\ AgeAll(Tail(queue))[k].priority = queue[k + 1].priority + 1
              /\ AgeAll(Tail(queue))[k].age = queue[k + 1].age + 1
<1>. DEFINE r == Tail(queue)
<1>1. /\ r \in Seq(Node) /\ Len(r) = Len(queue) - 1 /\ Len(queue) \in Nat \ {0}
      /\ \A k \in 1..(Len(queue) - 1) : r[k] = queue[k + 1]
  BY HeadAndTail
<1>2. \A k \in 1..Len(queue) : queue[k] \in Node
  BY ElementOfSeq DEF TypeOK
<1>. HIDE DEF r
<1>3. /\ AgeAll(r) \in Seq(Node) /\ Len(AgeAll(r)) = Len(r)
      /\ \A k \in 1..Len(r) :
           AgeAll(r)[k] = [coro |-> r[k].coro, priority |-> r[k].priority + 1,
                           age |-> r[k].age + 1]
  BY <1>1, AgeAllProperties
<1>4. ASSUME NEW k \in 1..(Len(queue) - 1)
      PROVE  /\ k + 1 \in 1..Len(queue)
             /\ queue[k + 1] \in Node
             /\ AgeAll(r)[k].coro = queue[k + 1].coro
             /\ AgeAll(r)[k].priority = queue[k + 1].priority + 1
             /\ AgeAll(r)[k].age = queue[k + 1].age + 1
  <2>1. k \in 1..Len(r) /\ k + 1 \in 1..Len(queue) /\ queue[k + 1] \in Node
    BY <1>1, <1>2
  <2>2. r[k] = queue[k + 1]
    BY <1>1
  <2>3. AgeAll(r)[k] = [coro |-> r[k].coro, priority |-> r[k].priority + 1,
                        age |-> r[k].age + 1]
    BY <1>3, <2>1
  <2>. QED
    BY <2>1, <2>2, <2>3
<1>. QED
  BY <1>1, <1>3, <1>4 DEF r

\* The variables keep their types, for every set of coroutines, threads and
\* priorities: active_tasks never goes below zero, every queued node holds a
\* coroutine and a thread inserts one node at a time (scheduler.c).
THEOREM TypeCorrect == Spec => []TypeOK
<1>1. Init => TypeOK
  <2>1. <<>> \in Seq(Node)
    BY EmptySeq
  <2>2. Init => in_main \in BOOLEAN /\ exited \in BOOLEAN
    BY DEF Init
  <2>. QED
    BY <2>1, <2>2, MainAssumption DEF Init, TypeOK, CoroStates
<1>2. TypeOK /\ [Next]_vars => TypeOK'
  <2>. SUFFICES ASSUME TypeOK, [Next]_vars
                PROVE  TypeOK'
    OBVIOUS
  <2>. USE DEF TypeOK
  <2>1. ASSUME NEW t \in Threads, NEW c \in Coros, NEW p \in Priorities,
               CoroSetupPriority(t, c, p)
        PROVE  TypeOK'
    BY <2>1, PriorAssumption DEF CoroSetupPriority, CoroStates
  <2>2. ASSUME NEW t \in Threads, NEW c \in Coros, NEW p \in Priorities,
               SpawnPromise(t, c, p)
        PROVE  TypeOK'
    BY <2>2, PriorAssumption DEF SpawnPromise
  <2>3. ASSUME NEW c \in Coros, CoroSetupActive(c)
        PROVE  TypeOK'
    BY <2>3 DEF CoroSetupActive, IncActive, CoroStates
  <2>4. ASSUME NEW c \in Coros, Suspend(c)
        PROVE  TypeOK'
    BY <2>4 DEF Suspend, CoroStates
  <2>5. ASSUME NEW c \in Coros, Yield(c)
        PROVE  TypeOK'
    BY <2>5, NewNodeType DEF Yield, CoroStates
  <2>6. ASSUME NEW c \in Coros, FinishRemove(c)
        PROVE  TypeOK'
    BY <2>6 DEF FinishRemove, CoroStates
  <2>7. ASSUME NEW c \in Coros, FinishActive(c)
        PROVE  TypeOK'
    BY <2>7 DEF FinishActive, DecActive, CoroStates
  <2>8. ASSUME NEW t \in Threads, NEW c \in Coros, Wake(t, c)
        PROVE  TypeOK'
    BY <2>8, NewNodeType DEF Wake, CoroStates
  <2>9. ASSUME NEW t \in Threads, Insert(t)
        PROVE  TypeOK'
    <3>1. inserting[t] \in Node
      BY <2>9, InsertingNode DEF Insert
    <3>2. PICK i \in 1..(Len(queue) + 1) : queue' = LM!InsertAt(queue, i, inserting[t])
      BY <2>9 DEF Insert
    <3>3. queue' \in Seq(Node)
      <4>1. queue \in Seq(Node)
        BY DEF TypeOK
      <4>. QED
        BY <3>1, <3>2, <4>1, InsertAtProperties
    <3>. QED
      BY <2>9, <3>3 DEF Insert, CoroStates
  <2>10. ASSUME NEW t \in Threads, ThreadExit(t)
         PROVE  TypeOK'
    BY <2>10 DEF ThreadExit, DecActive
  <2>11. ASSUME NEW t \in Threads, NEW u \in Threads, SpawnThread(t, u)
         PROVE  TypeOK'
    BY <2>11 DEF SpawnThread, IncActive
  <2>12. CASE Run
    <3>1. queue' \in Seq(Node) /\ Head(queue) \in Node
      BY <2>12, AgedTail, HeadAndTail DEF Run
    <3>. QED
      BY <2>12, <3>1, MainAssumption DEF Run, CoroStates
  <2>13. CASE MainReturns
    BY <2>13 DEF MainReturns
  <2>14. CASE MainExits
    BY <2>14 DEF MainExits
  <2>15. CASE UNCHANGED vars
    BY <2>15 DEF vars
  <2>. QED
    BY <2>1, <2>2, <2>3, <2>4, <2>5, <2>6, <2>7, <2>8, <2>9, <2>10, <2>11,
       <2>12, <2>13, <2>14, <2>15 DEF Next, EndSlice
<1>. QED
  BY <1>1, <1>2, PTL DEF Spec

-----------------------------------------------------------------------------
(* The order of the queue.                                                 *)

\* One fact for both orders: an earlier node has a higher priority, or the
\* same priority and no lower age.
Before(x, y) ==
  \/ x.priority > y.priority
  \/ x.priority = y.priority /\ x.age >= y.age
Ordered(q) == \A i, j \in 1..Len(q) : i < j => Before(q[i], q[j])

\* A node that schedule prepared has not been passed over yet.
FreshNodes == \A t \in Threads : inserting[t].age = 0

OrderInv == Ordered(queue) /\ FreshNodes

\* The sorted insert of a fresh node keeps the order.
LEMMA InsertKeepsOrder ==
  ASSUME TypeOK, Ordered(queue), NEW e \in Node, e.age = 0,
         NEW i \in 1..(Len(queue) + 1), InsertPos(i, e.priority)
  PROVE  Ordered(LM!InsertAt(queue, i, e))
<1>. DEFINE n == LM!InsertAt(queue, i, e)
<1>0. queue \in Seq(Node)
  BY DEF TypeOK
<1>1. Len(queue) \in Nat /\ \A k \in 1..Len(queue) : queue[k] \in Node
  BY <1>0, LenProperties, ElementOfSeq
<1>2. /\ Len(n) = Len(queue) + 1
      /\ \A k \in 1..(Len(queue) + 1) :
           /\ k < i => n[k] = queue[k]
           /\ k = i => n[k] = e
           /\ k > i => n[k] = queue[k - 1]
  BY ONLY <1>0, e \in Node, i \in 1..(Len(queue) + 1), InsertAtProperties
<1>. HIDE DEF n
<1>3. ASSUME NEW j \in 1..Len(queue), j < i
      PROVE  Before(queue[j], e)
  <2>1. queue[j].priority >= e.priority /\ queue[j] \in Node
    BY <1>1, <1>3 DEF InsertPos
  <2>. QED
    BY <2>1 DEF Before, Node
<1>4. ASSUME NEW j \in 1..Len(queue), i <= j
      PROVE  Before(e, queue[j])
  <2>1. queue[i].priority < e.priority /\ queue[i] \in Node /\ queue[j] \in Node
    BY <1>1, <1>4 DEF InsertPos
  <2>2. queue[j].priority <= queue[i].priority
    <3>1. CASE i = j
      BY <2>1, <3>1 DEF Node
    <3>2. CASE i < j
      <4>1. Before(queue[i], queue[j])
        BY <1>1, <1>4, <3>2 DEF Ordered
      <4>. QED
        BY <2>1, <4>1 DEF Before, Node
    <3>. QED
      BY <1>1, <1>4, <3>1, <3>2
  <2>. QED
    BY <2>1, <2>2 DEF Before, Node
<1>5. ASSUME NEW j \in 1..Len(n), NEW k \in 1..Len(n), j < k
      PROVE  Before(n[j], n[k])
  <2>1. CASE k < i
    <3>1. n[j] = queue[j] /\ n[k] = queue[k] /\ j \in 1..Len(queue) /\ k \in 1..Len(queue)
      BY <1>1, <1>2, <1>5, <2>1
    <3>. QED
      BY <1>5, <3>1 DEF Ordered
  <2>2. CASE k = i
    <3>1. n[j] = queue[j] /\ n[k] = e /\ j \in 1..Len(queue) /\ j < i
      BY <1>1, <1>2, <1>5, <2>2
    <3>. QED
      BY <1>3, <3>1
  <2>3. CASE k > i /\ j < i
    <3>1. /\ n[j] = queue[j] /\ n[k] = queue[k - 1]
          /\ j \in 1..Len(queue) /\ k - 1 \in 1..Len(queue) /\ j < k - 1
      BY <1>1, <1>2, <1>5, <2>3
    <3>. QED
      BY <3>1 DEF Ordered
  <2>4. CASE k > i /\ j = i
    <3>1. n[j] = e /\ n[k] = queue[k - 1] /\ k - 1 \in 1..Len(queue) /\ i <= k - 1
      BY <1>1, <1>2, <1>5, <2>4
    <3>. QED
      BY <1>4, <3>1
  <2>5. CASE j > i
    <3>1. /\ n[j] = queue[j - 1] /\ n[k] = queue[k - 1]
          /\ j - 1 \in 1..Len(queue) /\ k - 1 \in 1..Len(queue) /\ j - 1 < k - 1
      BY <1>1, <1>2, <1>5, <2>5
    <3>. QED
      BY <3>1 DEF Ordered
  <2>. QED
    BY <1>1, <1>2, <1>5, <2>1, <2>2, <2>3, <2>4, <2>5
<1>6. Ordered(n)
  BY <1>5 DEF Ordered
<1>. QED
  BY <1>6 DEF n

\* Aging lifts every waiting node by one, so it keeps the order.
LEMMA AgingKeepsOrder ==
  ASSUME TypeOK, Ordered(queue), queue # <<>>
  PROVE  Ordered(AgeAll(Tail(queue)))
<1>. DEFINE n == AgeAll(Tail(queue))
<1>1. /\ Len(n) = Len(queue) - 1
      /\ \A k \in 1..(Len(queue) - 1) :
           /\ k + 1 \in 1..Len(queue) /\ queue[k + 1] \in Node
           /\ n[k].priority = queue[k + 1].priority + 1
           /\ n[k].age = queue[k + 1].age + 1
  BY AgedTail
<1>. HIDE DEF n
<1>2. ASSUME NEW j \in 1..Len(n), NEW k \in 1..Len(n), j < k
      PROVE  Before(n[j], n[k])
  <2>1. Before(queue[j + 1], queue[k + 1])
    BY <1>1, <1>2 DEF Ordered
  <2>. QED
    BY <1>1, <2>1, SMTT(30) DEF Before, Node
<1>3. Ordered(n)
  BY <1>2 DEF Ordered
<1>. QED
  BY <1>3 DEF n

\* Every step keeps the order.
LEMMA OrderStep == TypeOK /\ OrderInv /\ [Next]_vars => OrderInv'
<1>. SUFFICES ASSUME TypeOK, OrderInv, [Next]_vars
              PROVE  OrderInv'
  OBVIOUS
<1>. USE DEF OrderInv
<1>1. ASSUME UNCHANGED <<queue, inserting>>
      PROVE  OrderInv'
  BY <1>1 DEF FreshNodes, Ordered, Before
<1>2. ASSUME NEW t \in Threads \union {NONE}, NEW e \in {NewNode(c) : c \in Coros},
             inserting' = [inserting EXCEPT ![t] = e], UNCHANGED queue
      PROVE  OrderInv'
  <2>1. e.age = 0
    BY NewNodeType
  <2>2. FreshNodes'
    BY <1>2, <2>1 DEF FreshNodes, TypeOK
  <2>. QED
    BY <1>2, <2>2 DEF Ordered, Before
<1>3. ASSUME NEW c \in Coros, Yield(c)
      PROVE  OrderInv'
  <2>1. home[c] \in Threads \union {NONE} /\ NewNode(c) \in {NewNode(d) : d \in Coros}
    BY DEF TypeOK
  <2>2. inserting' = [inserting EXCEPT ![home[c]] = NewNode(c)] /\ UNCHANGED queue
    BY <1>3 DEF Yield
  <2>. QED
    BY <1>2, <2>1, <2>2
<1>4. ASSUME NEW t \in Threads, NEW c \in Coros, Wake(t, c)
      PROVE  OrderInv'
  BY <1>2, <1>4 DEF Wake
<1>5. ASSUME NEW t \in Threads, Insert(t)
      PROVE  OrderInv'
  <2>1. inserting[t] \in Node /\ inserting[t].age = 0
    BY <1>5, InsertingNode DEF Insert, FreshNodes
  <2>2. PICK i \in 1..(Len(queue) + 1) :
          InsertPos(i, inserting[t].priority) /\ queue' = LM!InsertAt(queue, i, inserting[t])
    BY <1>5 DEF Insert
  <2>3. Ordered(queue')
    BY <2>1, <2>2, InsertKeepsOrder
  <2>4. FreshNodes'
    BY <1>5 DEF Insert, FreshNodes, TypeOK, NoNode
  <2>. QED
    BY <2>3, <2>4 DEF Ordered, Before
<1>6. CASE Run
  <2>1. Ordered(queue')
    BY <1>6, AgingKeepsOrder DEF Run
  <2>. QED
    BY <1>6, <2>1 DEF Run, FreshNodes, Ordered, Before
<1>7. ASSUME \/ \E t \in Threads, c \in Coros, p \in Priorities :
                  CoroSetupPriority(t, c, p) \/ SpawnPromise(t, c, p)
             \/ \E c \in Coros : CoroSetupActive(c) \/ Suspend(c) \/ FinishRemove(c)
                                  \/ FinishActive(c)
             \/ \E t \in Threads : ThreadExit(t)
             \/ \E t, u \in Threads : SpawnThread(t, u)
             \/ MainReturns \/ MainExits \/ UNCHANGED vars
      PROVE  OrderInv'
  <2>1. UNCHANGED <<queue, inserting>>
    BY <1>7 DEF CoroSetupPriority, SpawnPromise, CoroSetupActive, Suspend, FinishRemove,
                FinishActive, ThreadExit, SpawnThread, MainReturns, MainExits, vars
  <2>. QED
    BY <1>1, <2>1
<1>. QED
  BY <1>3, <1>4, <1>5, <1>6, <1>7 DEF Next, EndSlice

LEMMA OrderAlways == Spec => []OrderInv
<1>1. Init => OrderInv
  <2>1. Len(<<>>) = 0
    BY EmptySeq
  <2>2. Init => Ordered(queue)
    BY <2>1 DEF Init, Ordered
  <2>3. Init => FreshNodes
    BY DEF Init, FreshNodes, NoNode
  <2>. QED
    BY <2>2, <2>3 DEF OrderInv
<1>. QED
  BY <1>1, OrderStep, TypeCorrect, PTL DEF Spec

\* For every set of coroutines and threads, and however inserts of several
\* threads interleave with aging, the queue is sorted by priority and first
\* in, first out among equals: the node that was passed over more often is
\* ahead (moksha_scheduler_schedule, moksha_scheduler_run).
THEOREM QueueOrdered == Spec => []QueueOrder
<1>1. TypeOK /\ OrderInv => QueueOrder
  <2>1. TypeOK => \A k \in 1..Len(queue) : queue[k] \in Node
    BY ElementOfSeq DEF TypeOK
  <2>. QED
    BY <2>1 DEF OrderInv, Ordered, Before, QueueOrder, Node
<1>. QED
  BY <1>1, OrderAlways, TypeCorrect, PTL

-----------------------------------------------------------------------------
(* Nodes and coroutines.                                                   *)

\* A slice runs on a thread that is alive, and main is.
HomeInv ==
  /\ Main \in alive
  /\ \A c \in Coros :
       cstate[c] \in {"registered", "running", "finishing"} => home[c] \in alive

\* A coroutine that was woken is in the hands of one thread, a queued one
\* has one node in the queue, and there is no other node.
NodeInv ==
  /\ \A t \in Threads : ~Idle(t) => cstate[inserting[t].coro] = "waking"
  /\ \A t, u \in Threads :
       (~Idle(t) /\ ~Idle(u) /\ inserting[t].coro = inserting[u].coro) => t = u
  /\ \A i \in 1..Len(queue) : cstate[queue[i].coro] = "queued"
  /\ \A i, j \in 1..Len(queue) : queue[i].coro = queue[j].coro => i = j
  /\ \A c \in Coros :
       cstate[c] = "queued" => \E i \in 1..Len(queue) : queue[i].coro = c

\* Slices stay on live threads.
LEMMA HomeStep == TypeOK /\ HomeInv /\ [Next]_vars => HomeInv'
<1>. SUFFICES ASSUME TypeOK, HomeInv, [Next]_vars
              PROVE  HomeInv'
  OBVIOUS
<1>. USE DEF TypeOK, HomeInv
<1>1. ASSUME NEW t \in Threads, NEW c \in Coros, NEW p \in Priorities,
             CoroSetupPriority(t, c, p) \/ SpawnPromise(t, c, p)
      PROVE  HomeInv'
  BY <1>1 DEF CoroSetupPriority, SpawnPromise, Active
<1>2. ASSUME NEW c \in Coros, CoroSetupActive(c) \/ FinishRemove(c)
      PROVE  HomeInv'
  BY <1>2 DEF CoroSetupActive, FinishRemove
<1>3. ASSUME NEW c \in Coros, Suspend(c) \/ Yield(c) \/ FinishActive(c)
      PROVE  HomeInv'
  BY <1>3 DEF Suspend, Yield, FinishActive
<1>4. ASSUME NEW t \in Threads, NEW c \in Coros, Wake(t, c)
      PROVE  HomeInv'
  BY <1>4 DEF Wake
<1>5. ASSUME NEW t \in Threads, Insert(t)
      PROVE  HomeInv'
  BY <1>5 DEF Insert
<1>6. ASSUME NEW t \in Threads, ThreadExit(t)
      PROVE  HomeInv'
  BY <1>6 DEF ThreadExit, RunsOn
<1>7. ASSUME NEW t \in Threads, NEW u \in Threads, SpawnThread(t, u)
      PROVE  HomeInv'
  BY <1>7 DEF SpawnThread
<1>8. CASE Run
  <2>1. Head(queue).coro \in Coros
    BY <1>8, HeadAndTail DEF Run, Node
  <2>. QED
    BY <1>8, <2>1 DEF Run
<1>9. CASE MainReturns \/ MainExits \/ UNCHANGED vars
  BY <1>9 DEF MainReturns, MainExits, vars
<1>. QED
  BY <1>1, <1>2, <1>3, <1>4, <1>5, <1>6, <1>7, <1>8, <1>9 DEF Next, EndSlice

\* Every step keeps one node for each woken coroutine.
LEMMA NodeStep == TypeOK /\ HomeInv /\ NodeInv /\ [Next]_vars => NodeInv'
<1>. SUFFICES ASSUME TypeOK, HomeInv, NodeInv, [Next]_vars
              PROVE  NodeInv'
  OBVIOUS
<1>0. /\ Len(queue) \in Nat /\ \A i \in 1..Len(queue) : queue[i].coro \in Coros
      /\ \A t \in Threads : ~Idle(t) => inserting[t].coro \in Coros
  <2>1. Len(queue) \in Nat /\ \A i \in 1..Len(queue) : queue[i] \in Node
    BY LenProperties, ElementOfSeq DEF TypeOK
  <2>2. \A t \in Threads : ~Idle(t) => inserting[t] \in Node
    BY InsertingNode
  <2>. QED
    BY <2>1, <2>2 DEF Node
<1>1. ASSUME NEW c \in Coros, NEW x \in CoroStates \ {"waking", "queued"},
             cstate[c] \notin {"waking", "queued"},
             cstate' = [cstate EXCEPT ![c] = x], UNCHANGED <<queue, inserting>>
      PROVE  NodeInv'
  BY <1>0, <1>1, SMTT(30) DEF NodeInv, TypeOK, Idle
<1>2. ASSUME NEW t \in Threads, Idle(t), NEW c \in Coros, cstate[c] \notin {"waking", "queued"},
             cstate' = [cstate EXCEPT ![c] = "waking"], UNCHANGED queue,
             inserting' = [inserting EXCEPT ![t] = NewNode(c)]
      PROVE  NodeInv'
  <2>1. NewNode(c).coro = c
    BY NewNodeType
  <2>2. \A u \in Threads : u # t => inserting'[u] = inserting[u] /\ Idle(u)' = Idle(u)
    BY <1>2 DEF TypeOK, Idle
  <2>3. inserting'[t].coro = c
    BY <1>2, <2>1 DEF TypeOK
  <2>. QED
    BY <1>0, <1>2, <2>2, <2>3 DEF NodeInv, TypeOK
<1>3. ASSUME UNCHANGED <<queue, inserting, cstate>>
      PROVE  NodeInv'
  BY <1>3 DEF NodeInv, Idle
<1>4. ASSUME NEW t \in Threads, NEW c \in Coros, NEW p \in Priorities,
             CoroSetupPriority(t, c, p) \/ SpawnPromise(t, c, p)
      PROVE  NodeInv'
  BY <1>1, <1>3, <1>4 DEF CoroSetupPriority, SpawnPromise, CoroStates
<1>5. ASSUME NEW c \in Coros,
             CoroSetupActive(c) \/ Suspend(c) \/ FinishRemove(c) \/ FinishActive(c)
      PROVE  NodeInv'
  BY <1>1, <1>5 DEF CoroSetupActive, Suspend, FinishRemove, FinishActive, CoroStates
<1>6. ASSUME NEW c \in Coros, Yield(c)
      PROVE  NodeInv'
  <2>1. home[c] \in Threads
    BY <1>6 DEF Yield, HomeInv, TypeOK
  <2>. QED
    BY <1>2, <1>6, <2>1 DEF Yield
<1>7. ASSUME NEW t \in Threads, NEW c \in Coros, Wake(t, c)
      PROVE  NodeInv'
  <2>1. Idle(t)
    BY <1>7 DEF Wake, Active
  <2>. QED
    BY <1>2, <1>7, <2>1 DEF Wake
<1>8. ASSUME NEW t \in Threads, Insert(t)
      PROVE  NodeInv'
  <2>. DEFINE c == inserting[t].coro
  <2>1. inserting[t] \in Node /\ c \in Coros /\ cstate[c] = "waking" /\ ~Idle(t)
    BY <1>8, InsertingNode DEF Insert, NodeInv, Node
  <2>2. PICK i \in 1..(Len(queue) + 1) : queue' = LM!InsertAt(queue, i, inserting[t])
    BY <1>8 DEF Insert
  <2>3. /\ Len(queue') = Len(queue) + 1
        /\ \A k \in 1..(Len(queue) + 1) :
             /\ k < i => queue'[k] = queue[k]
             /\ k = i => queue'[k] = inserting[t]
             /\ k > i => queue'[k] = queue[k - 1]
    <3>. DEFINE e == inserting[t]
    <3>1. e \in Node /\ queue \in Seq(Node)
      BY <2>1 DEF TypeOK
    <3>. HIDE DEF e
    <3>2. /\ Len(LM!InsertAt(queue, i, e)) = Len(queue) + 1
          /\ \A k \in 1..(Len(queue) + 1) :
               /\ k < i => LM!InsertAt(queue, i, e)[k] = queue[k]
               /\ k = i => LM!InsertAt(queue, i, e)[k] = e
               /\ k > i => LM!InsertAt(queue, i, e)[k] = queue[k - 1]
      BY <3>1, InsertAtProperties
    <3>3. queue' = LM!InsertAt(queue, i, e)
      BY <2>2 DEF e
    <3>4. /\ Len(queue') = Len(queue) + 1
          /\ \A k \in 1..(Len(queue) + 1) :
               /\ k < i => queue'[k] = queue[k]
               /\ k = i => queue'[k] = e
               /\ k > i => queue'[k] = queue[k - 1]
      BY <3>2, <3>3
    <3>. QED
      BY <3>4 DEF e
  <2>4. \A k \in 1..Len(queue) : queue[k].coro # c
    BY <2>1 DEF NodeInv
  <2>5. /\ \A u \in Threads : u # t => inserting'[u] = inserting[u] /\ Idle(u)' = Idle(u)
        /\ Idle(t)'
    BY <1>8 DEF Insert, TypeOK, Idle
  <2>6. cstate' = [cstate EXCEPT ![c] = "queued"]
    BY <1>8 DEF Insert
  <2>7. ASSUME NEW u \in Threads, ~Idle(u)'
        PROVE  cstate'[inserting'[u].coro] = "waking"
    <3>1. u # t /\ inserting'[u] = inserting[u] /\ ~Idle(u)
      BY <2>5, <2>7
    <3>2. inserting[u].coro # c /\ inserting[u].coro \in Coros
      BY <1>0, <2>1, <3>1 DEF NodeInv
    <3>. QED
      BY <2>6, <3>1, <3>2 DEF NodeInv, TypeOK
  <2>8. ASSUME NEW u \in Threads, NEW v \in Threads, ~Idle(u)', ~Idle(v)',
               inserting'[u].coro = inserting'[v].coro
        PROVE  u = v
    BY <2>5, <2>8 DEF NodeInv
  <2>9. ASSUME NEW k \in 1..Len(queue')
        PROVE  /\ k # i => /\ (IF k < i THEN k ELSE k - 1) \in 1..Len(queue)
                            /\ queue'[k] = queue[IF k < i THEN k ELSE k - 1]
               /\ k = i => queue'[k].coro = c
    BY <1>0, <2>3
  <2>10. ASSUME NEW k \in 1..Len(queue')
         PROVE  cstate'[queue'[k].coro] = "queued"
    <3>1. CASE k = i
      BY <2>1, <2>6, <2>9, <3>1 DEF TypeOK
    <3>2. CASE k # i
      <4>1. PICK n \in 1..Len(queue) : queue'[k] = queue[n]
        BY <2>9, <3>2
      <4>. QED
        BY <1>0, <2>4, <2>6, <4>1 DEF NodeInv, TypeOK
    <3>. QED
      BY <3>1, <3>2
  <2>11. ASSUME NEW k \in 1..Len(queue'), NEW n \in 1..Len(queue'),
                queue'[k].coro = queue'[n].coro
         PROVE  k = n
    <3>1. CASE k = i /\ n # i
      BY <2>4, <2>9, <2>11, <3>1
    <3>2. CASE n = i /\ k # i
      BY <2>4, <2>9, <2>11, <3>2
    <3>3. CASE k # i /\ n # i
      <4>1. (IF k < i THEN k ELSE k - 1) = (IF n < i THEN n ELSE n - 1)
        BY <2>9, <2>11, <3>3, SMTT(30) DEF NodeInv
      <4>. QED
        BY <1>0, <2>3, <3>3, <4>1
    <3>. QED
      BY <3>1, <3>2, <3>3
  <2>12. ASSUME NEW d \in Coros, cstate'[d] = "queued"
         PROVE  \E k \in 1..Len(queue') : queue'[k].coro = d
    <3>1. CASE d = c
      <4>1. i \in 1..Len(queue') /\ queue'[i].coro = c
        BY <1>0, <2>3
      <4>. QED
        BY <3>1, <4>1
    <3>2. CASE d # c
      <4>1. PICK n \in 1..Len(queue) : queue[n].coro = d
        BY <2>6, <2>12, <3>2 DEF NodeInv, TypeOK
      <4>2. CASE n < i
        <5>1. n \in 1..Len(queue') /\ queue'[n] = queue[n]
          BY <1>0, <2>3, <4>2
        <5>. QED
          BY <4>1, <5>1
      <4>3. CASE n >= i
        <5>1. n + 1 \in 1..(Len(queue) + 1) /\ n + 1 > i /\ (n + 1) - 1 = n
          BY <1>0, <4>3
        <5>2. queue'[n + 1] = queue[n] /\ n + 1 \in 1..Len(queue')
          BY <2>3, <5>1
        <5>. QED
          BY <4>1, <5>2
      <4>. QED
        BY <1>0, <4>2, <4>3
    <3>. QED
      BY <3>1, <3>2
  <2>. QED
    BY <2>7, <2>8, <2>10, <2>11, <2>12 DEF NodeInv
<1>9. CASE Run
  <2>. DEFINE c == Head(queue).coro
  <2>1. /\ c \in Coros /\ c = queue[1].coro /\ 1 \in 1..Len(queue)
    BY <1>9, HeadAndTail DEF Run, Node
  <2>2. /\ Len(queue') = Len(queue) - 1
        /\ \A k \in 1..(Len(queue) - 1) :
             k + 1 \in 1..Len(queue) /\ queue'[k].coro = queue[k + 1].coro
    BY <1>9, AgedTail DEF Run
  <2>3. cstate' = [cstate EXCEPT ![c] = "running"] /\ UNCHANGED inserting
    BY <1>9 DEF Run
  <2>4. cstate[c] = "queued" /\ \A k \in 2..Len(queue) : queue[k].coro # c
    BY <1>0, <2>1 DEF NodeInv
  <2>. HIDE DEF c
  <2>5. \A u \in Threads : ~Idle(u) => inserting[u].coro # c
    BY <2>4 DEF NodeInv
  <2>6. ASSUME NEW u \in Threads, ~Idle(u)'
        PROVE  cstate'[inserting'[u].coro] = "waking"
    BY <1>0, <2>3, <2>5, <2>6 DEF NodeInv, TypeOK, Idle
  <2>7. ASSUME NEW u \in Threads, NEW v \in Threads, ~Idle(u)', ~Idle(v)',
               inserting'[u].coro = inserting'[v].coro
        PROVE  u = v
    BY <2>3, <2>7 DEF NodeInv, Idle
  <2>8. ASSUME NEW k \in 1..Len(queue')
        PROVE  cstate'[queue'[k].coro] = "queued"
    <3>1. k + 1 \in 2..Len(queue) /\ queue'[k].coro = queue[k + 1].coro
      BY <1>0, <2>1, <2>2
    <3>2. queue[k + 1].coro \in Coros /\ queue[k + 1].coro # c
          /\ cstate[queue[k + 1].coro] = "queued"
      BY <1>0, <2>4, <3>1 DEF NodeInv
    <3>. QED
      BY <2>3, <3>1, <3>2 DEF TypeOK
  <2>9. ASSUME NEW k \in 1..Len(queue'), NEW n \in 1..Len(queue'),
               queue'[k].coro = queue'[n].coro
        PROVE  k = n
    <3>1. k + 1 = n + 1
      BY <1>0, <2>2, <2>9 DEF NodeInv
    <3>. QED
      BY <1>0, <2>2, <3>1
  <2>10. ASSUME NEW d \in Coros, cstate'[d] = "queued"
         PROVE  \E k \in 1..Len(queue') : queue'[k].coro = d
    <3>1. d # c /\ cstate[d] = "queued"
      BY <2>3, <2>10 DEF TypeOK
    <3>2. PICK n \in 1..Len(queue) : queue[n].coro = d
      BY <3>1 DEF NodeInv
    <3>3. n - 1 \in 1..(Len(queue) - 1) /\ (n - 1) + 1 = n
      BY <1>0, <2>1, <3>1, <3>2
    <3>4. queue'[n - 1].coro = d
      BY <2>2, <3>2, <3>3
    <3>. QED
      BY <2>2, <3>3, <3>4
  <2>. QED
    BY <2>6, <2>7, <2>8, <2>9, <2>10 DEF NodeInv
<1>10. ASSUME \/ \E t \in Threads : ThreadExit(t)
              \/ \E t, u \in Threads : SpawnThread(t, u)
              \/ MainReturns \/ MainExits \/ UNCHANGED vars
       PROVE  NodeInv'
  BY <1>3, <1>10 DEF ThreadExit, SpawnThread, MainReturns, MainExits, vars
<1>. QED
  BY <1>4, <1>5, <1>6, <1>7, <1>8, <1>9, <1>10 DEF Next, EndSlice

LEMMA NodesAlways == Spec => [](HomeInv /\ NodeInv)
<1>1. Init => HomeInv
  BY DEF Init, HomeInv
<1>2. Init => NodeInv
  BY EmptySeq DEF Init, NodeInv, Idle
<1>. QED
  BY <1>1, <1>2, HomeStep, NodeStep, TypeCorrect, PTL DEF Spec

\* A coroutine has one node exactly while it is queued, whatever threads
\* wake coroutines concurrently: none is lost between the two critical
\* sections of schedule, and none is resumed twice.
THEOREM OneNode == Spec => []OneNodeEach
<1>1. ASSUME TypeOK, NodeInv, NEW c \in Coros
      PROVE  Cardinality({i \in 1..Len(queue) : queue[i].coro = c})
               = IF cstate[c] = "queued" THEN 1 ELSE 0
  <2>. DEFINE D == {i \in 1..Len(queue) : queue[i].coro = c}
  <2>1. CASE cstate[c] = "queued"
    <3>1. PICK i \in 1..Len(queue) : queue[i].coro = c
      BY <1>1, <2>1 DEF NodeInv
    <3>2. D = {i}
      BY <1>1, <3>1 DEF NodeInv
    <3>. QED
      BY <2>1, <3>2, FS_Singleton
  <2>2. CASE cstate[c] # "queued"
    <3>1. D = {}
      BY <1>1, <2>2 DEF NodeInv
    <3>. QED
      BY <2>2, <3>1, FS_EmptySet
  <2>. QED
    BY <2>1, <2>2
<1>2. TypeOK /\ HomeInv /\ NodeInv => OneNodeEach
  BY <1>1 DEF OneNodeEach
<1>. QED
  BY <1>2, NodesAlways, TypeCorrect, PTL

-----------------------------------------------------------------------------
(* The count of active tasks and the end of main().                        *)

\* Both sets that are counted are finite.
LEMMA CountedFinite ==
  ASSUME TypeOK
  PROVE  /\ IsFiniteSet(Counted) /\ IsFiniteSet(alive \ {Main})
         /\ Cardinality(Counted) \in Nat /\ Cardinality(alive \ {Main}) \in Nat
<1>1. Counted \subseteq Coros /\ alive \ {Main} \subseteq Threads
  BY DEF Counted, TypeOK
<1>. QED
  BY <1>1, FiniteAssumption, FS_Subset, FS_CardinalityType

LEMMA RemoveOne ==
  ASSUME NEW S, IsFiniteSet(S), NEW x \in S
  PROVE  Cardinality(S \ {x}) = Cardinality(S) - 1 /\ Cardinality(S) > 0
<1>1. IsFiniteSet(S \ {x}) /\ Cardinality(S \ {x}) = Cardinality(S) - 1
  BY FS_RemoveElement
<1>2. Cardinality(S) \in Nat /\ Cardinality(S \ {x}) \in Nat
  BY <1>1, FS_CardinalityType
<1>. QED
  BY <1>1, <1>2

\* Nothing runs after main() left its loop, but main() itself.
LEMMA ExitedStops ==
  ASSUME TypeOK, exited, [Next]_vars
  PROVE  UNCHANGED <<cstate, alive, active_tasks, exited>>
BY DEF Next, EndSlice, CoroSetupPriority, SpawnPromise, CoroSetupActive, Suspend, Yield,
       FinishRemove, FinishActive, Wake, Insert, ThreadExit, SpawnThread, Run,
       MainReturns, MainExits, Active, vars

\* Every step keeps the count exact.  Only a coroutine's setup and end and a
\* thread's start and end change the sets that are counted.
LEMMA CountStep ==
  TypeOK /\ TypeOK' /\ HomeInv /\ ActiveCount /\ NodeInv /\ [Next]_vars => ActiveCount'
<1>. SUFFICES ASSUME TypeOK, TypeOK', HomeInv, ActiveCount, NodeInv, [Next]_vars
              PROVE  ActiveCount'
  OBVIOUS
<1>. USE CountedFinite
<1>1. ASSUME UNCHANGED <<active_tasks, alive>>, Counted' = Counted
      PROVE  ActiveCount'
  BY <1>1 DEF ActiveCount
<1>2. ASSUME NEW t \in Threads, NEW c \in Coros, NEW p \in Priorities,
             CoroSetupPriority(t, c, p) \/ SpawnPromise(t, c, p)
      PROVE  ActiveCount'
  <2>1. Counted' = Counted /\ UNCHANGED <<active_tasks, alive>>
    BY <1>2 DEF CoroSetupPriority, SpawnPromise, Counted, TypeOK
  <2>. QED
    BY <1>1, <2>1
<1>3. ASSUME NEW c \in Coros, CoroSetupActive(c)
      PROVE  ActiveCount'
  <2>1. Counted' = Counted \union {c} /\ c \notin Counted
    BY <1>3 DEF CoroSetupActive, Counted, TypeOK
  <2>2. Cardinality(Counted') = Cardinality(Counted) + 1
    BY <2>1, FS_AddElement
  <2>3. active_tasks' = active_tasks + 1 /\ alive' = alive
    BY <1>3 DEF CoroSetupActive, IncActive
  <2>. QED
    BY <2>2, <2>3 DEF ActiveCount, TypeOK
<1>4. ASSUME NEW c \in Coros, EndSlice(c)
      PROVE  ActiveCount'
  <2>1. Counted' = Counted /\ UNCHANGED <<active_tasks, alive>>
    BY <1>4 DEF EndSlice, Suspend, Yield, FinishRemove, Counted, TypeOK
  <2>. QED
    BY <1>1, <2>1
<1>5. ASSUME NEW c \in Coros, FinishActive(c)
      PROVE  ActiveCount'
  <2>1. Counted' = Counted \ {c} /\ c \in Counted
    BY <1>5 DEF FinishActive, Counted, TypeOK
  <2>2. Cardinality(Counted') = Cardinality(Counted) - 1 /\ Cardinality(Counted) > 0
    BY <2>1, RemoveOne
  <2>3. active_tasks' = active_tasks - 1 /\ alive' = alive
    BY <1>5, <2>2 DEF FinishActive, DecActive, ActiveCount, TypeOK
  <2>. QED
    BY <2>2, <2>3 DEF ActiveCount, TypeOK
<1>6. ASSUME NEW t \in Threads, NEW c \in Coros, Wake(t, c)
      PROVE  ActiveCount'
  <2>1. Counted' = Counted /\ UNCHANGED <<active_tasks, alive>>
    BY <1>6 DEF Wake, Counted, TypeOK
  <2>. QED
    BY <1>1, <2>1
<1>7. ASSUME NEW t \in Threads, Insert(t)
      PROVE  ActiveCount'
  <2>1. inserting[t].coro \in Coros /\ cstate[inserting[t].coro] = "waking"
    BY <1>7, InsertingNode DEF Insert, NodeInv, Node, Idle
  <2>2. Counted' = Counted /\ UNCHANGED <<active_tasks, alive>>
    BY <1>7, <2>1 DEF Insert, Counted, TypeOK
  <2>. QED
    BY <1>1, <2>2
<1>8. ASSUME NEW t \in Threads, ThreadExit(t)
      PROVE  ActiveCount'
  <2>1. alive' \ {Main} = (alive \ {Main}) \ {t} /\ t \in alive \ {Main}
    BY <1>8 DEF ThreadExit
  <2>2. /\ Cardinality(alive' \ {Main}) = Cardinality(alive \ {Main}) - 1
        /\ Cardinality(alive \ {Main}) > 0
    BY <2>1, RemoveOne
  <2>3. active_tasks' = active_tasks - 1 /\ Counted' = Counted
    BY <1>8, <2>2 DEF ThreadExit, DecActive, ActiveCount, TypeOK, Counted
  <2>. QED
    BY <2>2, <2>3 DEF ActiveCount, TypeOK
<1>9. ASSUME NEW t \in Threads, NEW u \in Threads, SpawnThread(t, u)
      PROVE  ActiveCount'
  <2>1. alive' \ {Main} = (alive \ {Main}) \union {u} /\ u \notin alive \ {Main}
    BY <1>9 DEF SpawnThread, HomeInv
  <2>2. Cardinality(alive' \ {Main}) = Cardinality(alive \ {Main}) + 1
    BY <2>1, FS_AddElement
  <2>3. active_tasks' = active_tasks + 1 /\ Counted' = Counted
    BY <1>9 DEF SpawnThread, IncActive, Counted
  <2>. QED
    BY <2>2, <2>3 DEF ActiveCount, TypeOK
<1>10. CASE Run
  <2>1. Head(queue).coro \in Coros /\ cstate[Head(queue).coro] = "queued"
    BY <1>10, HeadAndTail DEF Run, Node, NodeInv
  <2>2. Counted' = Counted /\ UNCHANGED <<active_tasks, alive>>
    BY <1>10, <2>1 DEF Run, Counted, TypeOK
  <2>. QED
    BY <1>1, <2>2
<1>11. CASE MainReturns \/ MainExits \/ UNCHANGED vars
  <2>1. Counted' = Counted /\ UNCHANGED <<active_tasks, alive>>
    BY <1>11 DEF MainReturns, MainExits, vars, Counted
  <2>. QED
    BY <1>1, <2>1
<1>. QED
  BY <1>2, <1>3, <1>4, <1>5, <1>6, <1>7, <1>8, <1>9, <1>10, <1>11 DEF Next

\* active_tasks is exactly the number of coroutines between coro_setup and
\* coro_finish plus the number of strong threads; the clamp at zero of
\* moksha_scheduler_dec_active is never used.
THEOREM CountExact == Spec => []ActiveCount
<1>1. Init => ActiveCount
  <2>1. Init => Counted = {} /\ alive \ {Main} = {} /\ active_tasks = 0
    BY DEF Init, Counted
  <2>. QED
    BY <2>1, FS_EmptySet DEF ActiveCount
<1>. QED
  BY <1>1, CountStep, NodesAlways, TypeCorrect, PTL DEF Spec

\* main() leaves its loop only when every coroutine has finished and every
\* strong thread has ended (moksha_scheduler_is_active, runtime_init.c).
THEOREM MainWaitsForAll == Spec => []NothingAbandoned
<1>1. Init => NothingAbandoned
  BY DEF Init, NothingAbandoned
<1>2. TypeOK /\ HomeInv /\ ActiveCount /\ NothingAbandoned /\ [Next]_vars => NothingAbandoned'
  <2>. SUFFICES ASSUME TypeOK, HomeInv, ActiveCount, NothingAbandoned, [Next]_vars, exited'
                PROVE  /\ \A c \in Coros : cstate'[c] \in {"unborn", "finished"}
                       /\ alive' = {Main}
    BY DEF NothingAbandoned
  <2>1. CASE exited
    BY <2>1, ExitedStops DEF NothingAbandoned
  <2>2. CASE ~exited
    <3>1. MainExits
      BY <2>2 DEF Next, EndSlice, CoroSetupPriority, SpawnPromise, CoroSetupActive, Suspend,
                  Yield, FinishRemove, FinishActive, Wake, Insert, ThreadExit, SpawnThread,
                  Run, MainReturns, vars
    <3>2. active_tasks = 0 /\ RunsOn(Main) = {} /\ UNCHANGED <<cstate, alive>>
      BY <3>1 DEF MainExits, IsActive, TypeOK
    <3>3. Cardinality(Counted) = 0 /\ Cardinality(alive \ {Main}) = 0
      BY <3>2, CountedFinite DEF ActiveCount
    <3>4. Counted = {} /\ alive \ {Main} = {}
      BY <3>3, CountedFinite, FS_EmptySet
    <3>5. alive = {Main}
      BY <3>4 DEF HomeInv
    <3>6. ASSUME NEW c \in Coros
          PROVE  cstate[c] \in {"unborn", "finished"}
      <4>1. cstate[c] \in {"unborn", "registered", "finished"}
        BY <3>4 DEF Counted
      <4>2. cstate[c] # "registered"
        BY <3>2, <3>5 DEF HomeInv, RunsOn
      <4>. QED
        BY <4>1, <4>2
    <3>. QED
      BY <3>2, <3>5, <3>6
  <2>. QED
    BY <2>1, <2>2
<1>. QED
  BY <1>1, <1>2, CountExact, NodesAlways, TypeCorrect, PTL DEF Spec
=============================================================================
