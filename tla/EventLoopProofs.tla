-------------------------- MODULE EventLoopProofs --------------------------
(***************************************************************************)
(* For any number of coroutines, any programs and any number of timers:    *)
(* timeout and select deliver what they should (CombinatorsDeliver) and    *)
(* main's loop leaves nothing behind (ExitsClean).  With enough timers and *)
(* without the two known ways to lose a wakeup, whoever sleeps is woken by *)
(* somebody (NobodyForgotten).                                             *)
(***************************************************************************)
EXTENDS EventLoop, FiniteSetTheorems, SequenceTheorems, TLAPS

States == {"unborn", "running", "queued", "suspended", "finished"}
Settlers == (Contexts \union {NONE}) \X Nat
Deliveries ==
  [st : {"none", "timeout", "pending", "resolved", "rejected"}, by : Settlers,
   from : Coros \union {NONE}, at : Nat]

\* Of what the calls of block_on wait for only main's matters here.
WaitTypes ==
  waits = [c \in Contexts |-> waits[c]] /\ waits[MAIN] \in Seq(Contexts)

LoopTypes ==
  /\ prog \in Programs
  /\ queue \in Seq(Coros) /\ active_tasks \in Nat
  /\ stack \in Seq(Contexts) /\ WaitTypes
  /\ cstate \in [Coros -> States] /\ pc \in [Coros -> Nat \ {0}]
  /\ promise \in [Contexts -> [st : {"pending", "resolved", "rejected"}, by : Settlers]]
  /\ waiter \in [Coros -> Coros \union {NONE}]
  /\ timer \in [Contexts -> {"none", "armed", "disarmed", "expired"}]
  /\ left \in [Contexts -> Int] /\ due \in [Coros -> Nat]
  /\ handles \in [Coros -> Seq(Coros \union {NONE})]
  /\ got \in [Coros -> Deliveries]
  /\ inTime \in SUBSET Coros
  /\ phase \in {"main", "loop", "exited"}

\* The native stack: main at the bottom, and coroutines whose slices run.
StackInv ==
  /\ Len(stack) >= 1 /\ stack[1] = MAIN
  /\ \A i \in 2..Len(stack) : stack[i] \in Coros /\ cstate[stack[i]] = "running"
  /\ \A i, j \in 1..Len(stack) : stack[i] = stack[j] => i = j

\* A coroutine is queued once.
QueueInv ==
  /\ \A i \in 1..Len(queue) : cstate[queue[i]] = "queued"
  /\ \A i, j \in 1..Len(queue) : queue[i] = queue[j] => i = j

\* Who is woken by a promise sleeps in the await of it, and whoever has a timer
\* sleeps in a sleep, a timeout or a select.
AsleepIn(c, ops) == cstate[c] = "suspended" /\ ~AtEnd(c) /\ Step(c).op \in ops
WaiterInv ==
  \A p \in Coros : waiter[p] # NONE =>
    AsleepIn(waiter[p], {"await"}) /\ Step(waiter[p]).of[1] = p
TimerInv ==
  \A c \in Coros : timer[c] # "none" =>
    /\ AsleepIn(c, {"sleep", "timeout", "select"})
    /\ Step(c).op = "timeout" => got[c] = Nothing /\ Len(handles[c]) = 1
    /\ Step(c).op = "select" => got[c] = Nothing /\ Len(handles[c]) = 2

MainInv ==
  /\ timer[MAIN] # "none" => waits[MAIN] = <<MAIN>> /\ IsPending(MAIN) /\ phase = "main"
  /\ phase # "main" => waits[MAIN] = <<>> /\ \A c \in Coros : cstate[c] # "unborn"

\* active_tasks is the number of coroutines that are alive.
Alive == {c \in Coros : cstate[c] \notin {"unborn", "finished"}}
CountInv == active_tasks = Cardinality(Alive)

\* A promise is only resolved by the return of its coroutine.
ResolvedInv == \A p \in Coros : promise[p].st = "resolved" => cstate[p] = "finished"

\* A select that has cancelled a promise is over, or its coroutine is queued.
CancelInv ==
  \A p \in Contexts, c \in Coros, k \in Nat : promise[p].by = <<c, k>> /\ k # 0 =>
    k < pc[c] \/ (k = pc[c] /\ cstate[c] = "queued")

\* A timeout that was answered in time has a settled promise to look at.
InTimeInv ==
  \A c \in inTime : got[c] = Nothing /\ Len(handles[c]) = 1 => Settled(handles[c][1])

DeliveredTo(c) ==
  got[c].st # "none" =>
    IF got[c].st = "timeout"
    THEN due[c] = 0 /\ c \notin inTime
    ELSE /\ got[c].from \in Coros /\ got[c].st # "pending"
         /\ promise[got[c].from].st = got[c].st
         /\ got[c].by # <<c, got[c].at>>
         /\ \A i \in DOMAIN handles[c] : handles[c][i] # NONE => Settled(handles[c][i])
DeliveredInv == \A c \in Coros : DeliveredTo(c)

LoopInv ==
  /\ LoopTypes /\ StackInv /\ QueueInv /\ WaiterInv /\ TimerInv /\ MainInv /\ CountInv
  /\ ResolvedInv /\ CancelInv /\ InTimeInv /\ DeliveredInv
  /\ phase = "exited" => active_tasks = 0
-----------------------------------------------------------------------------
(* Sequences: the stack is pushed and popped, the queue grows at its end.  *)

LEMMA FrontFacts ==
  ASSUME NEW S, NEW s \in Seq(S), Len(s) >= 1
  PROVE  /\ Front(s) \in Seq(S) /\ Len(Front(s)) = Len(s) - 1
         /\ \A i \in 1..Len(s) - 1 : Front(s)[i] = s[i]
<1>1. Len(s) \in Nat /\ Len(s) - 1 \in Nat
  BY LenProperties
<1>2. \A i \in 1..Len(s) - 1 : s[i] \in S
  BY <1>1, ElementOfSeq
<1> DEFINE n == Len(s) - 1
<1> HIDE DEF n
<1>3. n \in Nat /\ \A i \in 1..n : s[i] \in S
  BY <1>1, <1>2 DEF n
<1>4. /\ SubSeq(s, 1, n) \in Seq(S)
      /\ Len(SubSeq(s, 1, n)) = IF 1 <= n THEN n - 1 + 1 ELSE 0
      /\ \A i \in 1..n - 1 + 1 : SubSeq(s, 1, n)[i] = s[1 + i - 1]
  BY <1>3, SubSeqProperties
<1>5. /\ Len(SubSeq(s, 1, n)) = n
      /\ \A i \in 1..n : SubSeq(s, 1, n)[i] = s[i]
  BY <1>3, <1>4
<1>. QED
  BY <1>4, <1>5 DEF Front, n

\* A sequence to which at most one new element is appended.
LEMMA Enqueue ==
  ASSUME NEW S, NEW q \in Seq(S), NEW W \in SUBSET S,
         \A i, j \in 1..Len(q) : q[i] = q[j] => i = j,
         \A x, y \in W : x = y, \A i \in 1..Len(q) : q[i] \notin W
  PROVE  LET r == q \o SetToSeq(W) IN
           /\ r \in Seq(S)
           /\ \A i \in 1..Len(r) : r[i] \in W \/ \E j \in 1..Len(q) : r[i] = q[j]
           /\ \A i, j \in 1..Len(r) : r[i] = r[j] => i = j
<1>1. CASE W = {}
  <2>1. Cardinality(W) = 0
    BY <1>1, FS_EmptySet
  <2>2. <<>> \in [1..0 -> W] /\ IsInjective(<<>>)
    BY DEF IsInjective
  <2>3. SetToSeq(W) \in [1..0 -> W]
    BY <2>1, <2>2 DEF SetToSeq
  <2>4. SetToSeq(W) = <<>>
    BY <2>3
  <2>5. q \o SetToSeq(W) = q
    BY <2>4, ConcatEmptySeq
  <2>. QED
    BY <2>5
<1>2. CASE W # {}
  <2>1. PICK w \in W : W = {w}
    BY <1>2
  <2>2. Cardinality(W) = 1
    BY <2>1, FS_Singleton
  <2>3. <<w>> \in [1..1 -> W] /\ IsInjective(<<w>>)
    BY <2>1 DEF IsInjective
  <2>4. SetToSeq(W) \in [1..1 -> W]
    BY <2>2, <2>3 DEF SetToSeq
  <2>5. SetToSeq(W) = <<w>>
    BY <2>1, <2>4
  <2>6. <<w>> \in Seq(S) /\ Len(<<w>>) = 1 /\ <<w>>[1] = w
    BY <2>1
  <2> DEFINE r == q \o <<w>>
  <2>7. /\ r \in Seq(S) /\ Len(r) = Len(q) + 1
        /\ \A i \in 1..Len(r) : r[i] = IF i <= Len(q) THEN q[i] ELSE <<w>>[i - Len(q)]
    BY <2>6, ConcatProperties
  <2>8. Len(q) \in Nat
    BY LenProperties
  <2> HIDE DEF r
  <2>9. \A i \in 1..Len(r) : IF i <= Len(q) THEN r[i] = q[i] ELSE i = Len(q) + 1 /\ r[i] = w
    BY <2>6, <2>7, <2>8
  <2>10. \A i \in 1..Len(r) : r[i] \in W \/ \E j \in 1..Len(q) : r[i] = q[j]
    BY <2>1, <2>8, <2>9
  <2>11. \A i, j \in 1..Len(r) : r[i] = r[j] => i = j
    BY <2>1, <2>8, <2>9
  <2>. QED
    BY <2>5, <2>7, <2>10, <2>11 DEF r
<1>. QED
  BY <1>1, <1>2

LEMMA Appended ==
  ASSUME NEW S, NEW q \in Seq(S), NEW w \in S
  PROVE  /\ Append(q, w) \in Seq(S) /\ Len(Append(q, w)) = Len(q) + 1
         /\ \A i \in 1..Len(q) : Append(q, w)[i] = q[i]
         /\ Append(q, w)[Len(q) + 1] = w
BY AppendProperties, LenProperties

LEMMA TailFacts ==
  ASSUME NEW S, NEW q \in Seq(S), q # <<>>
  PROVE  /\ Head(q) \in S /\ Head(q) = q[1] /\ Len(q) >= 1
         /\ Tail(q) \in Seq(S) /\ Len(Tail(q)) = Len(q) - 1
         /\ \A i \in 1..Len(q) - 1 : Tail(q)[i] = q[i + 1]
<1>1. Len(q) \in Nat /\ Len(q) # 0
  BY EmptySeq, LenProperties
<1>2. q[1] \in S
  BY <1>1, ElementOfSeq
<1>. QED
  BY <1>1, <1>2, HeadTailProperties

-----------------------------------------------------------------------------
(* The names of coroutines, and the await a coroutine is at.               *)

LEMMA Names ==
  /\ Coros \subseteq Nat \ {0} /\ Contexts = Coros \union {MAIN} /\ Coros \subseteq Contexts
  /\ MAIN \notin Coros /\ NONE \notin Contexts /\ NONE \notin Coros /\ NONE \in Nat
  /\ IsFiniteSet(Coros)
<1>1. IsFiniteSet(Coros)
  BY ProgramAssumption, FS_Interval DEF Coros
<1>. QED
  BY <1>1, ProgramAssumption DEF Coros, Contexts, MAIN, NONE

LEMMA StepFacts ==
  ASSUME LoopTypes, NEW c \in Coros, ~AtEnd(c)
  PROVE  /\ Step(c).op \in {"yield", "sleep", "await", "timeout", "select", "join"}
         /\ Step(c).ms \in Nat /\ Step(c).of \in Seq(Coros)
         /\ Step(c).op \in {"await", "timeout"} => Len(Step(c).of) = 1 /\ Step(c).of[1] \in Coros
         /\ Step(c).op = "select" => Len(Step(c).of) = 2
<1> DEFINE s == prog[c].steps
           Ops == {"yield", "sleep", "await", "timeout", "select", "join"}
<1>1. /\ s \in Seq([op : Ops, ms : Nat, of : Seq(Coros)])
      /\ \A i \in DOMAIN s : /\ s[i].op \in {"await", "timeout"} => Len(s[i].of) = 1
                             /\ s[i].op = "select" => Len(s[i].of) = 2
  BY ProgramAssumption DEF LoopTypes
<1>2. pc[c] \in Nat \ {0} /\ ~(pc[c] > Len(s))
  BY DEF LoopTypes, AtEnd
<1> HIDE DEF s
<1>3. Len(s) \in Nat /\ DOMAIN s = 1..Len(s)
  BY <1>1, LenProperties
<1>4. pc[c] \in 1..Len(s)
  BY <1>2, <1>3
<1>5. s[pc[c]] \in [op : Ops, ms : Nat, of : Seq(Coros)]
  BY <1>1, <1>4, ElementOfSeq
<1>6. Step(c) = s[pc[c]]
  BY DEF Step, s
<1>7. Len(Step(c).of) = 1 => Step(c).of[1] \in Coros
  BY <1>5, <1>6, ElementOfSeq
<1>. QED
  BY <1>1, <1>3, <1>4, <1>5, <1>6, <1>7

\* Whoever is on top of the stack is main or a running coroutine.
LEMMA TopFacts ==
  ASSUME LoopTypes, StackInv
  PROVE  /\ Top \in Contexts /\ Len(stack) \in Nat /\ Len(stack) >= 1 /\ Top = stack[Len(stack)]
         /\ Top # MAIN => Top \in Coros /\ cstate[Top] = "running" /\ Len(stack) >= 2
<1>1. Len(stack) \in Nat
  BY LenProperties DEF LoopTypes
<1>2. stack[Len(stack)] \in Contexts
  BY <1>1, ElementOfSeq DEF LoopTypes, StackInv
<1>3. stack[Len(stack)] # MAIN => Len(stack) >= 2
  BY <1>1 DEF StackInv
<1>. QED
  BY <1>1, <1>2, <1>3 DEF Top, Last, StackInv

-----------------------------------------------------------------------------
(* What the parts of the invariant depend on.                              *)

LEMMA StackFrame == ASSUME StackInv, UNCHANGED <<stack, cstate>> PROVE StackInv'
BY DEF StackInv

LEMMA QueueFrame == ASSUME QueueInv, UNCHANGED <<queue, cstate>> PROVE QueueInv'
BY DEF QueueInv

LEMMA WaiterFrame == ASSUME WaiterInv, UNCHANGED <<waiter, cstate, pc, prog>> PROVE WaiterInv'
BY DEF WaiterInv, AsleepIn, AtEnd, Step

\* Waiters stay asleep in the same await, and so do those with a timer.
LEMMA WaiterKeeps ==
  ASSUME WaiterInv, UNCHANGED prog,
         \A p \in Coros : waiter'[p] # NONE =>
           /\ waiter'[p] = waiter[p] /\ cstate'[waiter[p]] = cstate[waiter[p]]
           /\ pc'[waiter[p]] = pc[waiter[p]]
  PROVE  WaiterInv'
<1> SUFFICES ASSUME NEW p \in Coros, waiter'[p] # NONE
             PROVE  AsleepIn(waiter[p], {"await"})' /\ Step(waiter[p])'.of[1] = p
  BY DEF WaiterInv
<1>1. PICK w : w = waiter[p] /\ w = waiter'[p]
  OBVIOUS
<1>2. AsleepIn(w, {"await"}) /\ Step(w).of[1] = p
  BY <1>1 DEF WaiterInv
<1>3. AsleepIn(w, {"await"})' /\ Step(w)'.of[1] = p
  BY <1>1, <1>2 DEF AsleepIn, AtEnd, Step
<1>. QED
  BY <1>1, <1>3 DEF AsleepIn, AtEnd, Step

LEMMA TimerKeeps ==
  ASSUME TimerInv, UNCHANGED prog,
         \A c \in Coros : timer'[c] # "none" =>
           /\ timer[c] # "none" /\ cstate'[c] = cstate[c] /\ pc'[c] = pc[c]
           /\ got'[c] = got[c] /\ handles'[c] = handles[c]
  PROVE  TimerInv'
BY DEF TimerInv, AsleepIn, AtEnd, Step

LEMMA TimerFrame ==
  ASSUME TimerInv, UNCHANGED <<timer, cstate, pc, prog, got, handles>> PROVE TimerInv'
BY DEF TimerInv, AsleepIn, AtEnd, Step

LEMMA MainFrame ==
  ASSUME MainInv, UNCHANGED <<timer, waits, promise, phase, cstate>> PROVE MainInv'
BY DEF MainInv, IsPending

LEMMA CountFrame == ASSUME CountInv, UNCHANGED <<active_tasks, cstate>> PROVE CountInv'
BY DEF CountInv, Alive

LEMMA ResolvedFrame == ASSUME ResolvedInv, UNCHANGED <<promise, cstate>> PROVE ResolvedInv'
BY DEF ResolvedInv

LEMMA CancelFrame == ASSUME CancelInv, UNCHANGED <<promise, pc, cstate>> PROVE CancelInv'
BY DEF CancelInv

LEMMA InTimeFrame ==
  ASSUME InTimeInv, UNCHANGED <<inTime, got, handles, promise>> PROVE InTimeInv'
BY DEF InTimeInv, Settled, IsPending

LEMMA DeliveredFrame ==
  ASSUME DeliveredInv, UNCHANGED <<got, due, inTime, promise, handles>> PROVE DeliveredInv'
BY DEF DeliveredInv, DeliveredTo, Settled, IsPending

LEMMA LoopStutters == ASSUME LoopInv, UNCHANGED vars PROVE LoopInv'
<1>1. LoopTypes'
  BY DEF LoopInv, LoopTypes, WaitTypes, vars, procVars, timerVars, waitVars
<1>. QED
  BY <1>1, StackFrame, QueueFrame, WaiterFrame, TimerFrame, MainFrame, CountFrame, ResolvedFrame,
     CancelFrame, InTimeFrame, DeliveredFrame DEF LoopInv, vars, procVars, timerVars, waitVars

LEMMA LoopStarts == ASSUME Init PROVE LoopInv
<1>1. LoopTypes
  <2>1. Itself(NONE) \in Settlers
    BY Names DEF Settlers, Itself
  <2>2. Pending \in [st : {"pending", "resolved", "rejected"}, by : Settlers]
    BY <2>1 DEF Pending
  <2>3. Nothing \in Deliveries
    BY <2>1, Names DEF Nothing, Deliveries
  <2>4. <<>> \in Seq(Coros) /\ <<>> \in Seq(Contexts) /\ <<>> \in Seq(Coros \union {NONE})
    OBVIOUS
  <2>5. <<MAIN>> \in Seq(Contexts)
    BY Names
  <2>. QED
    BY <2>2, <2>3, <2>4, <2>5, Names DEF Init, LoopTypes, WaitTypes, States
<1>2. StackInv /\ QueueInv
  BY Names DEF Init, StackInv, QueueInv
<1>3. WaiterInv /\ TimerInv /\ MainInv
  BY Names DEF Init, WaiterInv, TimerInv, MainInv
<1>4. CountInv
  <2>1. Alive = {}
    BY DEF Init, Alive
  <2>. QED
    BY <2>1, FS_EmptySet DEF Init, CountInv
<1>5. ResolvedInv /\ CancelInv
  BY Names DEF Init, ResolvedInv, CancelInv, Pending, Itself
<1>6. InTimeInv /\ DeliveredInv
  BY Names DEF Init, InTimeInv, DeliveredInv, DeliveredTo, Nothing
<1>. QED
  BY <1>1, <1>2, <1>3, <1>4, <1>5, <1>6 DEF LoopInv, Init

-----------------------------------------------------------------------------
(* main, the clock and the end of the program.                             *)

LEMMA TimerSet ==
  ASSUME LoopTypes, NEW c \in Contexts, NEW ms \in Nat, RegisterTimer(c, ms)
  PROVE  /\ timer' \in [Contexts -> {"none", "armed", "disarmed", "expired"}]
         /\ left' \in [Contexts -> Int]
         /\ \A d \in Contexts : d # c => timer'[d] = timer[d]
<1>1. CASE Cardinality(Open) >= MaxFds
  BY <1>1 DEF LoopTypes, RegisterTimer
<1>2. CASE ~(Cardinality(Open) >= MaxFds)
  <2>1. /\ timer' = [timer EXCEPT ![c] = IF ms = 0 THEN "disarmed" ELSE "armed"]
        /\ left' = [left EXCEPT ![c] = ms]
    BY <1>2 DEF RegisterTimer
  <2>. QED
    BY <2>1 DEF LoopTypes
<1>. QED
  BY <1>1, <1>2

LEMMA SpawnKeeps == ASSUME LoopInv, NEW c \in Coros, Spawn(c) PROVE LoopInv'
<1> USE DEF LoopInv, Spawn, InMain, timerVars, waitVars
<1>1. stack' \in Seq(Contexts) /\ Len(stack') = 2 /\ stack'[1] = MAIN /\ stack'[2] = c
  <2>1. <<MAIN>> \in Seq(Contexts) /\ Len(<<MAIN>>) = 1 /\ <<MAIN>>[1] = MAIN
    BY Names
  <2>. QED
    BY <2>1, Names, Appended
<1>2. cstate' = [cstate EXCEPT ![c] = "running"] /\ cstate[c] = "unborn"
  OBVIOUS
<1>3. LoopTypes'
  <2>1. cstate' \in [Coros -> States] /\ active_tasks' \in Nat
    BY DEF LoopTypes, States
  <2>. QED
    BY <1>1, <2>1 DEF LoopTypes, WaitTypes
<1>4. StackInv'
  BY <1>1, <1>2, Names DEF StackInv, LoopTypes
<1>5. QueueInv'
  <2>1. \A i \in 1..Len(queue) : queue[i] \in Coros
    BY ElementOfSeq DEF LoopTypes
  <2>. QED
    BY <2>1, <1>2 DEF QueueInv, LoopTypes
<1>6. WaiterInv'
  <2>1. \A p \in Coros : waiter[p] # NONE => waiter[p] \in Coros /\ waiter[p] # c
    BY <1>2 DEF WaiterInv, AsleepIn, LoopTypes
  <2>. QED
    BY <1>2, <2>1, WaiterKeeps DEF LoopTypes
<1>7. TimerInv'
  BY <1>2 DEF TimerInv, AsleepIn, AtEnd, Step, LoopTypes
<1>8. MainInv'
  BY DEF MainInv, IsPending
<1>9. CountInv'
  <2>1. Alive' = Alive \union {c} /\ c \notin Alive
    BY <1>2 DEF Alive, LoopTypes
  <2>2. IsFiniteSet(Alive)
    BY Names, FS_Subset DEF Alive
  <2>. QED
    BY <2>1, <2>2, FS_AddElement DEF CountInv
<1>10. ResolvedInv'
  BY <1>2 DEF ResolvedInv, LoopTypes
<1>11. CancelInv'
  BY <1>2 DEF CancelInv, LoopTypes
<1>. QED
  BY <1>3, <1>4, <1>5, <1>6, <1>7, <1>8, <1>9, <1>10, <1>11, InTimeFrame, DeliveredFrame

LEMMA MainBlocksKeeps ==
  ASSUME LoopInv, NEW ps \in Seq(Contexts), MainBlocks(ps) PROVE LoopInv'
<1> USE DEF LoopInv, MainBlocks, InMain, procVars, timerVars, waitVars
<1>1. LoopTypes'
  <2>1. waits' = [waits EXCEPT ![MAIN] = ps] /\ MAIN \in Contexts
    BY DEF Contexts
  <2>2. WaitTypes
    BY DEF LoopTypes
  <2>3. WaitTypes'
    <3> HIDE DEF LoopInv, MainBlocks
    <3>. QED
      BY <2>1, <2>2 DEF WaitTypes
  <2>. QED
    BY <2>3 DEF LoopTypes
<1>2. MainInv'
  BY Names DEF MainInv, LoopTypes
<1>. QED
  BY <1>1, <1>2, StackFrame, QueueFrame, WaiterFrame, TimerFrame, CountFrame, ResolvedFrame,
     CancelFrame, InTimeFrame, DeliveredFrame

LEMMA MainSleepKeeps == ASSUME LoopInv, MainSleep PROVE LoopInv'
<1> USE DEF LoopInv, MainSleep, InMain, procVars, waitVars
<1>1. /\ timer' \in [Contexts -> {"none", "armed", "disarmed", "expired"}]
      /\ left' \in [Contexts -> Int]
      /\ \A d \in Contexts : d # MAIN => timer'[d] = timer[d]
  BY TimerSet, Names, ProgramAssumption
<1>2. LoopTypes'
  <2>1. <<MAIN>> \in Seq(Contexts)
    BY Names
  <2>. QED
    BY <1>1, <2>1 DEF LoopTypes, WaitTypes
<1>3. TimerInv'
  <2>1. \A c \in Coros : timer'[c] = timer[c]
    BY <1>1, Names
  <2>. QED
    BY <2>1 DEF TimerInv, AsleepIn, AtEnd, Step
<1>4. MainInv'
  BY Names DEF MainInv, LoopTypes, WaitTypes, IsPending
<1>. QED
  BY <1>2, <1>3, <1>4, StackFrame, QueueFrame, WaiterFrame, CountFrame, ResolvedFrame,
     CancelFrame, InTimeFrame, DeliveredFrame

LEMMA MainReturnsKeeps == ASSUME LoopInv, MainReturns PROVE LoopInv'
<1> USE DEF LoopInv, MainReturns, InMain, procVars, timerVars, waitVars
<1>1. LoopTypes'
  BY DEF LoopTypes, WaitTypes
<1>2. MainInv'
  BY Names DEF MainInv, LoopTypes
<1>. QED
  BY <1>1, <1>2, StackFrame, QueueFrame, WaiterFrame, TimerFrame, CountFrame, ResolvedFrame,
     CancelFrame, InTimeFrame, DeliveredFrame

LEMMA ExitKeeps == ASSUME LoopInv, Exit PROVE LoopInv'
<1> USE DEF LoopInv, Exit, procVars, timerVars, waitVars
<1>1. LoopTypes'
  BY DEF LoopTypes, WaitTypes
<1>2. MainInv'
  BY DEF MainInv, IsPending
<1>3. active_tasks' = 0
  BY DEF IsActive, LoopTypes
<1>. QED
  BY <1>1, <1>2, <1>3, StackFrame, QueueFrame, WaiterFrame, TimerFrame, CountFrame, ResolvedFrame,
     CancelFrame, InTimeFrame, DeliveredFrame

LEMMA TickKeeps == ASSUME LoopInv, Tick PROVE LoopInv'
<1> USE DEF LoopInv, Tick, procVars, waitVars
<1>1. LoopTypes'
  BY DEF LoopTypes, WaitTypes
<1>2. \A c \in Contexts : timer'[c] # "none" => timer[c] # "none"
  OBVIOUS
<1>3. TimerInv'
  BY <1>2, Names DEF TimerInv, AsleepIn, AtEnd, Step
<1>4. MainInv'
  BY <1>2, Names DEF MainInv, IsPending
<1>5. DeliveredInv'
  <2>1. \A c \in Coros : due[c] = 0 => due'[c] = 0
    BY DEF LoopTypes
  <2>. QED
    BY <2>1 DEF DeliveredInv, DeliveredTo, Settled, IsPending
<1>. QED
  BY <1>1, <1>3, <1>4, <1>5, StackFrame, QueueFrame, WaiterFrame, CountFrame, ResolvedFrame,
     CancelFrame, InTimeFrame

LEMMA MainWakerKeeps == ASSUME LoopInv, MainWaker PROVE LoopInv'
<1> USE DEF LoopInv, MainWaker, Close, procVars, waitVars
<1>1. \A p \in Coros : promise'[p] = promise[p] /\ timer'[p] = timer[p]
  BY Names DEF LoopTypes
<1>2. /\ promise'[MAIN] = [st |-> "resolved", by |-> Itself(MAIN)]
      /\ timer'[MAIN] = "none"
  BY Names DEF LoopTypes
<1>3. LoopTypes'
  <2>1. Itself(MAIN) \in Settlers
    BY Names DEF Settlers, Itself
  <2>2. promise' \in [Contexts -> [st : {"pending", "resolved", "rejected"}, by : Settlers]]
    BY <2>1 DEF LoopTypes
  <2>3. timer' \in [Contexts -> {"none", "armed", "disarmed", "expired"}]
    BY DEF LoopTypes
  <2>. QED
    BY <2>2, <2>3 DEF LoopTypes, WaitTypes
<1>4. TimerInv'
  BY <1>1 DEF TimerInv, AsleepIn, AtEnd, Step
<1>5. MainInv'
  BY <1>2 DEF MainInv
<1>6. ResolvedInv'
  BY <1>1 DEF ResolvedInv
<1>7. CancelInv'
  BY <1>1, <1>2, Names DEF CancelInv, Itself
<1>8. \A p \in Coros : Settled(p)' <=> Settled(p)
  BY <1>1 DEF Settled, IsPending
<1>9. \A c \in Coros : \A i \in DOMAIN handles[c] : Settled(handles[c][i])' <=> Settled(handles[c][i])
  <2>1. \A c \in Coros : \A i \in DOMAIN handles[c] : handles[c][i] \in Coros \union {NONE}
    BY ElementOfSeq, LenProperties DEF LoopTypes
  <2>. QED
    BY <1>8, <2>1 DEF Settled
<1>10. InTimeInv'
  <2>1. \A c \in Coros : Len(handles[c]) = 1 => 1 \in DOMAIN handles[c]
    BY LenProperties DEF LoopTypes
  <2>. QED
    BY <1>9, <2>1 DEF InTimeInv, LoopTypes
<1>11. DeliveredInv'
  BY <1>1, <1>9 DEF DeliveredInv, DeliveredTo
<1>. QED
  BY <1>3, <1>4, <1>5, <1>6, <1>7, <1>10, <1>11, StackFrame, QueueFrame, WaiterFrame, CountFrame

-----------------------------------------------------------------------------
(* What keeps the parts of the invariant when coroutines go on.            *)

LEMMA StackKeeps ==
  ASSUME LoopTypes, StackInv, UNCHANGED stack,
         \A d \in Coros : cstate[d] = "running" => cstate'[d] = "running"
  PROVE  StackInv'
BY DEF StackInv

LEMMA StackPops ==
  ASSUME LoopTypes, StackInv, Top # MAIN, stack' = Front(stack),
         \A d \in Coros : d # Top /\ cstate[d] = "running" => cstate'[d] = "running"
  PROVE  stack' \in Seq(Contexts) /\ StackInv'
<1>1. Len(stack) \in Nat /\ Len(stack) >= 2 /\ Top = stack[Len(stack)]
  BY TopFacts
<1>2. /\ stack' \in Seq(Contexts) /\ Len(stack') = Len(stack) - 1
      /\ \A i \in 1..Len(stack) - 1 : stack'[i] = stack[i]
  <2>1. stack \in Seq(Contexts) /\ Len(stack) >= 1
    BY <1>1 DEF LoopTypes
  <2>2. /\ Front(stack) \in Seq(Contexts) /\ Len(Front(stack)) = Len(stack) - 1
        /\ \A i \in 1..Len(stack) - 1 : Front(stack)[i] = stack[i]
    BY <2>1, FrontFacts
  <2>. QED
    BY <2>2
<1>3. \A i \in 1..Len(stack') : stack'[i] = stack[i] /\ stack[i] # Top
  BY <1>1, <1>2 DEF StackInv
<1>. QED
  BY <1>1, <1>2, <1>3, SMTT(30) DEF StackInv

LEMMA QueueKeeps ==
  ASSUME LoopTypes, QueueInv, UNCHANGED queue,
         \A d \in Coros : cstate[d] = "queued" => cstate'[d] = "queued"
  PROVE  QueueInv'
<1>1. \A i \in 1..Len(queue) : queue[i] \in Coros
  BY ElementOfSeq DEF LoopTypes
<1>. QED
  BY <1>1 DEF QueueInv

LEMMA QueueWakes ==
  ASSUME LoopTypes, QueueInv, NEW W \in SUBSET Coros, \A x, y \in W : x = y,
         \A x \in W : cstate[x] # "queued" /\ cstate'[x] = "queued",
         queue' = queue \o SetToSeq(W),
         \A d \in Coros : cstate[d] = "queued" => cstate'[d] = "queued"
  PROVE  queue' \in Seq(Coros) /\ QueueInv'
<1>1. \A i \in 1..Len(queue) : queue[i] \in Coros /\ cstate[queue[i]] = "queued"
  BY ElementOfSeq DEF LoopTypes, QueueInv
<1>2. /\ queue \in Seq(Coros) /\ \A i, j \in 1..Len(queue) : queue[i] = queue[j] => i = j
      /\ \A i \in 1..Len(queue) : queue[i] \notin W
  BY <1>1 DEF LoopTypes, QueueInv
<1>3. /\ queue' \in Seq(Coros)
      /\ \A i \in 1..Len(queue') : queue'[i] \in W \/ \E j \in 1..Len(queue) : queue'[i] = queue[j]
      /\ \A i, j \in 1..Len(queue') : queue'[i] = queue'[j] => i = j
  <2> DEFINE r == queue \o SetToSeq(W)
  <2>1. /\ r \in Seq(Coros)
        /\ \A i \in 1..Len(r) : r[i] \in W \/ \E j \in 1..Len(queue) : r[i] = queue[j]
        /\ \A i, j \in 1..Len(r) : r[i] = r[j] => i = j
    BY <1>2, Enqueue
  <2>2. queue' = r
    OBVIOUS
  <2> HIDE DEF r
  <2>. QED
    BY <2>1, <2>2
<1>4. ASSUME NEW i \in 1..Len(queue') PROVE cstate'[queue'[i]] = "queued"
  <2>1. CASE queue'[i] \in W
    BY <2>1
  <2>2. CASE \E j \in 1..Len(queue) : queue'[i] = queue[j]
    BY <1>1, <2>2
  <2>. QED
    BY <1>3, <2>1, <2>2
<1>. QED
  BY <1>3, <1>4 DEF QueueInv

LEMMA QueueAppends ==
  ASSUME LoopTypes, QueueInv, NEW c \in Coros, cstate[c] # "queued", cstate'[c] = "queued",
         queue' = Append(queue, c),
         \A d \in Coros : cstate[d] = "queued" => cstate'[d] = "queued"
  PROVE  queue' \in Seq(Coros) /\ QueueInv'
<1>1. Len(queue) \in Nat /\ \A i \in 1..Len(queue) : queue[i] \in Coros /\ cstate[queue[i]] = "queued"
  BY ElementOfSeq, LenProperties DEF LoopTypes, QueueInv
<1>2. /\ queue' \in Seq(Coros) /\ Len(queue') = Len(queue) + 1
      /\ \A i \in 1..Len(queue) : queue'[i] = queue[i]
      /\ queue'[Len(queue) + 1] = c
  BY Appended DEF LoopTypes
<1>3. \A i \in 1..Len(queue') : i \in 1..Len(queue) \/ i = Len(queue) + 1
  BY <1>1, <1>2
<1>. QED
  BY <1>1, <1>2, <1>3 DEF QueueInv

LEMMA QueueAppendsAndWakes ==
  ASSUME LoopTypes, QueueInv, NEW c \in Coros, cstate[c] # "queued", cstate'[c] = "queued",
         NEW W \in SUBSET Coros, \A x, y \in W : x = y, c \notin W,
         \A x \in W : cstate[x] # "queued" /\ cstate'[x] = "queued",
         queue' = Append(queue, c) \o SetToSeq(W),
         \A d \in Coros : cstate[d] = "queued" => cstate'[d] = "queued"
  PROVE  queue' \in Seq(Coros) /\ QueueInv'
<1> DEFINE r == Append(queue, c)
           s == r \o SetToSeq(W)
<1>1. Len(queue) \in Nat /\ \A i \in 1..Len(queue) : queue[i] \in Coros /\ cstate[queue[i]] = "queued"
  BY ElementOfSeq, LenProperties DEF LoopTypes, QueueInv
<1>2. /\ r \in Seq(Coros) /\ Len(r) = Len(queue) + 1
      /\ \A i \in 1..Len(queue) : r[i] = queue[i]
      /\ r[Len(queue) + 1] = c
  BY Appended DEF LoopTypes
<1>3. queue' = s
  OBVIOUS
<1> HIDE DEF r
<1>4. \A i \in 1..Len(r) : i \in 1..Len(queue) \/ i = Len(queue) + 1
  BY <1>1, <1>2
<1>5. \A i \in 1..Len(r) : r[i] \notin W /\ cstate'[r[i]] = "queued"
  BY <1>1, <1>2, <1>4
<1>6. \A i, j \in 1..Len(r) : r[i] = r[j] => i = j
  BY <1>1, <1>2, <1>4 DEF QueueInv
<1>7. /\ s \in Seq(Coros)
      /\ \A i \in 1..Len(s) : s[i] \in W \/ \E j \in 1..Len(r) : s[i] = r[j]
      /\ \A i, j \in 1..Len(s) : s[i] = s[j] => i = j
  <2>1. \A i \in 1..Len(r) : r[i] \notin W
    BY <1>5
  <2>. QED
    BY <1>2, <1>6, <2>1, Enqueue, SMTT(30)
<1> HIDE DEF s
<1>8. \A i \in 1..Len(s) : cstate'[s[i]] = "queued"
  BY <1>5, <1>7
<1>. QED
  BY <1>3, <1>7, <1>8 DEF QueueInv

LEMMA CountKeeps ==
  ASSUME CountInv, UNCHANGED active_tasks,
         \A d \in Coros : cstate'[d] \in {"unborn", "finished"} <=> cstate[d] \in {"unborn", "finished"}
  PROVE  CountInv'
<1>1. Alive' = Alive
  BY DEF Alive
<1>. QED
  BY <1>1 DEF CountInv

LEMMA ResolvedKeeps ==
  ASSUME ResolvedInv, UNCHANGED promise,
         \A d \in Coros : cstate[d] = "finished" => cstate'[d] = "finished"
  PROVE  ResolvedInv'
BY DEF ResolvedInv

LEMMA CancelKeeps ==
  ASSUME LoopTypes, CancelInv, UNCHANGED pc,
         \A d \in Coros : cstate[d] = "queued" => cstate'[d] = "queued",
         \A p \in Contexts, c \in Coros, k \in Nat :
           promise'[p].by = <<c, k>> /\ k # 0 => promise[p].by = <<c, k>>
  PROVE  CancelInv'
<1> SUFFICES ASSUME NEW p \in Contexts, NEW c \in Coros, NEW k \in Nat, promise'[p].by = <<c, k>>, k # 0
             PROVE  k < pc[c] \/ (k = pc[c] /\ cstate'[c] = "queued")
  BY DEF CancelInv
<1>1. promise[p].by = <<c, k>>
  OBVIOUS
<1>2. k < pc[c] \/ (k = pc[c] /\ cstate[c] = "queued")
  BY <1>1 DEF CancelInv
<1>. QED
  BY <1>2

\* A promise that is settled stays so, and as it is.
Lasting == \A p \in Coros : promise[p].st # "pending" => promise'[p].st = promise[p].st

LEMMA SettledLasts ==
  ASSUME LoopTypes, Lasting, NEW p \in Coros \union {NONE}, Settled(p) PROVE Settled(p)'
BY DEF Lasting, Settled, IsPending

LEMMA HandleFacts ==
  ASSUME LoopTypes, NEW c \in Coros
  PROVE  /\ Len(handles[c]) \in Nat /\ DOMAIN handles[c] = 1..Len(handles[c])
         /\ \A i \in DOMAIN handles[c] : handles[c][i] \in Coros \union {NONE}
BY ElementOfSeq, LenProperties DEF LoopTypes

LEMMA InTimeKeeps ==
  ASSUME LoopTypes, InTimeInv, Lasting, inTime' \subseteq Coros,
         \A c \in inTime' : got'[c] = Nothing /\ Len(handles'[c]) = 1 =>
           \/ c \in inTime /\ got[c] = got'[c] /\ handles[c] = handles'[c]
           \/ Settled(handles[c][1])'
  PROVE  InTimeInv'
<1> SUFFICES ASSUME NEW c \in inTime', got'[c] = Nothing, Len(handles'[c]) = 1
             PROVE  Settled(handles[c][1])'
  BY DEF InTimeInv, Nothing
<1>1. CASE c \in inTime /\ got[c] = got'[c] /\ handles[c] = handles'[c]
  <2>1. Settled(handles[c][1])
    BY <1>1 DEF InTimeInv
  <2>2. PICK p : p = handles[c][1]
    OBVIOUS
  <2>3. p \in Coros \union {NONE}
    BY <1>1, <2>2, HandleFacts
  <2>4. Settled(p)'
    BY <2>1, <2>2, <2>3, SettledLasts
  <2>. QED
    BY <1>1, <2>2, <2>4 DEF Settled, IsPending
<1>. QED
  BY <1>1

LEMMA DeliveredKeeps ==
  ASSUME LoopTypes, Lasting, NEW c \in Coros, DeliveredTo(c),
         got'[c] = got[c], handles'[c] = handles[c],
         got[c].st = "timeout" => (due[c] = 0 => due'[c] = 0) /\ (c \in inTime' => c \in inTime)
  PROVE  DeliveredTo(c)'
<1> SUFFICES ASSUME got[c].st # "none", got[c].st # "timeout" PROVE DeliveredTo(c)'
  BY DEF DeliveredTo
<1>1. /\ got[c].from \in Coros /\ got[c].st # "pending" /\ promise[got[c].from].st = got[c].st
      /\ got[c].by # <<c, got[c].at>>
      /\ \A i \in DOMAIN handles[c] : handles[c][i] # NONE => Settled(handles[c][i])
  BY DEF DeliveredTo
<1>2. promise'[got[c].from].st = got[c].st
  BY <1>1 DEF Lasting
<1>3. ASSUME NEW i \in DOMAIN handles[c], handles[c][i] # NONE
      PROVE  promise'[handles[c][i]].st # "pending"
  BY <1>1, <1>3, HandleFacts DEF Lasting, Settled, IsPending
<1>. QED
  BY <1>1, <1>2, <1>3 DEF DeliveredTo, Settled, IsPending

-----------------------------------------------------------------------------
(* A slice of a coroutine.                                                 *)

LEMMA MainKeeps ==
  ASSUME MainInv, timer'[MAIN] = timer[MAIN] \/ timer'[MAIN] = "none", waits'[MAIN] = waits[MAIN],
         promise'[MAIN] = promise[MAIN], UNCHANGED phase,
         \A c \in Coros : cstate[c] # "unborn" => cstate'[c] # "unborn"
  PROVE  MainInv'
BY DEF MainInv, IsPending

LEMMA RunningFacts ==
  ASSUME LoopInv, NEW c \in Coros, Top = c
  PROVE  /\ c # MAIN /\ cstate[c] = "running" /\ timer[c] = "none"
         /\ \A p \in Coros : waiter[p] # c
<1>1. c # MAIN /\ cstate[c] = "running"
  BY Names, TopFacts DEF LoopInv
<1>2. timer[c] = "none"
  BY <1>1 DEF LoopInv, TimerInv, AsleepIn
<1>3. \A p \in Coros : waiter[p] # c
  BY <1>1, Names DEF LoopInv, WaiterInv, AsleepIn
<1>. QED
  BY <1>1, <1>2, <1>3

\* A slice that ends without a change of its promise: the coroutine waits for
\* a waker or is queued.
Leaves(c, st) ==
  /\ stack' = Front(stack) /\ cstate' = [cstate EXCEPT ![c] = st]
  /\ UNCHANGED <<active_tasks, pc, promise>>

LEMMA LeaveKeeps ==
  ASSUME LoopInv, NEW c \in Coros, Top = c, NEW st \in {"suspended", "queued"}, Leaves(c, st)
  PROVE  /\ stack' \in Seq(Contexts) /\ StackInv'
         /\ cstate' \in [Coros -> States] /\ cstate'[c] = st
         /\ \A d \in Coros : d # c => cstate'[d] = cstate[d]
         /\ \A d \in Coros : cstate[d] = "queued" => cstate'[d] = "queued"
         /\ CountInv' /\ ResolvedInv' /\ CancelInv'
<1> USE DEF LoopInv, Leaves
<1>1. c # MAIN /\ cstate[c] = "running"
  BY RunningFacts
<1>2. /\ cstate' \in [Coros -> States] /\ cstate'[c] = st
      /\ \A d \in Coros : d # c => cstate'[d] = cstate[d]
  BY DEF LoopTypes, States
<1>3. \A d \in Coros : cstate[d] = "queued" => cstate'[d] = "queued"
  BY <1>1, <1>2
<1>4. stack' \in Seq(Contexts) /\ StackInv'
  BY <1>1, <1>2, StackPops
<1>5. CountInv'
  BY <1>1, <1>2, CountKeeps
<1>6. ResolvedInv'
  BY <1>1, <1>2, ResolvedKeeps
<1>7. CancelInv'
  BY <1>3, CancelKeeps
<1>. QED
  BY <1>2, <1>3, <1>4, <1>5, <1>6, <1>7

LEMMA SuspendKeeps ==
  ASSUME LoopInv, NEW c \in Coros, Top = c, Suspend(c), UNCHANGED promise
  PROVE  /\ Leaves(c, "suspended") /\ QueueInv'
<1>1. Leaves(c, "suspended")
  BY DEF Suspend, Leaves
<1>2. \A d \in Coros : cstate[d] = "queued" => cstate'[d] = "queued"
  BY <1>1, LeaveKeeps
<1>. QED
  BY <1>1, <1>2, QueueKeeps DEF Suspend, LoopInv

LEMMA RequeueKeeps ==
  ASSUME LoopInv, NEW c \in Coros, Top = c, Requeue(c), UNCHANGED promise
  PROVE  /\ Leaves(c, "queued") /\ queue' \in Seq(Coros) /\ QueueInv'
<1>1. Leaves(c, "queued")
  BY DEF Requeue, Leaves
<1>2. \A d \in Coros : cstate[d] = "queued" => cstate'[d] = "queued"
  BY <1>1, LeaveKeeps
<1>3. cstate'[c] = "queued"
  BY <1>1, LeaveKeeps
<1>4. cstate[c] # "queued"
  BY RunningFacts
<1>. QED
  BY <1>1, <1>2, <1>3, <1>4, QueueAppends DEF Requeue, LoopInv

\* The coroutine that leaves is no waiter of a promise and has no timer.
LEMMA LeavesAsleep ==
  ASSUME LoopInv, NEW c \in Coros, Top = c, NEW st \in {"suspended", "queued"}, Leaves(c, st),
         UNCHANGED prog
  PROVE  /\ UNCHANGED waiter => WaiterInv'
         /\ (\A d \in Coros \ {c} : timer'[d] = timer[d] /\ got'[d] = got[d] /\ handles'[d] = handles[d])
              /\ timer'[c] = "none" => TimerInv'
         /\ timer'[MAIN] = timer[MAIN] /\ waits'[MAIN] = waits[MAIN] /\ UNCHANGED phase => MainInv'
<1> USE DEF LoopInv
<1>1. /\ \A d \in Coros : d # c => cstate'[d] = cstate[d]
      /\ cstate'[c] = st
  BY LeaveKeeps
<1>2. /\ cstate[c] = "running" /\ \A p \in Coros : waiter[p] # c
  BY RunningFacts
<1>3. ASSUME UNCHANGED waiter PROVE WaiterInv'
  <2>1. \A p \in Coros : waiter[p] # NONE => waiter[p] \in Coros
    BY DEF LoopTypes
  <2>. QED
    BY <1>1, <1>2, <1>3, <2>1, WaiterKeeps DEF Leaves
<1>4. ASSUME \A d \in Coros \ {c} : timer'[d] = timer[d] /\ got'[d] = got[d] /\ handles'[d] = handles[d],
             timer'[c] = "none"
      PROVE  TimerInv'
  BY <1>1, <1>4, TimerKeeps DEF Leaves
<1>5. ASSUME timer'[MAIN] = timer[MAIN], waits'[MAIN] = waits[MAIN], UNCHANGED phase PROVE MainInv'
  BY <1>1, <1>5, MainKeeps DEF Leaves
<1>. QED
  BY <1>3, <1>4, <1>5

LEMMA YieldKeeps == ASSUME LoopInv, NEW c \in Coros, Yield(c) PROVE LoopInv'
<1> USE DEF LoopInv, Yield, Runs, timerVars, waitVars
<1>1. Leaves(c, "queued") /\ queue' \in Seq(Coros) /\ QueueInv'
  BY RequeueKeeps
<1>2. /\ stack' \in Seq(Contexts) /\ StackInv' /\ cstate' \in [Coros -> States]
      /\ CountInv' /\ ResolvedInv' /\ CancelInv'
  BY <1>1, LeaveKeeps
<1>3. LoopTypes'
  BY <1>1, <1>2 DEF LoopTypes, WaitTypes, Leaves
<1>4. timer[c] = "none"
  BY RunningFacts
<1>5. WaiterInv' /\ TimerInv' /\ MainInv'
  BY <1>1, <1>4, LeavesAsleep
<1>. QED
  BY <1>1, <1>2, <1>3, <1>5, InTimeFrame, DeliveredFrame DEF Leaves

LEMMA SleepKeeps == ASSUME LoopInv, NEW c \in Coros, Sleep(c) PROVE LoopInv'
<1> USE DEF LoopInv, Sleep, Runs, waitVars
<1>1. Leaves(c, "suspended") /\ QueueInv'
  BY SuspendKeeps
<1>2. /\ stack' \in Seq(Contexts) /\ StackInv' /\ cstate' \in [Coros -> States]
      /\ cstate'[c] = "suspended" /\ \A d \in Coros : d # c => cstate'[d] = cstate[d]
      /\ CountInv' /\ ResolvedInv' /\ CancelInv'
  BY <1>1, LeaveKeeps
<1>3. Step(c).ms \in Nat
  BY StepFacts
<1>4. /\ timer' \in [Contexts -> {"none", "armed", "disarmed", "expired"}]
      /\ left' \in [Contexts -> Int]
      /\ \A d \in Contexts : d # c => timer'[d] = timer[d]
  BY <1>3, TimerSet, Names
<1>5. LoopTypes'
  BY <1>1, <1>2, <1>4 DEF LoopTypes, WaitTypes, Leaves, Suspend
<1>6. WaiterInv' /\ MainInv'
  BY <1>1, <1>4, LeavesAsleep, Names
<1>7. TimerInv'
  <2> SUFFICES ASSUME NEW d \in Coros, timer'[d] # "none"
               PROVE  /\ AsleepIn(d, {"sleep", "timeout", "select"})'
                      /\ Step(d)'.op = "timeout" => got'[d] = Nothing /\ Len(handles'[d]) = 1
                      /\ Step(d)'.op = "select" => got'[d] = Nothing /\ Len(handles'[d]) = 2
    BY DEF TimerInv, Nothing
  <2>1. CASE d = c
    BY <1>1, <1>2, <2>1 DEF AsleepIn, AtEnd, Step, Leaves
  <2>2. CASE d # c
    <3>1. timer[d] # "none" /\ cstate'[d] = cstate[d]
      BY <1>2, <1>4, <2>2, Names
    <3>. QED
      BY <1>1, <3>1 DEF TimerInv, AsleepIn, AtEnd, Step, Leaves
  <2>. QED
    BY <2>1, <2>2
<1>. QED
  BY <1>1, <1>2, <1>5, <1>6, <1>7, InTimeFrame, DeliveredFrame DEF Leaves

LEMMA HandlesFacts ==
  ASSUME LoopTypes, NEW c \in Coros, ~AtEnd(c)
  PROVE  Handles(c) \in Seq(Coros \union {NONE}) /\ Len(Handles(c)) = Len(Step(c).of)
<1>1. Step(c).of \in Seq(Coros)
  BY StepFacts
<1> DEFINE n == Len(Step(c).of)
<1>2. n \in Nat /\ DOMAIN Step(c).of = 1..n /\ \A i \in 1..n : Step(c).of[i] \in Coros
  BY <1>1, LenProperties, ElementOfSeq
<1> HIDE DEF n
<1>3. \A i \in 1..n : Handle(Step(c).of[i]) \in Coros \union {NONE}
  BY <1>2 DEF Handle
<1>4. Handles(c) \in [1..n -> Coros \union {NONE}]
  BY <1>2, <1>3 DEF Handles
<1>5. \A f \in [1..n -> Coros \union {NONE}] : f \in Seq(Coros \union {NONE}) /\ Len(f) = n
  BY <1>2
<1>. QED
  BY <1>4, <1>5 DEF n

LEMMA AwaitKeeps == ASSUME LoopInv, NEW c \in Coros, Await(c) PROVE LoopInv'
<1> USE DEF LoopInv, Await, Runs, timerVars, waitVars
<1>1. PICK p \in Coros : p = Step(c).of[1]
  BY StepFacts
<1>2. cstate[c] = "running" /\ timer[c] = "none" /\ \A q \in Coros : waiter[q] # c
  BY RunningFacts
<1>3. CASE ~IsPending(p)
  <2>1. Requeue(c) /\ UNCHANGED waiter
    BY <1>1, <1>3
  <2>2. Leaves(c, "queued") /\ queue' \in Seq(Coros) /\ QueueInv'
    BY <2>1, RequeueKeeps
  <2>3. /\ stack' \in Seq(Contexts) /\ StackInv' /\ cstate' \in [Coros -> States]
        /\ CountInv' /\ ResolvedInv' /\ CancelInv'
    BY <2>2, LeaveKeeps
  <2>4. LoopTypes'
    BY <2>1, <2>2, <2>3 DEF LoopTypes, WaitTypes, Leaves
  <2>5. WaiterInv' /\ TimerInv' /\ MainInv'
    BY <1>2, <2>1, <2>2, LeavesAsleep
  <2>. QED
    BY <2>2, <2>3, <2>4, <2>5, InTimeFrame, DeliveredFrame DEF Leaves
<1>4. CASE IsPending(p)
  <2>1. Suspend(c) /\ waiter' = [waiter EXCEPT ![p] = c]
    BY <1>1, <1>4
  <2>2. Leaves(c, "suspended") /\ QueueInv'
    BY <2>1, SuspendKeeps
  <2>3. /\ stack' \in Seq(Contexts) /\ StackInv' /\ cstate' \in [Coros -> States]
        /\ cstate'[c] = "suspended" /\ \A d \in Coros : d # c => cstate'[d] = cstate[d]
        /\ CountInv' /\ ResolvedInv' /\ CancelInv'
    BY <2>2, LeaveKeeps
  <2>4. LoopTypes'
    BY <2>1, <2>2, <2>3 DEF LoopTypes, WaitTypes, Leaves, Suspend
  <2>5. TimerInv' /\ MainInv'
    BY <1>2, <2>2, LeavesAsleep
  <2>6. WaiterInv'
    <3> SUFFICES ASSUME NEW q \in Coros, NEW w \in Coros, w = waiter'[q]
                 PROVE  AsleepIn(w, {"await"})' /\ Step(w)'.of[1] = q
      <4>1. \A q \in Coros : waiter'[q] # NONE => waiter'[q] \in Coros
        BY <2>4 DEF LoopTypes
      <4>. QED
        BY <4>1 DEF WaiterInv, AsleepIn, AtEnd, Step
    <3>1. CASE q = p
      <4>1. w = c
        BY <2>1, <3>1 DEF LoopTypes
      <4>. QED
        BY <1>1, <2>2, <2>3, <3>1, <4>1 DEF AsleepIn, AtEnd, Step, Leaves
    <3>2. CASE q # p
      <4>1. waiter[q] = w /\ w # c /\ w # NONE
        BY <1>2, <2>1, <3>2, Names DEF LoopTypes
      <4>2. AsleepIn(w, {"await"}) /\ Step(w).of[1] = q
        BY <4>1 DEF WaiterInv
      <4>. QED
        BY <2>2, <2>3, <4>1, <4>2 DEF AsleepIn, AtEnd, Step, Leaves
    <3>. QED
      BY <3>1, <3>2
  <2>. QED
    BY <2>2, <2>3, <2>4, <2>5, <2>6, InTimeFrame, DeliveredFrame DEF Leaves
<1>. QED
  BY <1>3, <1>4

\* timeout and select hand their promises to a poll.
LEMMA PollStarts ==
  ASSUME LoopInv, NEW c \in Coros, NEW op \in {"timeout", "select"}, Runs(c, op), Suspend(c),
         handles' = [handles EXCEPT ![c] = Handles(c)], got' = [got EXCEPT ![c] = Nothing],
         RegisterTimer(c, 1), UNCHANGED <<prog, waits, promise, waiter, phase>>
  PROVE  /\ StackInv' /\ QueueInv' /\ WaiterInv' /\ TimerInv' /\ MainInv' /\ CountInv'
         /\ ResolvedInv' /\ CancelInv'
         /\ due' \in [Coros -> Nat] /\ inTime' \in SUBSET Coros => LoopTypes'
         /\ UNCHANGED active_tasks
<1> USE DEF LoopInv, Runs
<1>1. Leaves(c, "suspended") /\ QueueInv'
  BY SuspendKeeps
<1>2. /\ stack' \in Seq(Contexts) /\ StackInv' /\ cstate' \in [Coros -> States]
      /\ cstate'[c] = "suspended" /\ \A d \in Coros : d # c => cstate'[d] = cstate[d]
      /\ CountInv' /\ ResolvedInv' /\ CancelInv'
  BY <1>1, LeaveKeeps
<1>3. /\ timer' \in [Contexts -> {"none", "armed", "disarmed", "expired"}]
      /\ left' \in [Contexts -> Int]
      /\ \A d \in Contexts : d # c => timer'[d] = timer[d]
  BY TimerSet, Names
<1>4. Handles(c) \in Seq(Coros \union {NONE}) /\ Len(Handles(c)) = Len(Step(c).of)
  BY HandlesFacts
<1>5. /\ handles'[c] = Handles(c) /\ got'[c] = Nothing
      /\ \A d \in Coros \ {c} : handles'[d] = handles[d] /\ got'[d] = got[d]
  BY DEF LoopTypes
<1>6. Nothing \in Deliveries
  BY Names DEF Nothing, Deliveries, Itself, Settlers
<1>7. handles' \in [Coros -> Seq(Coros \union {NONE})] /\ got' \in [Coros -> Deliveries]
  BY <1>4, <1>6 DEF LoopTypes
<1>8. ASSUME due' \in [Coros -> Nat], inTime' \in SUBSET Coros PROVE LoopTypes'
  BY <1>1, <1>2, <1>3, <1>7, <1>8 DEF LoopTypes, WaitTypes, Leaves, Suspend
<1>9. WaiterInv' /\ MainInv'
  BY <1>1, <1>3, LeavesAsleep, Names
<1>10. TimerInv'
  <2> SUFFICES ASSUME NEW d \in Coros, timer'[d] # "none"
               PROVE  /\ AsleepIn(d, {"sleep", "timeout", "select"})'
                      /\ Step(d)'.op = "timeout" => got'[d] = Nothing /\ Len(handles'[d]) = 1
                      /\ Step(d)'.op = "select" => got'[d] = Nothing /\ Len(handles'[d]) = 2
    BY DEF TimerInv, Nothing
  <2>1. CASE d = c
    <3>1. Step(c)' = Step(c) /\ (AtEnd(c)' <=> AtEnd(c))
      BY <1>1 DEF Step, AtEnd, Leaves
    <3>2. /\ Step(c).op = "timeout" => Len(Step(c).of) = 1
          /\ Step(c).op = "select" => Len(Step(c).of) = 2
      BY StepFacts
    <3>. QED
      BY <1>2, <1>4, <1>5, <2>1, <3>1, <3>2 DEF AsleepIn
  <2>2. CASE d # c
    <3>1. timer[d] # "none" /\ cstate'[d] = cstate[d] /\ handles'[d] = handles[d] /\ got'[d] = got[d]
      BY <1>2, <1>3, <1>5, <2>2, Names
    <3>. QED
      BY <1>1, <3>1 DEF TimerInv, AsleepIn, AtEnd, Step, Leaves
  <2>. QED
    BY <2>1, <2>2
<1>. QED
  BY <1>1, <1>2, <1>8, <1>9, <1>10 DEF Leaves

LEMMA SelectKeeps == ASSUME LoopInv, NEW c \in Coros, Select(c) PROVE LoopInv'
<1> USE DEF LoopInv, Select
<1>1. /\ StackInv' /\ QueueInv' /\ WaiterInv' /\ TimerInv' /\ MainInv' /\ CountInv'
      /\ ResolvedInv' /\ CancelInv' /\ UNCHANGED active_tasks
      /\ due' \in [Coros -> Nat] /\ inTime' \in SUBSET Coros => LoopTypes'
  BY PollStarts
<1>2. LoopTypes'
  BY <1>1 DEF LoopTypes
<1>3. /\ got'[c] = Nothing /\ handles'[c] = Handles(c)
      /\ \A d \in Coros \ {c} : handles'[d] = handles[d] /\ got'[d] = got[d]
  BY DEF LoopTypes
<1>4. Lasting
  BY DEF Lasting
<1>5. InTimeInv'
  <2>1. Len(handles'[c]) = 2
    BY <1>3, HandlesFacts, StepFacts DEF Runs
  <2>2. inTime' \subseteq Coros /\ inTime' = inTime
    BY <1>2 DEF LoopTypes
  <2>3. \A d \in inTime' : Len(handles'[d]) = 1 =>
          d \in inTime /\ got[d] = got'[d] /\ handles[d] = handles'[d]
    BY <1>3, <2>1, <2>2
  <2>. QED
    BY <1>4, <2>2, <2>3, InTimeKeeps
<1>6. DeliveredInv'
  <2> SUFFICES ASSUME NEW d \in Coros PROVE DeliveredTo(d)'
    BY DEF DeliveredInv
  <2>1. CASE d = c
    BY <1>3, <2>1 DEF DeliveredTo, Nothing
  <2>2. CASE d # c
    BY <1>3, <1>4, <2>2, DeliveredKeeps DEF DeliveredInv
  <2>. QED
    BY <2>1, <2>2
<1>. QED
  BY <1>1, <1>2, <1>5, <1>6

LEMMA TimeoutKeeps == ASSUME LoopInv, NEW c \in Coros, Timeout(c) PROVE LoopInv'
<1> USE DEF LoopInv, Timeout
<1>1. /\ StackInv' /\ QueueInv' /\ WaiterInv' /\ TimerInv' /\ MainInv' /\ CountInv'
      /\ ResolvedInv' /\ CancelInv' /\ UNCHANGED active_tasks
      /\ due' \in [Coros -> Nat] /\ inTime' \in SUBSET Coros => LoopTypes'
  BY PollStarts
<1>2. LoopTypes'
  <2>1. Step(c).ms \in Nat
    BY StepFacts DEF Runs
  <2>2. due' \in [Coros -> Nat]
    BY <2>1 DEF LoopTypes
  <2>3. inTime' \in SUBSET Coros
    BY DEF LoopTypes
  <2>. QED
    BY <1>1, <2>2, <2>3
<1>3. /\ got'[c] = Nothing /\ handles'[c] = Handles(c)
      /\ \A d \in Coros \ {c} : handles'[d] = handles[d] /\ got'[d] = got[d] /\ due'[d] = due[d]
  BY DEF LoopTypes
<1>4. Lasting
  BY DEF Lasting
<1>5. InTimeInv'
  <2>1. c \in inTime' => Settled(handles[c][1])'
    <3>1. c \in inTime' => Settled(Handles(c)[1])
      OBVIOUS
    <3>. QED
      BY <1>3, <3>1 DEF Settled, IsPending
  <2>2. \A d \in inTime' : d # c => d \in inTime
    OBVIOUS
  <2>3. inTime' \subseteq Coros
    BY <1>2 DEF LoopTypes
  <2>4. \A d \in inTime' : \/ d \in inTime /\ got[d] = got'[d] /\ handles[d] = handles'[d]
                           \/ Settled(handles[d][1])'
    BY <1>3, <2>1, <2>2, <2>3
  <2>. QED
    BY <1>4, <2>3, <2>4, InTimeKeeps
<1>6. DeliveredInv'
  <2> SUFFICES ASSUME NEW d \in Coros PROVE DeliveredTo(d)'
    BY DEF DeliveredInv
  <2>1. CASE d = c
    BY <1>3, <2>1 DEF DeliveredTo, Nothing
  <2>2. CASE d # c
    <3>1. d \in inTime' => d \in inTime
      BY <2>2
    <3>. QED
      BY <1>3, <1>4, <2>2, <3>1, DeliveredKeeps DEF DeliveredInv
  <2>. QED
    BY <2>1, <2>2
<1>. QED
  BY <1>1, <1>2, <1>5, <1>6

LEMMA WaitsKeep ==
  ASSUME LoopInv, UNCHANGED <<prog, procVars, promise, waiter, timerVars, waitVars, phase>>,
         NEW c \in Contexts, NEW ps, waits' = [waits EXCEPT ![c] = ps],
         c = MAIN => ps \in Seq(Contexts) /\ timer[MAIN] = "none" /\ phase = "main"
  PROVE  LoopInv'
<1> USE DEF LoopInv, procVars, timerVars, waitVars
<1>1. LoopTypes'
  <2>1. WaitTypes'
    BY Names DEF LoopTypes, WaitTypes
  <2>. QED
    BY <2>1 DEF LoopTypes
<1>2. MainInv'
  BY Names DEF MainInv, LoopTypes, IsPending
<1>. QED
  BY <1>1, <1>2, StackFrame, QueueFrame, WaiterFrame, TimerFrame, CountFrame, ResolvedFrame,
     CancelFrame, InTimeFrame, DeliveredFrame

\* The slice that joined goes on behind the queue.
LEMMA JoinReturns ==
  ASSUME LoopInv, NEW c \in Coros, Top = c, Requeue(c), waits' = [d \in Contexts |-> waits'[d]],
         waits'[MAIN] = waits[MAIN], UNCHANGED <<prog, promise, waiter, timerVars, waitVars, phase>>
  PROVE  LoopInv'
<1> USE DEF LoopInv, timerVars, waitVars
<1>1. Leaves(c, "queued") /\ queue' \in Seq(Coros) /\ QueueInv'
  BY RequeueKeeps
<1>2. /\ stack' \in Seq(Contexts) /\ StackInv' /\ cstate' \in [Coros -> States]
      /\ CountInv' /\ ResolvedInv' /\ CancelInv'
  BY <1>1, LeaveKeeps
<1>3. LoopTypes'
  BY <1>1, <1>2 DEF LoopTypes, WaitTypes, Leaves
<1>4. timer[c] = "none"
  BY RunningFacts
<1>5. WaiterInv' /\ TimerInv' /\ MainInv'
  BY <1>1, <1>4, LeavesAsleep
<1>. QED
  BY <1>1, <1>2, <1>3, <1>5, InTimeFrame, DeliveredFrame DEF Leaves

LEMMA JoinKeeps == ASSUME LoopInv, NEW c \in Coros, Join(c) PROVE LoopInv'
<1> USE DEF Join, Runs
<1>1. CASE NonNull(Handles(c)) = <<>>
  <2>1. waits' = [d \in Contexts |-> waits'[d]] /\ waits'[MAIN] = waits[MAIN]
    BY <1>1 DEF LoopInv, LoopTypes, WaitTypes
  <2>. QED
    BY <1>1, <2>1, JoinReturns
<1>2. CASE NonNull(Handles(c)) # <<>>
  BY <1>2, Names, WaitsKeep
<1>. QED
  BY <1>1, <1>2

LEMMA BlockOnDoneKeeps == ASSUME LoopInv, BlockOnDone PROVE LoopInv'
<1> USE DEF BlockOnDone
<1>1. PICK c \in Contexts : c = Top
  BY TopFacts DEF LoopInv
<1>2. waits[c] # <<>> /\ ~IsPending(Head(waits[c]))
  BY <1>1
<1>3. c = MAIN => Tail(waits[c]) \in Seq(Contexts)
  BY <1>2, TailFacts DEF LoopInv, LoopTypes, WaitTypes
<1>4. waits' = [waits EXCEPT ![c] = Tail(waits[c])]
  BY <1>1
<1>5. CASE c # MAIN /\ Len(waits[c]) = 1
  <2>1. c \in Coros /\ Requeue(c)
    BY <1>1, <1>5, Names
  <2>2. waits' = [d \in Contexts |-> waits'[d]] /\ waits'[MAIN] = waits[MAIN]
    BY <1>4, <1>5, Names DEF LoopInv, LoopTypes, WaitTypes
  <2>. QED
    BY <1>1, <2>1, <2>2, JoinReturns
<1>6. CASE ~(c # MAIN /\ Len(waits[c]) = 1)
  <2>1. UNCHANGED procVars
    BY <1>1, <1>6
  <2>2. c = MAIN => timer[MAIN] = "none" /\ phase = "main"
    <3>1. \A x : Head(<<x>>) = x
      OBVIOUS
    <3>. QED
      BY <1>2, <3>1 DEF LoopInv, MainInv
  <2>. QED
    BY <1>3, <1>4, <2>1, <2>2, WaitsKeep
<1>. QED
  BY <1>5, <1>6

LEMMA RunHeadKeeps == ASSUME LoopInv, RunHead PROVE LoopInv'
<1> USE DEF LoopInv, RunHead, timerVars, waitVars
<1>1. PICK h \in Coros : h = Head(queue)
  BY TailFacts DEF LoopTypes
<1>2. /\ h = queue[1] /\ Len(queue) \in Nat /\ Len(queue) >= 1
      /\ queue' \in Seq(Coros) /\ Len(queue') = Len(queue) - 1
      /\ \A i \in 1..Len(queue) - 1 : queue'[i] = queue[i + 1]
  BY <1>1, TailFacts, LenProperties DEF LoopTypes
<1>3. cstate[h] = "queued"
  BY <1>2 DEF QueueInv
<1>4. /\ cstate' \in [Coros -> States] /\ cstate'[h] = "running"
      /\ \A d \in Coros : d # h => cstate'[d] = cstate[d]
  BY <1>1 DEF LoopTypes, States
<1>5. /\ pc' \in [Coros -> Nat \ {0}] /\ pc'[h] = pc[h] + 1
      /\ \A d \in Coros : d # h => pc'[d] = pc[d]
  BY <1>1, SMTT(30) DEF LoopTypes
<1>6. /\ Len(stack) \in Nat /\ stack' \in Seq(Contexts) /\ Len(stack') = Len(stack) + 1
      /\ \A i \in 1..Len(stack) : stack'[i] = stack[i]
      /\ stack'[Len(stack) + 1] = h
  <2>1. stack' = Append(stack, h) /\ h \in Contexts /\ stack \in Seq(Contexts)
    BY <1>1, Names DEF LoopTypes
  <2>. QED
    BY <2>1, Appended, LenProperties
<1>7. LoopTypes'
  BY <1>2, <1>4, <1>5, <1>6 DEF LoopTypes, WaitTypes
<1>8. StackInv'
  <2>1. \A i \in 1..Len(stack) : stack[i] # h
    BY <1>3, <1>6, Names DEF StackInv
  <2>2. \A i \in 1..Len(stack') : i \in 1..Len(stack) \/ i = Len(stack) + 1
    BY <1>6
  <2>3. Len(stack') >= 1 /\ stack'[1] = MAIN
    BY <1>6 DEF StackInv
  <2>4. \A i \in 2..Len(stack') : stack'[i] \in Coros /\ cstate'[stack'[i]] = "running"
    BY <1>4, <1>6, <2>1, <2>2 DEF StackInv
  <2>5. \A i, j \in 1..Len(stack') : stack'[i] = stack'[j] => i = j
    BY <1>6, <2>1, <2>2 DEF StackInv
  <2>. QED
    BY <2>3, <2>4, <2>5 DEF StackInv
<1>9. QueueInv'
  <2>1. \A i \in 1..Len(queue') : i + 1 \in 1..Len(queue) /\ queue'[i] = queue[i + 1]
    BY <1>2
  <2>2. \A i \in 1..Len(queue') : queue'[i] # h
    BY <1>2, <2>1 DEF QueueInv
  <2>3. \A i \in 1..Len(queue') : queue'[i] \in Coros
    BY <1>2, ElementOfSeq
  <2>. QED
    BY <1>2, <1>4, <2>1, <2>2, <2>3 DEF QueueInv
<1>10. WaiterInv'
  <2>1. \A p \in Coros : waiter[p] # NONE => waiter[p] \in Coros /\ waiter[p] # h
    BY <1>3 DEF LoopTypes, WaiterInv, AsleepIn
  <2>. QED
    BY <1>4, <1>5, <2>1, WaiterKeeps
<1>11. TimerInv'
  <2>1. timer[h] = "none"
    BY <1>3 DEF TimerInv, AsleepIn
  <2>. QED
    BY <1>4, <1>5, <2>1, TimerKeeps
<1>12. MainInv'
  BY <1>4, MainKeeps
<1>13. CountInv'
  BY <1>3, <1>4, CountKeeps
<1>14. ResolvedInv'
  BY <1>3, <1>4, ResolvedKeeps
<1>15. CancelInv'
  <2> SUFFICES ASSUME NEW p \in Contexts, NEW c \in Coros, NEW k \in Nat, promise[p].by = <<c, k>>, k # 0
               PROVE  k < pc'[c] \/ (k = pc'[c] /\ cstate'[c] = "queued")
    BY DEF CancelInv
  <2>1. k < pc[c] \/ (k = pc[c] /\ cstate[c] = "queued")
    BY DEF CancelInv
  <2>2. pc[c] \in Nat
    BY DEF LoopTypes
  <2>. QED
    BY <1>4, <1>5, <2>1, <2>2
<1>. QED
  BY <1>7, <1>8, <1>9, <1>10, <1>11, <1>12, <1>13, <1>14, <1>15, InTimeFrame, DeliveredFrame

-----------------------------------------------------------------------------
(* Settling a promise wakes the coroutine that waits for it.               *)

LEMMA WokenFacts ==
  ASSUME LoopInv, NEW P \in SUBSET Coros, \A x, y \in P : x = y
  PROVE  /\ Woken(P) \in SUBSET Coros /\ \A x, y \in Woken(P) : x = y
         /\ \A w \in Woken(P) : AsleepIn(w, {"await"}) /\ cstate[w] = "suspended" /\ timer[w] = "none"
         /\ \A q \in Coros \ P : waiter[q] \notin Woken(P)
<1>1. Woken(P) = {waiter[p] : p \in P} \ {NONE}
  <2>1. P \ {MAIN} = P
    BY Names
  <2>. QED
    BY <2>1 DEF Woken
<1>2. Woken(P) \in SUBSET Coros /\ \A x, y \in Woken(P) : x = y
  BY <1>1 DEF LoopInv, LoopTypes
<1>3. ASSUME NEW w \in Woken(P)
      PROVE  AsleepIn(w, {"await"}) /\ cstate[w] = "suspended" /\ timer[w] = "none" /\ Step(w).of[1] \in P
  <2>1. PICK p \in P : w = waiter[p] /\ w # NONE
    BY <1>1, <1>3
  <2>2. AsleepIn(w, {"await"}) /\ Step(w).of[1] = p
    BY <2>1 DEF LoopInv, WaiterInv
  <2>3. w \in Coros /\ Step(w).op = "await" /\ cstate[w] = "suspended"
    BY <1>2, <2>2 DEF AsleepIn
  <2>4. timer[w] = "none"
    BY <2>3 DEF LoopInv, TimerInv, AsleepIn
  <2>. QED
    BY <2>2, <2>3, <2>4
<1>4. ASSUME NEW q \in Coros \ P, waiter[q] \in Woken(P) PROVE FALSE
  <2>1. Step(waiter[q]).of[1] = q
    BY <1>1, <1>4 DEF LoopInv, WaiterInv
  <2>. QED
    BY <1>3, <1>4, <2>1
<1>. QED
  BY <1>2, <1>3, <1>4

\* Sleepers that are woken and queued.
LEMMA WakeKeeps ==
  ASSUME LoopInv, NEW W \in SUBSET Coros, \A x \in W : cstate[x] = "suspended",
         cstate' = [d \in Coros |-> IF d \in W THEN "queued" ELSE cstate[d]],
         UNCHANGED <<active_tasks, stack>>
  PROVE  /\ cstate' \in [Coros -> States] /\ StackInv' /\ CountInv'
         /\ \A d \in Coros : cstate[d] # "suspended" => cstate'[d] = cstate[d]
         /\ \A d \in Coros : cstate'[d] = IF d \in W THEN "queued" ELSE cstate[d]
<1> USE DEF LoopInv
<1>1. \A d \in Coros : cstate'[d] = IF d \in W THEN "queued" ELSE cstate[d]
  OBVIOUS
<1>2. \A d \in Coros : cstate[d] # "suspended" => cstate'[d] = cstate[d]
  BY <1>1
<1>3. cstate' \in [Coros -> States]
  BY DEF LoopTypes, States
<1>4. StackInv'
  BY <1>2, StackKeeps
<1>5. CountInv'
  BY <1>1, CountKeeps
<1>. QED
  BY <1>1, <1>2, <1>3, <1>4, <1>5

LEMMA CancelledFacts ==
  ASSUME LoopTypes, NEW d \in Settlers, NEW P \in SUBSET Coros, promise' = CancelledBy(d, P)
  PROVE  /\ promise' \in [Contexts -> [st : {"pending", "resolved", "rejected"}, by : Settlers]]
         /\ Lasting /\ promise'[MAIN] = promise[MAIN]
         /\ \A p \in Contexts : \/ promise'[p] = promise[p]
                                \/ p \in P /\ promise'[p] = [st |-> "rejected", by |-> d]
         /\ \A p \in P : promise'[p].st # "pending"
<1> DEFINE gone == [st |-> "rejected", by |-> d]
<1>0. gone \in [st : {"pending", "resolved", "rejected"}, by : Settlers] /\ gone.st = "rejected"
  OBVIOUS
<1>1. \A p \in Contexts : promise'[p] = IF p \in P /\ promise[p].st = "pending" THEN gone ELSE promise[p]
  BY DEF CancelledBy, IsPending
<1>2. promise' = [p \in Contexts |-> promise'[p]]
  BY DEF CancelledBy
<1> HIDE DEF gone
<1>3. \A p \in Contexts : promise[p] \in [st : {"pending", "resolved", "rejected"}, by : Settlers]
  BY DEF LoopTypes
<1>4. \A p \in Contexts : promise'[p] \in [st : {"pending", "resolved", "rejected"}, by : Settlers]
  BY <1>0, <1>1, <1>3
<1>5. promise' \in [Contexts -> [st : {"pending", "resolved", "rejected"}, by : Settlers]]
  BY <1>2, <1>4
<1>6. Lasting /\ promise'[MAIN] = promise[MAIN]
  BY <1>1, Names DEF Lasting
<1>7. ASSUME NEW p \in P PROVE promise'[p].st # "pending"
  BY <1>0, <1>1, Names
<1>8. \A p \in Contexts : promise'[p] = promise[p] \/ (p \in P /\ promise'[p] = gone)
  BY <1>1
<1>. QED
  BY <1>5, <1>6, <1>7, <1>8 DEF gone

\* A timeout that an answer reaches in time finds its promise settled.
LEMMA AnsweredInTime ==
  ASSUME NEW l \in Coros, NEW c \in Answers(l), handles' = handles, promise'[l].st # "pending"
  PROVE  c \in Coros /\ got[c] = Nothing /\ Settled(handles[c][1])'
<1>1. c \in Coros /\ got[c] = Nothing /\ handles[c] = <<l>>
  BY DEF Answers
<1>2. handles[c][1] = l /\ l # NONE
  BY <1>1, Names
<1>. QED
  BY <1>1, <1>2 DEF Settled, IsPending

\* A step that settles promises keeps what timeout and select have delivered.
LEMMA SettlingKeeps ==
  ASSUME LoopInv, Lasting,
         \A c \in inTime' : \/ c \in inTime
                           \/ \E l \in Coros : c \in Answers(l) /\ promise'[l].st # "pending",
         UNCHANGED <<handles, due>>, \A c \in Coros : got'[c] = got[c] \/ got'[c] # Nothing
  PROVE  /\ inTime' \in SUBSET Coros /\ InTimeInv'
         /\ \A c \in Coros : got'[c] = got[c] => DeliveredTo(c)'
<1> USE DEF LoopInv
<1>1. ASSUME NEW c \in inTime', c \notin inTime
      PROVE  c \in Coros /\ got[c] = Nothing /\ Settled(handles[c][1])'
  <2>1. PICK l \in Coros : c \in Answers(l) /\ promise'[l].st # "pending"
    BY <1>1
  <2>. QED
    BY <2>1, AnsweredInTime
<1>2. inTime' \in SUBSET Coros
  BY <1>1 DEF LoopTypes
<1>3. \A c \in inTime' : got'[c] = Nothing =>
        \/ c \in inTime /\ got[c] = got'[c] /\ handles[c] = handles'[c]
        \/ Settled(handles[c][1])'
  BY <1>1, <1>2
<1>4. InTimeInv'
  BY <1>2, <1>3, InTimeKeeps
<1>5. ASSUME NEW c \in Coros, got'[c] = got[c] PROVE DeliveredTo(c)'
  <2>1. got[c].st = "timeout" => (c \in inTime' => c \in inTime)
    BY <1>1 DEF Nothing
  <2>2. DeliveredTo(c)
    BY DEF DeliveredInv
  <2>. QED
    BY <1>5, <2>1, <2>2, DeliveredKeeps
<1>. QED
  BY <1>2, <1>4, <1>5

LEMMA CancelKeepsLoop == ASSUME LoopInv, NEW c \in Coros, Cancel(c) PROVE LoopInv'
<1> USE DEF LoopInv, Cancel, timerVars
<1> DEFINE W == Woken({c})
<1>1. /\ W \in SUBSET Coros /\ \A x, y \in W : x = y
      /\ \A w \in W : cstate[w] = "suspended" /\ timer[w] = "none"
      /\ \A q \in Coros \ {c} : waiter[q] \notin W
  BY WokenFacts
<1>2. queue' = queue \o SetToSeq(W) /\ cstate' = [d \in Coros |-> IF d \in W THEN "queued" ELSE cstate[d]]
  BY DEF Schedule
<1> HIDE DEF W
<1>3. /\ cstate' \in [Coros -> States] /\ StackInv' /\ CountInv'
      /\ \A d \in Coros : cstate[d] # "suspended" => cstate'[d] = cstate[d]
      /\ \A d \in Coros : cstate'[d] = IF d \in W THEN "queued" ELSE cstate[d]
  BY <1>1, <1>2, WakeKeeps
<1>4. queue' \in Seq(Coros) /\ QueueInv'
  BY <1>1, <1>2, <1>3, QueueWakes
<1>5. Itself(MAIN) \in Settlers
  BY Names DEF Itself, Settlers
<1>6. /\ promise' \in [Contexts -> [st : {"pending", "resolved", "rejected"}, by : Settlers]]
      /\ Lasting /\ promise'[MAIN] = promise[MAIN]
      /\ \A p \in Contexts : \/ promise'[p] = promise[p]
                             \/ p = c /\ promise'[p] = [st |-> "rejected", by |-> Itself(MAIN)]
      /\ promise'[c].st # "pending"
  <2> DEFINE P == {c}
  <2>1. P \in SUBSET Coros /\ c \in P /\ promise' = CancelledBy(Itself(MAIN), P)
    OBVIOUS
  <2>2. \A p \in P : p = c
    OBVIOUS
  <2> HIDE DEF P
  <2>. QED
    BY <1>5, <2>1, <2>2, CancelledFacts
<1>7. waiter' \in [Coros -> Coros \union {NONE}] /\ waiter'[c] = NONE
      /\ \A q \in Coros \ {c} : waiter'[q] = waiter[q]
  BY DEF LoopTypes
<1>8. inTime' \in SUBSET Coros /\ InTimeInv' /\ DeliveredInv'
  <2>1. \A d \in inTime' : d \in inTime \/ d \in Answers(c)
    OBVIOUS
  <2>2. \A d \in inTime' : \/ d \in inTime
                           \/ \E l \in Coros : d \in Answers(l) /\ promise'[l].st # "pending"
    BY <1>6, <2>1
  <2>. QED
    BY <1>6, <2>2, SettlingKeeps DEF DeliveredInv
<1>9. LoopTypes'
  BY <1>3, <1>4, <1>6, <1>7, <1>8 DEF LoopTypes, WaitTypes
<1>10. WaiterInv'
  <2>1. \A p \in Coros : waiter'[p] # NONE =>
          waiter'[p] = waiter[p] /\ waiter[p] \in Coros /\ waiter[p] \notin W
    BY <1>1, <1>7 DEF LoopTypes
  <2>. QED
    BY <1>3, <2>1, WaiterKeeps
<1>11. TimerInv'
  BY <1>1, <1>3, TimerKeeps
<1>12. MainInv'
  BY <1>3, <1>6, MainKeeps
<1>13. ResolvedInv'
  <2>1. \A p \in Coros : promise'[p].st = "resolved" => promise[p].st = "resolved"
    BY <1>6, Names
  <2>. QED
    BY <1>3, <2>1 DEF ResolvedInv
<1>14. CancelInv'
  <2>1. \A d \in Coros, k \in Nat : k # 0 => Itself(MAIN) # <<d, k>>
    BY DEF Itself
  <2>2. \A p \in Contexts : promise'[p] = promise[p] \/ promise'[p].by = Itself(MAIN)
    <3>1. \A x : [st |-> "rejected", by |-> x].by = x
      OBVIOUS
    <3>. QED
      BY <1>6, <3>1, Zenon
  <2>3. \A p \in Contexts, d \in Coros, k \in Nat :
          promise'[p].by = <<d, k>> /\ k # 0 => promise[p].by = <<d, k>>
    BY <2>1, <2>2
  <2>. QED
    BY <1>3, <2>3, CancelKeeps
<1>. QED
  BY <1>3, <1>4, <1>8, <1>9, <1>10, <1>11, <1>12, <1>13, <1>14

LEMMA FinishKeeps == ASSUME LoopInv, NEW c \in Coros, Finish(c) PROVE LoopInv'
<1> USE DEF LoopInv, Finish, Returns, timerVars
<1> DEFINE W == Woken({c})
<1>1. /\ W \in SUBSET Coros /\ \A x, y \in W : x = y
      /\ \A w \in W : cstate[w] = "suspended" /\ timer[w] = "none"
      /\ \A q \in Coros \ {c} : waiter[q] \notin W
  BY WokenFacts
<1>2. /\ queue' = queue \o SetToSeq(W)
      /\ cstate' = [d \in Coros |-> IF d = c THEN "finished" ELSE IF d \in W THEN "queued" ELSE cstate[d]]
  OBVIOUS
<1> HIDE DEF W
<1>3. c # MAIN /\ cstate[c] = "running" /\ timer[c] = "none" /\ \A p \in Coros : waiter[p] # c
  BY RunningFacts
<1>4. /\ cstate' \in [Coros -> States] /\ cstate'[c] = "finished"
      /\ \A d \in Coros : d # c => cstate'[d] = IF d \in W THEN "queued" ELSE cstate[d]
  BY <1>2 DEF LoopTypes, States
<1>5. c \notin W
  BY <1>1, <1>3
<1>6. stack' \in Seq(Contexts) /\ StackInv'
  BY <1>1, <1>3, <1>4, StackPops
<1>7. queue' \in Seq(Coros) /\ QueueInv'
  BY <1>1, <1>2, <1>3, <1>4, <1>5, QueueWakes
<1>8. active_tasks' \in Nat /\ CountInv' /\ (phase = "exited" => active_tasks' = 0)
  <2>1. Alive' = Alive \ {c} /\ c \in Alive
    BY <1>1, <1>3, <1>4 DEF Alive
  <2>2. IsFiniteSet(Alive)
    BY Names, FS_Subset DEF Alive
  <2>3. Cardinality(Alive') = Cardinality(Alive) - 1
    BY <2>1, <2>2, FS_RemoveElement
  <2>4. IsFiniteSet(Alive') /\ Cardinality(Alive') \in Nat
    BY <2>1, <2>2, FS_RemoveElement, FS_CardinalityType
  <2>. QED
    BY <2>3, <2>4 DEF CountInv, DecActive, LoopTypes
<1>9. /\ promise'[c].by = Itself(c) /\ promise'[c].st \in {"resolved", "rejected"}
      /\ promise[c].st = "rejected" => promise'[c].st = "rejected"
      /\ \A p \in Contexts \ {c} : promise'[p] = promise[p]
      /\ promise' \in [Contexts -> [st : {"pending", "resolved", "rejected"}, by : Settlers]]
  <2>1. PICK r : r = [st |-> IF prog[c].throws \/ promise[c].st = "rejected" THEN "rejected" ELSE "resolved",
                      by |-> Itself(c)]
    OBVIOUS
  <2>2. promise' = [promise EXCEPT ![c] = r]
    BY <2>1
  <2>3. Itself(c) \in Settlers
    BY Names DEF Itself, Settlers
  <2>4. /\ r.by = Itself(c) /\ r.st \in {"resolved", "rejected"}
        /\ promise[c].st = "rejected" => r.st = "rejected"
        /\ r \in [st : {"pending", "resolved", "rejected"}, by : Settlers]
    BY <2>1, <2>3
  <2>. QED
    BY <2>2, <2>4, Names DEF LoopTypes
<1>10. Lasting
  <2>1. promise[c].st # "resolved"
    BY <1>3 DEF ResolvedInv
  <2>2. promise[c].st \in {"pending", "resolved", "rejected"}
    BY Names DEF LoopTypes
  <2>. QED
    BY <1>9, <2>1, <2>2, Names DEF Lasting
<1>11. waiter' \in [Coros -> Coros \union {NONE}] /\ waiter'[c] = NONE
      /\ \A q \in Coros \ {c} : waiter'[q] = waiter[q]
  BY DEF LoopTypes
<1>12. inTime' \in SUBSET Coros /\ InTimeInv' /\ DeliveredInv'
  <2>1. \A d \in inTime' : d \in inTime \/ d \in Answers(c)
    OBVIOUS
  <2>2. \A d \in inTime' : \/ d \in inTime
                           \/ \E l \in Coros : d \in Answers(l) /\ promise'[l].st # "pending"
    BY <1>9, <2>1
  <2>. QED
    BY <1>10, <2>2, SettlingKeeps DEF DeliveredInv
<1>13. LoopTypes'
  BY <1>4, <1>6, <1>7, <1>8, <1>9, <1>11, <1>12 DEF LoopTypes, WaitTypes
<1>14. WaiterInv'
  <2>1. \A p \in Coros : waiter'[p] # NONE =>
          waiter'[p] = waiter[p] /\ waiter[p] \in Coros /\ waiter[p] \notin W /\ waiter[p] # c
    BY <1>1, <1>3, <1>11 DEF LoopTypes
  <2>. QED
    BY <1>4, <2>1, WaiterKeeps
<1>15. TimerInv'
  BY <1>1, <1>3, <1>4, TimerKeeps
<1>16. MainInv'
  BY <1>3, <1>4, <1>9, Names, MainKeeps
<1>17. ResolvedInv'
  BY <1>1, <1>4, <1>9, Names DEF ResolvedInv
<1>18. CancelInv'
  <2>1. \A d \in Coros : cstate[d] = "queued" => cstate'[d] = "queued"
    BY <1>3, <1>4
  <2>. QED
    BY <1>9, <2>1, CancelKeeps DEF Itself
<1>. QED
  BY <1>6, <1>7, <1>8, <1>12, <1>13, <1>14, <1>15, <1>16, <1>17, <1>18

-----------------------------------------------------------------------------
(* Wakers of timers.                                                       *)

LEMMA PollAgainKeeps ==
  ASSUME LoopInv, NEW c \in Coros, timer[c] = "expired", PollAgain(c),
         UNCHANGED <<prog, active_tasks, stack, pc, waits, phase>>
  PROVE  LoopInv'
<1> USE DEF LoopInv, PollAgain
<1>1. /\ timer' \in [Contexts -> {"none", "armed", "disarmed", "expired"}]
      /\ left' \in [Contexts -> Int]
      /\ \A d \in Contexts : d # c => timer'[d] = timer[d]
  <2>1. CASE Cardinality(Open) >= MaxFds
    BY <2>1, Names DEF LoopTypes
  <2>2. CASE ~(Cardinality(Open) >= MaxFds)
    <3>1. /\ timer' = [timer EXCEPT ![c] = "armed"]
          /\ left' = [left EXCEPT ![c] = 1]
      BY <2>2
    <3>. QED
      BY <3>1, Names DEF LoopTypes
  <2>. QED
    BY <2>1, <2>2
<1>2. LoopTypes'
  BY <1>1 DEF LoopTypes, WaitTypes
<1>3. TimerInv'
  <2>1. \A d \in Coros : timer'[d] # "none" => timer[d] # "none"
    BY <1>1, Names
  <2>. QED
    BY <2>1, TimerKeeps
<1>4. MainInv'
  BY <1>1, Names, MainKeeps
<1>. QED
  BY <1>2, <1>3, <1>4, StackFrame, QueueFrame, WaiterFrame, CountFrame, ResolvedFrame,
     CancelFrame, InTimeFrame, DeliveredFrame

\* The coroutine of a timer sleeps in no await of a promise.
LEMMA TimerFacts ==
  ASSUME LoopInv, NEW c \in Coros, timer[c] # "none"
  PROVE  /\ cstate[c] = "suspended" /\ \A p \in Coros : waiter[p] # c
         /\ Step(c).op = "timeout" => got[c] = Nothing /\ Len(handles[c]) = 1
         /\ Step(c).op = "select" => got[c] = Nothing /\ Len(handles[c]) = 2
<1>1. AsleepIn(c, {"sleep", "timeout", "select"})
  BY DEF LoopInv, TimerInv
<1>2. \A p \in Coros : waiter[p] # c
  BY <1>1, Names DEF LoopInv, WaiterInv, AsleepIn
<1>. QED
  BY <1>1, <1>2 DEF LoopInv, TimerInv, AsleepIn

LEMMA ClosedFacts ==
  ASSUME LoopTypes, NEW c \in Coros, Close(c)
  PROVE  /\ timer' \in [Contexts -> {"none", "armed", "disarmed", "expired"}]
         /\ timer'[c] = "none" /\ \A d \in Contexts : d # c => timer'[d] = timer[d]
         /\ UNCHANGED <<left, due>>
BY Names DEF LoopTypes, Close

LEMMA TimerWakes ==
  ASSUME LoopInv, NEW c \in Coros, timer[c] # "none", Close(c), Schedule({c}),
         UNCHANGED <<prog, active_tasks, stack, pc, waits, promise, waiter, handles, inTime, phase>>,
         got' \in [Coros -> Deliveries], \A d \in Coros \ {c} : got'[d] = got[d]
  PROVE  /\ LoopTypes' /\ StackInv' /\ QueueInv' /\ WaiterInv' /\ TimerInv' /\ MainInv' /\ CountInv'
         /\ ResolvedInv' /\ CancelInv' /\ Lasting /\ UNCHANGED due
<1> USE DEF LoopInv
<1>1. cstate[c] = "suspended" /\ \A p \in Coros : waiter[p] # c
  BY TimerFacts
<1>2. PICK W \in SUBSET Coros : W = {c}
  OBVIOUS
<1>3. queue' = queue \o SetToSeq(W) /\ cstate' = [d \in Coros |-> IF d \in W THEN "queued" ELSE cstate[d]]
  BY <1>2 DEF Schedule
<1>4. /\ (\A x, y \in W : x = y) /\ (\A x \in W : cstate[x] = "suspended")
  BY <1>1, <1>2
<1>5. /\ cstate' \in [Coros -> States] /\ StackInv' /\ CountInv'
      /\ \A d \in Coros : cstate[d] # "suspended" => cstate'[d] = cstate[d]
      /\ \A d \in Coros : cstate'[d] = IF d \in W THEN "queued" ELSE cstate[d]
  BY <1>3, <1>4, WakeKeeps
<1>6. queue' \in Seq(Coros) /\ QueueInv'
  BY <1>3, <1>4, <1>5, QueueWakes
<1>7. /\ timer' \in [Contexts -> {"none", "armed", "disarmed", "expired"}]
      /\ timer'[c] = "none" /\ (\A d \in Contexts : d # c => timer'[d] = timer[d])
      /\ UNCHANGED <<left, due>>
  BY ClosedFacts
<1>8. LoopTypes'
  BY <1>5, <1>6, <1>7 DEF LoopTypes, WaitTypes
<1>9. WaiterInv'
  <2>1. \A p \in Coros : waiter[p] # NONE => waiter[p] \in Coros /\ waiter[p] # c
    BY <1>1 DEF LoopTypes
  <2>. QED
    BY <1>2, <1>5, <2>1, WaiterKeeps
<1>10. TimerInv'
  BY <1>2, <1>5, <1>7, Names, TimerKeeps
<1>11. MainInv'
  BY <1>5, <1>7, Names, MainKeeps
<1>12. ResolvedInv'
  BY <1>5, ResolvedKeeps
<1>13. CancelInv'
  BY <1>5, CancelKeeps
<1>14. Lasting
  BY DEF Lasting
<1>. QED
  BY <1>5, <1>6, <1>7, <1>8, <1>9, <1>10, <1>11, <1>12, <1>13, <1>14

LEMMA SleepWakerKeeps == ASSUME LoopInv, NEW c \in Coros, SleepWaker(c) PROVE LoopInv'
<1> USE DEF LoopInv, SleepWaker, ServesStep, Serves, waitVars
<1>1. /\ LoopTypes' /\ StackInv' /\ QueueInv' /\ WaiterInv' /\ TimerInv' /\ MainInv' /\ CountInv'
      /\ ResolvedInv' /\ CancelInv' /\ UNCHANGED due
  BY TimerWakes DEF LoopTypes
<1>. QED
  BY <1>1, InTimeFrame, DeliveredFrame

\* What a promise was settled with is no cancellation by a select that is not
\* yet over.
LEMMA NotOwn ==
  ASSUME LoopInv, NEW c \in Coros, timer[c] # "none", NEW p \in Contexts
  PROVE  promise[p].by # <<c, pc[c]>>
<1>1. cstate[c] = "suspended"
  BY TimerFacts
<1>2. pc[c] \in Nat /\ pc[c] # 0
  BY DEF LoopInv, LoopTypes
<1>3. promise[p].by = <<c, pc[c]>> => pc[c] < pc[c] \/ cstate[c] = "queued"
  BY <1>2 DEF LoopInv, CancelInv
<1>. QED
  BY <1>1, <1>2, <1>3

LEMMA DeliveryFacts ==
  ASSUME LoopInv, NEW c \in Coros, timer[c] # "none", NEW p \in Coros, Settled(p), Delivers(c, p)
  PROVE  /\ got' \in [Coros -> Deliveries] /\ \A d \in Coros \ {c} : got'[d] = got[d]
         /\ got'[c] # Nothing /\ got'[c].st \in {"resolved", "rejected"}
         /\ got'[c].st = promise[p].st /\ got'[c].from = p
         /\ got'[c].by # <<c, got'[c].at>>
<1> DEFINE g == [st |-> promise[p].st, by |-> promise[p].by, from |-> p, at |-> pc[c]]
<1>1. promise[p].st \in {"resolved", "rejected"} /\ promise[p].by \in Settlers /\ pc[c] \in Nat
  BY Names DEF LoopInv, LoopTypes, Settled, IsPending
<1>2. g \in Deliveries /\ g.st = promise[p].st /\ g.from = p /\ g.by = promise[p].by /\ g.at = pc[c]
  BY <1>1 DEF Deliveries
<1>3. promise[p].by # <<c, pc[c]>>
  BY Names, NotOwn
<1>4. got' = [got EXCEPT ![c] = g]
  BY DEF Delivers
<1>5. Nothing.st = "none"
  BY DEF Nothing
<1> HIDE DEF g
<1>6. got'[c] = g /\ (\A d \in Coros \ {c} : got'[d] = got[d]) /\ got' \in [Coros -> Deliveries]
  BY <1>2, <1>4 DEF LoopInv, LoopTypes
<1>7. g # Nothing /\ g.by # <<c, g.at>>
  BY <1>1, <1>2, <1>3, <1>5
<1>. QED
  BY <1>1, <1>2, <1>6, <1>7

LEMMA ExpiryFacts ==
  ASSUME LoopInv, NEW c \in Coros, NEW p \in Coros \union {NONE}, Expires(c, p)
  PROVE  /\ got' \in [Coros -> Deliveries] /\ \A d \in Coros \ {c} : got'[d] = got[d]
         /\ got'[c] # Nothing /\ got'[c].st = "timeout"
<1> DEFINE g == [st |-> "timeout", by |-> <<c, pc[c]>>, from |-> p, at |-> pc[c]]
<1>1. pc[c] \in Nat /\ <<c, pc[c]>> \in Settlers
  BY Names DEF LoopInv, LoopTypes, Settlers
<1>2. g \in Deliveries /\ g.st = "timeout"
  BY <1>1 DEF Deliveries
<1>3. got' = [got EXCEPT ![c] = g]
  BY DEF Expires
<1>4. Nothing.st = "none"
  BY DEF Nothing
<1> HIDE DEF g
<1>. QED
  BY <1>2, <1>3, <1>4 DEF LoopInv, LoopTypes

LEMMA TimeoutWakerKeeps == ASSUME LoopInv, NEW c \in Coros, TimeoutWaker(c) PROVE LoopInv'
<1> USE DEF LoopInv
<1> DEFINE p == handles[c][1]
<1>1. /\ timer[c] = "expired" /\ Step(c).op = "timeout"
      /\ UNCHANGED <<prog, active_tasks, stack, pc, waits, phase>>
      /\ \/ /\ Settled(p) /\ Close(c) /\ Schedule({c}) /\ Delivers(c, p)
            /\ UNCHANGED <<promise, waiter, handles, inTime>>
         \/ /\ ~Settled(p) /\ due[c] = 0 /\ Close(c) /\ Schedule({c})
            /\ Expires(c, p)
            /\ UNCHANGED <<promise, waiter, handles, inTime>>
         \/ ~Settled(p) /\ due[c] # 0 /\ PollAgain(c)
  BY DEF TimeoutWaker, ServesStep, Serves
<1>2. got[c] = Nothing /\ Len(handles[c]) = 1
  BY <1>1, TimerFacts
<1>3. DOMAIN handles[c] = {1} /\ p \in Coros \union {NONE}
  BY <1>2, HandleFacts
<1> HIDE DEF p
<1>4. CASE /\ Settled(p) /\ Close(c) /\ Schedule({c}) /\ Delivers(c, p)
           /\ UNCHANGED <<promise, waiter, handles, inTime>>
  <2>1. p \in Coros
    BY <1>3, <1>4 DEF Settled
  <2>2. /\ got' \in [Coros -> Deliveries] /\ \A d \in Coros \ {c} : got'[d] = got[d]
        /\ got'[c] # Nothing /\ got'[c].st \in {"resolved", "rejected"}
        /\ got'[c].st = promise[p].st /\ got'[c].from = p
        /\ got'[c].by # <<c, got'[c].at>>
    BY <1>1, <1>4, <2>1, DeliveryFacts
  <2>3. /\ LoopTypes' /\ StackInv' /\ QueueInv' /\ WaiterInv' /\ TimerInv' /\ MainInv' /\ CountInv'
        /\ ResolvedInv' /\ CancelInv' /\ Lasting /\ UNCHANGED due
    BY <1>1, <1>4, <2>2, TimerWakes
  <2>4. InTimeInv'
    <3>1. inTime' \subseteq Coros
      BY <2>3 DEF LoopTypes
    <3>2. \A d \in inTime' : got'[d] = Nothing => d \in inTime /\ got[d] = got'[d] /\ handles[d] = handles'[d]
      BY <1>4, <2>2, <3>1
    <3>. QED
      BY <2>3, <3>1, <3>2, InTimeKeeps
  <2>5. ASSUME NEW d \in Coros PROVE DeliveredTo(d)'
    <3>1. CASE d = c
      <4>1. \A i \in DOMAIN handles[c] : handles[c][i] = p
        BY <1>3 DEF p
      <4>. QED
        BY <1>4, <2>1, <2>2, <3>1, <4>1 DEF DeliveredTo, Settled, IsPending
    <3>2. CASE d # c
      BY <1>4, <2>2, <2>3, <3>2, DeliveredKeeps DEF DeliveredInv
    <3>. QED
      BY <3>1, <3>2
  <2>. QED
    BY <1>1, <2>3, <2>4, <2>5 DEF DeliveredInv
<1>5. CASE /\ ~Settled(p) /\ due[c] = 0 /\ Close(c) /\ Schedule({c}) /\ Expires(c, p)
           /\ UNCHANGED <<promise, waiter, handles, inTime>>
  <2>1. /\ got' \in [Coros -> Deliveries] /\ \A d \in Coros \ {c} : got'[d] = got[d]
        /\ got'[c] # Nothing /\ got'[c].st = "timeout"
    BY <1>3, <1>5, ExpiryFacts
  <2>2. /\ LoopTypes' /\ StackInv' /\ QueueInv' /\ WaiterInv' /\ TimerInv' /\ MainInv' /\ CountInv'
        /\ ResolvedInv' /\ CancelInv' /\ Lasting /\ UNCHANGED due
    BY <1>1, <1>5, <2>1, TimerWakes
  <2>3. InTimeInv'
    <3>1. inTime' \subseteq Coros
      BY <2>2 DEF LoopTypes
    <3>2. \A d \in inTime' : got'[d] = Nothing => d \in inTime /\ got[d] = got'[d] /\ handles[d] = handles'[d]
      BY <1>5, <2>1, <3>1
    <3>. QED
      BY <2>2, <3>1, <3>2, InTimeKeeps
  <2>4. c \notin inTime
    BY <1>2, <1>5 DEF InTimeInv, p
  <2>5. ASSUME NEW d \in Coros PROVE DeliveredTo(d)'
    <3>1. CASE d = c
      BY <1>5, <2>1, <2>2, <2>4, <3>1 DEF DeliveredTo
    <3>2. CASE d # c
      BY <1>5, <2>1, <2>2, <3>2, DeliveredKeeps DEF DeliveredInv
    <3>. QED
      BY <3>1, <3>2
  <2>. QED
    BY <1>1, <2>2, <2>3, <2>5 DEF DeliveredInv
<1>6. CASE PollAgain(c)
  BY <1>1, <1>6, PollAgainKeeps
<1>. QED
  BY <1>1, <1>4, <1>5, <1>6

\* A select that found a winner: w is settled and l, the other one, is
\* cancelled if it is a promise that is still pending.
SelectEnds(c, w, l, lost) ==
  /\ Close(c) /\ Delivers(c, w)
  /\ promise' = CancelledBy(<<c, pc[c]>>, {l} \ {NONE})
  /\ queue' = Append(queue, c) \o SetToSeq(Woken(lost))
  /\ cstate' = [d \in Coros |-> IF d \in Woken(lost) \union {c} THEN "queued" ELSE cstate[d]]
  /\ waiter' = [d \in Coros |-> IF d \in lost THEN NONE ELSE waiter[d]]
  /\ inTime' = inTime \union UNION {Answers(x) : x \in lost}
  /\ UNCHANGED <<handles, prog, active_tasks, stack, pc, waits, phase>>

LEMMA SelectWakerCases ==
  ASSUME LoopInv, NEW c \in Coros, SelectWaker(c)
  PROVE  \/ PollAgain(c) /\ UNCHANGED <<prog, active_tasks, stack, pc, waits, phase>>
         \/ \E w \in Coros, l \in Coros \union {NONE} :
              /\ Settled(w) /\ SelectEnds(c, w, l, {x \in {l} \ {NONE} : IsPending(x)})
              /\ \A i \in DOMAIN handles[c] : handles[c][i] \in {w, l}
<1>1. Len(handles[c]) = 2
  BY TimerFacts DEF SelectWaker, ServesStep, Serves
<1>2. PICK p, q \in Coros \union {NONE} :
        p = handles[c][1] /\ q = handles[c][2] /\ \A i \in DOMAIN handles[c] : handles[c][i] \in {p, q}
  <2>1. DOMAIN handles[c] = 1..2 /\ \A i \in DOMAIN handles[c] : handles[c][i] \in Coros \union {NONE}
    BY <1>1, HandleFacts DEF LoopInv
  <2>2. 1 \in 1..2 /\ 2 \in 1..2 /\ \A i \in 1..2 : i = 1 \/ i = 2
    OBVIOUS
  <2>. QED
    BY <2>1, <2>2
<1>3. CASE Settled(p)
  <2>1. SelectEnds(c, p, q, {x \in {q} \ {NONE} : IsPending(x)})
    BY <1>2, <1>3 DEF SelectWaker, SelectEnds
  <2>. QED
    BY <1>2, <1>3, <2>1 DEF Settled
<1>4. CASE ~Settled(p) /\ Settled(q)
  <2>1. SelectEnds(c, q, p, {x \in {p} \ {NONE} : IsPending(x)})
    BY <1>2, <1>4 DEF SelectWaker, SelectEnds
  <2>. QED
    BY <1>2, <1>4, <2>1 DEF Settled
<1>5. CASE ~Settled(p) /\ ~Settled(q)
  BY <1>2, <1>5 DEF SelectWaker
<1>. QED
  BY <1>3, <1>4, <1>5

LEMMA SelectEndsKeeps ==
  ASSUME LoopInv, NEW c \in Coros, timer[c] = "expired",
         NEW w \in Coros, NEW l \in Coros \union {NONE}, Settled(w),
         NEW lost, lost = {x \in {l} \ {NONE} : IsPending(x)}, SelectEnds(c, w, l, lost),
         \A i \in DOMAIN handles[c] : handles[c][i] \in {w, l}
  PROVE  LoopInv'
<1> USE DEF LoopInv, SelectEnds
<1>1. PICK W : W = Woken(lost)
  OBVIOUS
<1>2. /\ W \in SUBSET Coros /\ \A x, y \in W : x = y
      /\ \A x \in W : cstate[x] = "suspended" /\ timer[x] = "none"
      /\ \A q \in Coros \ lost : waiter[q] \notin W
  <2>1. lost \in SUBSET Coros /\ \A x, y \in lost : x = y
    OBVIOUS
  <2>. QED
    BY <1>1, <2>1, WokenFacts
<1>3. cstate[c] = "suspended" /\ (\A p \in Coros : waiter[p] # c) /\ c \notin W
  BY <1>2, TimerFacts
<1>4. /\ cstate' \in [Coros -> States] /\ StackInv' /\ CountInv'
      /\ \A d \in Coros : cstate[d] # "suspended" => cstate'[d] = cstate[d]
      /\ \A d \in Coros : cstate'[d] = IF d \in W \union {c} THEN "queued" ELSE cstate[d]
  <2>1. PICK V \in SUBSET Coros : V = W \union {c}
    BY <1>2
  <2>2. /\ cstate' = [d \in Coros |-> IF d \in V THEN "queued" ELSE cstate[d]]
        /\ \A x \in V : cstate[x] = "suspended"
    BY <1>1, <1>2, <1>3, <2>1
  <2>3. /\ cstate' \in [Coros -> States] /\ StackInv' /\ CountInv'
        /\ \A d \in Coros : cstate[d] # "suspended" => cstate'[d] = cstate[d]
        /\ \A d \in Coros : cstate'[d] = IF d \in V THEN "queued" ELSE cstate[d]
    BY <2>2, WakeKeeps
  <2>. QED
    BY <2>1, <2>3
<1>5. queue' \in Seq(Coros) /\ QueueInv'
  <2>1. queue' = Append(queue, c) \o SetToSeq(W)
    BY <1>1
  <2>. QED
    BY <1>2, <1>3, <1>4, <2>1, QueueAppendsAndWakes
<1>6. /\ timer' \in [Contexts -> {"none", "armed", "disarmed", "expired"}]
      /\ timer'[c] = "none" /\ (\A d \in Contexts : d # c => timer'[d] = timer[d])
      /\ UNCHANGED <<left, due>>
  BY ClosedFacts
<1>7. /\ got' \in [Coros -> Deliveries] /\ \A d \in Coros \ {c} : got'[d] = got[d]
      /\ got'[c] # Nothing /\ got'[c].st \in {"resolved", "rejected"}
      /\ got'[c].st = promise[w].st /\ got'[c].from = w
      /\ got'[c].by # <<c, got'[c].at>>
  BY DeliveryFacts
<1>8. /\ promise' \in [Contexts -> [st : {"pending", "resolved", "rejected"}, by : Settlers]]
      /\ Lasting /\ promise'[MAIN] = promise[MAIN]
      /\ \A p \in Contexts : \/ promise'[p] = promise[p]
                             \/ promise'[p] = [st |-> "rejected", by |-> <<c, pc[c]>>]
      /\ l # NONE => promise'[l].st # "pending"
  <2>1. <<c, pc[c]>> \in Settlers
    BY Names DEF LoopTypes, Settlers
  <2>2. PICK L \in SUBSET Coros : L = {l} \ {NONE}
    OBVIOUS
  <2>3. promise' = CancelledBy(<<c, pc[c]>>, L)
    BY <2>2
  <2>4. /\ promise' \in [Contexts -> [st : {"pending", "resolved", "rejected"}, by : Settlers]]
        /\ Lasting /\ promise'[MAIN] = promise[MAIN]
        /\ \A p \in Contexts : \/ promise'[p] = promise[p]
                               \/ p \in L /\ promise'[p] = [st |-> "rejected", by |-> <<c, pc[c]>>]
        /\ \A p \in L : promise'[p].st # "pending"
    BY <2>1, <2>3, CancelledFacts
  <2>. QED
    BY <2>2, <2>4
<1>9. /\ waiter' \in [Coros -> Coros \union {NONE}]
      /\ \A q \in Coros : waiter'[q] = IF q \in lost THEN NONE ELSE waiter[q]
  BY DEF LoopTypes
<1>10. /\ inTime' \in SUBSET Coros /\ InTimeInv'
       /\ \A d \in Coros : got'[d] = got[d] => DeliveredTo(d)'
  <2>1. \A x \in lost : x \in Coros /\ promise'[x].st # "pending"
    BY <1>8
  <2>2. \A d \in inTime' : d \in inTime \/ \E x \in lost : d \in Answers(x)
    OBVIOUS
  <2>3. \A d \in inTime' : \/ d \in inTime
                           \/ \E x \in Coros : d \in Answers(x) /\ promise'[x].st # "pending"
    BY <2>1, <2>2
  <2>4. \A d \in Coros : got'[d] = got[d] \/ got'[d] # Nothing
    BY <1>7
  <2>. QED
    BY <1>6, <1>8, <2>3, <2>4, SettlingKeeps
<1>11. DeliveredInv'
  <2>1. DeliveredTo(c)'
    <3>1. promise'[w].st = promise[w].st /\ promise[w].st # "pending" /\ w # NONE
      BY <1>8 DEF Lasting, Settled, IsPending
    <3>2. \A i \in DOMAIN handles[c] : handles[c][i] # NONE => promise'[handles[c][i]].st # "pending"
      BY <1>8, <3>1
    <3>. QED
      BY <1>7, <3>1, <3>2 DEF DeliveredTo, Settled, IsPending
  <2>. QED
    BY <1>7, <1>10, <2>1 DEF DeliveredInv
<1>12. LoopTypes'
  BY <1>4, <1>5, <1>6, <1>7, <1>8, <1>9, <1>10 DEF LoopTypes, WaitTypes
<1>13. WaiterInv'
  <2>1. \A p \in Coros : waiter'[p] # NONE =>
          waiter'[p] = waiter[p] /\ waiter[p] \in Coros /\ waiter[p] \notin W /\ waiter[p] # c
    BY <1>2, <1>3, <1>9 DEF LoopTypes
  <2>. QED
    BY <1>4, <2>1, WaiterKeeps
<1>14. TimerInv'
  <2>1. \A d \in Coros : timer'[d] # "none" => d # c /\ d \notin W /\ timer[d] # "none"
    BY <1>2, <1>6, Names
  <2>. QED
    BY <1>4, <1>7, <2>1, TimerKeeps
<1>15. MainInv'
  BY <1>4, <1>6, <1>8, Names, MainKeeps
<1>16. ResolvedInv'
  <2>1. \A p \in Coros : promise'[p].st = "resolved" => promise[p].st = "resolved"
    <3>1. \A x : [st |-> "rejected", by |-> x].st = "rejected"
      OBVIOUS
    <3>. QED
      BY <1>8, <3>1, Names
  <2>. QED
    BY <1>4, <2>1 DEF ResolvedInv
<1>17. CancelInv'
  <2> SUFFICES ASSUME NEW p \in Contexts, NEW d \in Coros, NEW k \in Nat, promise'[p].by = <<d, k>>, k # 0
               PROVE  k < pc[d] \/ (k = pc[d] /\ cstate'[d] = "queued")
    BY DEF CancelInv
  <2>1. CASE promise'[p] = promise[p]
    <3>1. k < pc[d] \/ (k = pc[d] /\ cstate[d] = "queued")
      BY <2>1 DEF CancelInv
    <3>. QED
      BY <1>4, <3>1
  <2>2. CASE promise'[p] = [st |-> "rejected", by |-> <<c, pc[c]>>]
    <3>1. \A x : [st |-> "rejected", by |-> x].by = x
      OBVIOUS
    <3>2. <<d, k>> = <<c, pc[c]>>
      BY <2>2, <3>1, Zenon
    <3>. QED
      BY <1>4, <3>2
  <2>. QED
    BY <1>8, <2>1, <2>2
<1>. QED
  BY <1>4, <1>5, <1>10, <1>11, <1>12, <1>13, <1>14, <1>15, <1>16, <1>17

LEMMA SelectWakerKeeps == ASSUME LoopInv, NEW c \in Coros, SelectWaker(c) PROVE LoopInv'
<1>1. timer[c] = "expired"
  BY DEF SelectWaker, ServesStep, Serves
<1>2. CASE PollAgain(c) /\ UNCHANGED <<prog, active_tasks, stack, pc, waits, phase>>
  BY <1>1, <1>2, PollAgainKeeps
<1>3. CASE \E w \in Coros, l \in Coros \union {NONE} :
             /\ Settled(w) /\ SelectEnds(c, w, l, {x \in {l} \ {NONE} : IsPending(x)})
             /\ \A i \in DOMAIN handles[c] : handles[c][i] \in {w, l}
  BY <1>1, <1>3, SelectEndsKeeps
<1>. QED
  BY <1>2, <1>3, SelectWakerCases

-----------------------------------------------------------------------------
(* The theorems.                                                           *)

LEMMA StepKeepsLoop == ASSUME LoopInv, [Next]_vars PROVE LoopInv'
<1>1. \A c \in Coros : Slice(c) => LoopInv'
  BY SleepKeeps, YieldKeeps, AwaitKeeps, TimeoutKeeps, SelectKeeps, JoinKeeps, FinishKeeps DEF Slice
<1>2. \A c \in Coros : Poll(c) => LoopInv'
  BY SleepWakerKeeps, TimeoutWakerKeeps, SelectWakerKeeps DEF Poll
<1>3. \A c \in Coros : MainBlocks(<<c>>) => LoopInv'
  <2>1. \A c \in Coros : <<c>> \in Seq(Contexts)
    BY Names
  <2>. QED
    BY <2>1, MainBlocksKeeps
<1>4. \A c, d \in Coros : MainBlocks(<<c, d>>) => LoopInv'
  <2>1. \A c, d \in Coros : <<c, d>> \in Seq(Contexts)
    BY Names
  <2>. QED
    BY <2>1, MainBlocksKeeps
<1>. QED
  BY <1>1, <1>2, <1>3, <1>4, SpawnKeeps, CancelKeepsLoop, MainSleepKeeps, MainWakerKeeps, BlockOnDoneKeeps,
     MainReturnsKeeps, RunHeadKeeps, ExitKeeps, TickKeeps, LoopStutters DEF Next

LEMMA LoopHolds == Spec => []LoopInv
<1>. QED
  BY LoopStarts, StepKeepsLoop, PTL DEF Spec

\* timeout never throws away an answer that came in time and never throws
\* early; select delivers what one of its promises was settled with, never its
\* own cancellation of the loser, and leaves none pending (timeout_poll_waker,
\* select_poll_waker), whatever the coroutines do, for any number of
\* coroutines, timers and programs.
THEOREM Delivery == Spec => []CombinatorsDeliver
<1>1. LoopInv => CombinatorsDeliver
  BY DEF LoopInv, DeliveredInv, DeliveredTo, CombinatorsDeliver
<1>. QED
  BY <1>1, LoopHolds, PTL

\* When the loop of main ends (main, moksha_scheduler_is_active), every
\* coroutine has finished and every timer descriptor is closed, though the
\* loop only looks at a counter and a queue.
THEOREM CleanExit == Spec => []ExitsClean
<1>1. LoopInv => ExitsClean
  <2> SUFFICES ASSUME LoopInv, phase = "exited"
               PROVE  Open = {} /\ \A c \in Coros : cstate[c] = "finished"
    BY DEF ExitsClean
  <2>1. IsFiniteSet(Alive) /\ Cardinality(Alive) = 0
    BY Names, FS_Subset DEF Alive, LoopInv, CountInv
  <2>2. Alive = {}
    BY <2>1, FS_EmptySet
  <2>3. \A c \in Coros : cstate[c] = "finished"
    BY <2>2 DEF Alive, LoopInv, MainInv, LoopTypes
  <2>4. \A c \in Coros : timer[c] = "none"
    BY <2>3 DEF LoopInv, TimerInv, AsleepIn
  <2>5. timer[MAIN] = "none"
    BY DEF LoopInv, MainInv
  <2>. QED
    BY <2>3, <2>4, <2>5, Names DEF Open
<1>. QED
  BY <1>1, LoopHolds, PTL

-----------------------------------------------------------------------------
(* Nobody who sleeps is forgotten, given as many timers as can be open at  *)
(* once.                                                                   *)

\* One descriptor for every coroutine, one for main, and one more: a poll
\* registers its next timer before the expired one is closed.
EnoughTimers == MaxFds >= NumCoros + 2

\* Programs without the two known ways to lose a wakeup: a sleep of zero
\* milliseconds, and a second await of a promise, which replaces the first.
CarefulPrograms ==
  \A p \in Programs : \A c \in Coros : \A i \in DOMAIN p[c].steps :
    /\ p[c].steps[i].op = "sleep" => p[c].steps[i].ms > 0
    /\ p[c].steps[i].op = "await" =>
         \A d \in Coros \ {c} : \A j \in DOMAIN p[d].steps :
           p[d].steps[j].op = "await" => p[d].steps[j].of[1] # p[c].steps[i].of[1]

\* A sleeper has a timer that will expire or has, or is the waiter of the
\* pending promise that it awaits.
Ticking(c) == timer[c] = "expired" \/ (timer[c] = "armed" /\ left[c] > 0)
HasWaker(c) ==
  /\ AsleepIn(c, {"sleep", "timeout", "select", "await"})
  /\ IF Step(c).op = "await"
     THEN promise[Step(c).of[1]].st = "pending" /\ waiter[Step(c).of[1]] = c
     ELSE Ticking(c)
NobodyForgotten == \A c \in Coros : cstate[c] = "suspended" => HasWaker(c)

LEMMA WakerStays ==
  ASSUME NEW c \in Coros, HasWaker(c), UNCHANGED prog, cstate'[c] = "suspended", pc'[c] = pc[c],
         Step(c).op # "await" => Ticking(c)',
         Step(c).op = "await" =>
           promise'[Step(c).of[1]].st = "pending" /\ waiter'[Step(c).of[1]] = c
  PROVE  HasWaker(c)'
<1>1. Step(c)' = Step(c) /\ (AtEnd(c)' <=> AtEnd(c))
  BY DEF Step, AtEnd
<1>. QED
  BY <1>1 DEF HasWaker, AsleepIn

\* A step after which whoever sleeps slept before, with the same timers and
\* promises.
LEMMA ForgetsNobody ==
  ASSUME LoopTypes, NobodyForgotten, UNCHANGED <<prog, promise, waiter>>,
         \A c \in Coros : cstate'[c] = "suspended" =>
           /\ cstate[c] = "suspended" /\ pc'[c] = pc[c]
           /\ timer'[c] = timer[c] /\ left'[c] = left[c]
  PROVE  NobodyForgotten'
<1> SUFFICES ASSUME NEW c \in Coros, cstate'[c] = "suspended" PROVE HasWaker(c)'
  BY DEF NobodyForgotten
<1>1. HasWaker(c) /\ pc'[c] = pc[c]
  BY DEF NobodyForgotten
<1>2. Step(c).op # "await" => Ticking(c)'
  BY <1>1 DEF HasWaker, Ticking
<1>3. Step(c).op = "await" =>
        promise'[Step(c).of[1]].st = "pending" /\ waiter'[Step(c).of[1]] = c
  BY <1>1 DEF HasWaker
<1>. QED
  BY <1>1, <1>2, <1>3, WakerStays

LEMMA TimersAreEnough ==
  ASSUME EnoughTimers, LoopTypes PROVE ~(Cardinality(Open) >= MaxFds)
<1>1. IsFiniteSet(Contexts) /\ Cardinality(Contexts) = NumCoros + 1
  <2>1. Contexts = 0..NumCoros
    BY ProgramAssumption DEF Contexts, Coros, MAIN
  <2>2. 0 \in Int /\ NumCoros \in Int /\ 0 <= NumCoros
    BY ProgramAssumption
  <2>3. IsFiniteSet(0..NumCoros) /\ Cardinality(0..NumCoros) = NumCoros - 0 + 1
    BY <2>2, FS_Interval
  <2>. QED
    BY <2>1, <2>2, <2>3
<1>2. Open \subseteq Contexts
  BY DEF Open
<1>3. Cardinality(Open) <= NumCoros + 1 /\ Cardinality(Open) \in Nat
  BY <1>1, <1>2, FS_Subset, FS_CardinalityType
<1>. QED
  BY <1>3, ProgramAssumption DEF EnoughTimers

\* A slice that ends in a sleep, a timeout or a select has armed its timer.
LEMMA Armed ==
  ASSUME EnoughTimers, LoopTypes, NEW c \in Contexts, NEW ms \in Nat \ {0}, RegisterTimer(c, ms)
  PROVE  Ticking(c)' /\ \A d \in Contexts \ {c} : timer'[d] = timer[d] /\ left'[d] = left[d]
<1>1. timer' = [timer EXCEPT ![c] = "armed"] /\ left' = [left EXCEPT ![c] = ms]
  BY TimersAreEnough DEF RegisterTimer
<1>. QED
  BY <1>1 DEF Ticking, LoopTypes

LEMMA GoesToSleep ==
  ASSUME LoopInv, NobodyForgotten, NEW c \in Coros, NEW op \in {"sleep", "timeout", "select"},
         Runs(c, op), Suspend(c), UNCHANGED <<prog, promise, waiter>>,
         Ticking(c)', \A d \in Contexts \ {c} : timer'[d] = timer[d] /\ left'[d] = left[d]
  PROVE  NobodyForgotten'
<1>1. /\ cstate'[c] = "suspended" /\ pc' = pc
      /\ \A d \in Coros : d # c => cstate'[d] = cstate[d]
  BY SuspendKeeps, LeaveKeeps DEF Runs, Leaves
<1> SUFFICES ASSUME NEW d \in Coros, cstate'[d] = "suspended" PROVE HasWaker(d)'
  BY DEF NobodyForgotten
<1>2. CASE d = c
  <2>1. Step(c)' = Step(c) /\ (AtEnd(c)' <=> AtEnd(c))
    BY <1>1 DEF Step, AtEnd
  <2>. QED
    BY <1>1, <1>2, <2>1 DEF HasWaker, AsleepIn, Runs
<1>3. CASE d # c
  <2>1. HasWaker(d)
    BY <1>1, <1>3 DEF NobodyForgotten
  <2>2. timer'[d] = timer[d] /\ left'[d] = left[d]
    BY <1>3, Names
  <2>3. Step(d).op # "await" => Ticking(d)'
    BY <2>1, <2>2 DEF HasWaker, Ticking
  <2>4. Step(d).op = "await" =>
          promise'[Step(d).of[1]].st = "pending" /\ waiter'[Step(d).of[1]] = d
    BY <2>1 DEF HasWaker
  <2>. QED
    BY <1>1, <2>1, <2>3, <2>4, WakerStays
<1>. QED
  BY <1>2, <1>3

LEMMA InProgram ==
  ASSUME LoopTypes, NEW c \in Coros, ~AtEnd(c) PROVE pc[c] \in DOMAIN prog[c].steps
<1>1. prog[c].steps \in
        Seq([op : {"yield", "sleep", "await", "timeout", "select", "join"}, ms : Nat, of : Seq(Coros)])
  BY ProgramAssumption DEF LoopTypes
<1>2. Len(prog[c].steps) \in Nat /\ DOMAIN prog[c].steps = 1..Len(prog[c].steps)
  BY <1>1, LenProperties
<1>3. pc[c] \in Nat \ {0} /\ ~(pc[c] > Len(prog[c].steps))
  BY DEF LoopTypes, AtEnd
<1>. QED
  BY <1>2, <1>3

LEMMA SliceForgetsNobody ==
  ASSUME EnoughTimers, CarefulPrograms, LoopInv, NobodyForgotten, NEW c \in Coros,
         Sleep(c) \/ Timeout(c) \/ Select(c)
  PROVE  NobodyForgotten'
<1>1. c \in Contexts
  BY Names
<1>2. CASE Sleep(c)
  <2>1. Step(c).ms \in Nat \ {0}
    <3>1. Step(c).ms \in Nat
      BY <1>2, StepFacts DEF Sleep, Runs, LoopInv
    <3>2. pc[c] \in DOMAIN prog[c].steps
      BY <1>2, InProgram DEF Sleep, Runs, LoopInv
    <3>3. Step(c).ms > 0
      BY <1>2, <3>2 DEF CarefulPrograms, LoopInv, LoopTypes, Sleep, Runs, Step
    <3>. QED
      BY <3>1, <3>3
  <2>2. Ticking(c)' /\ \A d \in Contexts \ {c} : timer'[d] = timer[d] /\ left'[d] = left[d]
    BY <1>1, <1>2, <2>1, Armed DEF Sleep, LoopInv
  <2>. QED
    BY <1>2, <2>2, GoesToSleep DEF Sleep
<1>3. CASE Timeout(c) \/ Select(c)
  <2>1. RegisterTimer(c, 1)
    BY <1>3 DEF Timeout, Select
  <2>2. Ticking(c)' /\ \A d \in Contexts \ {c} : timer'[d] = timer[d] /\ left'[d] = left[d]
    BY <1>1, <2>1, Armed DEF LoopInv
  <2>. QED
    BY <1>3, <2>2, GoesToSleep DEF Timeout, Select
<1>. QED
  BY <1>2, <1>3

LEMMA AwaitForgetsNobody ==
  ASSUME CarefulPrograms, LoopInv, NobodyForgotten, NEW c \in Coros, Await(c)
  PROVE  NobodyForgotten'
<1> USE DEF LoopInv, Await, Runs, timerVars
<1>1. PICK p \in Coros : p = Step(c).of[1]
  BY StepFacts
<1>2. CASE ~IsPending(p)
  <2>1. Requeue(c) /\ UNCHANGED waiter
    BY <1>1, <1>2
  <2>2. /\ cstate'[c] = "queued" /\ pc' = pc
        /\ \A d \in Coros : d # c => cstate'[d] = cstate[d]
    BY <2>1, RequeueKeeps, LeaveKeeps DEF Leaves
  <2>. QED
    BY <2>1, <2>2, ForgetsNobody
<1>3. CASE IsPending(p)
  <2>1. Suspend(c) /\ waiter' = [waiter EXCEPT ![p] = c]
    BY <1>1, <1>3
  <2>2. /\ cstate'[c] = "suspended" /\ pc' = pc
        /\ \A d \in Coros : d # c => cstate'[d] = cstate[d]
    BY <2>1, SuspendKeeps, LeaveKeeps DEF Leaves
  <2>3. waiter'[p] = c /\ \A q \in Coros \ {p} : waiter'[q] = waiter[q]
    BY <2>1 DEF LoopTypes
  <2> SUFFICES ASSUME NEW d \in Coros, cstate'[d] = "suspended" PROVE HasWaker(d)'
    BY DEF NobodyForgotten
  <2>4. CASE d = c
    <3>1. Step(c)' = Step(c) /\ (AtEnd(c)' <=> AtEnd(c))
      BY <2>2 DEF Step, AtEnd
    <3>. QED
      BY <1>1, <1>3, <2>2, <2>3, <2>4, <3>1 DEF HasWaker, AsleepIn, IsPending
  <2>5. CASE d # c
    <3>1. HasWaker(d) /\ ~AtEnd(d)
      BY <2>2, <2>5 DEF NobodyForgotten, HasWaker, AsleepIn
    <3>2. Step(d).op # "await" => Ticking(d)'
      BY <3>1 DEF HasWaker, Ticking
    <3>3. Step(d).op = "await" => Step(d).of[1] \in Coros /\ Step(d).of[1] # p
      <4>1. pc[c] \in DOMAIN prog[c].steps /\ pc[d] \in DOMAIN prog[d].steps
        BY <3>1, InProgram
      <4>2. Step(d).op = "await" => Step(d).of[1] \in Coros
        BY <3>1, StepFacts
      <4>3. /\ prog \in Programs /\ d \in Coros \ {c}
            /\ prog[c].steps[pc[c]] = Step(c) /\ prog[d].steps[pc[d]] = Step(d)
        BY <2>5 DEF LoopTypes, Step
      <4>4. ASSUME Step(d).op = "await" PROVE Step(d).of[1] # Step(c).of[1]
        <5>1. Step(c).op = "await"
          OBVIOUS
        <5>2. \A e \in Coros \ {c} : \A j \in DOMAIN prog[e].steps :
                prog[e].steps[j].op = "await" => prog[e].steps[j].of[1] # Step(c).of[1]
          BY <4>1, <4>3, <5>1 DEF CarefulPrograms
        <5>. QED
          BY <4>1, <4>3, <4>4, <5>2
      <4>. QED
        BY <1>1, <4>2, <4>4
    <3>4. Step(d).op = "await" =>
            promise'[Step(d).of[1]].st = "pending" /\ waiter'[Step(d).of[1]] = d
      BY <2>3, <3>1, <3>3 DEF HasWaker
    <3>. QED
      BY <2>2, <3>1, <3>2, <3>4, WakerStays
  <2>. QED
    BY <2>4, <2>5
<1>. QED
  BY <1>2, <1>3

\* A step that settles the promises P and wakes those who wait for them.
LEMMA SettlingForgetsNobody ==
  ASSUME LoopInv, NobodyForgotten, UNCHANGED <<prog, pc>>, NEW P \in SUBSET Coros,
         \A p \in Coros \ P : promise'[p] = promise[p] /\ waiter'[p] = waiter[p],
         \A d \in Coros : cstate'[d] = "suspended" =>
           /\ cstate[d] = "suspended" /\ d \notin Woken(P)
           /\ timer'[d] = timer[d] /\ left'[d] = left[d]
  PROVE  NobodyForgotten'
<1> SUFFICES ASSUME NEW d \in Coros, cstate'[d] = "suspended" PROVE HasWaker(d)'
  BY DEF NobodyForgotten
<1>1. HasWaker(d) /\ ~AtEnd(d) /\ d \notin Woken(P)
  BY DEF NobodyForgotten, HasWaker, AsleepIn
<1>2. Step(d).op # "await" => Ticking(d)'
  BY <1>1 DEF HasWaker, Ticking
<1>3. ASSUME Step(d).op = "await"
      PROVE  promise'[Step(d).of[1]].st = "pending" /\ waiter'[Step(d).of[1]] = d
  <2>1. PICK p \in Coros : p = Step(d).of[1]
    BY <1>1, <1>3, StepFacts DEF LoopInv
  <2>2. promise[p].st = "pending" /\ waiter[p] = d
    BY <1>1, <1>3, <2>1 DEF HasWaker
  <2>3. p \notin P
    BY <1>1, <2>2, Names DEF Woken
  <2>. QED
    BY <2>1, <2>2, <2>3
<1>. QED
  BY <1>1, <1>2, <1>3, WakerStays

LEMMA CancelForgetsNobody ==
  ASSUME LoopInv, NobodyForgotten, NEW c \in Coros, Cancel(c) PROVE NobodyForgotten'
<1> USE DEF LoopInv, Cancel, timerVars
<1>1. PICK P \in SUBSET Coros : P = {c}
  OBVIOUS
<1>2. \A p \in Coros \ P : promise'[p] = promise[p] /\ waiter'[p] = waiter[p]
  BY <1>1, Names DEF CancelledBy, LoopTypes
<1>3. \A d \in Coros : cstate'[d] = "suspended" => cstate[d] = "suspended" /\ d \notin Woken(P)
  BY <1>1 DEF Schedule
<1>. QED
  BY <1>2, <1>3, SettlingForgetsNobody

LEMMA FinishForgetsNobody ==
  ASSUME LoopInv, NobodyForgotten, NEW c \in Coros, Finish(c) PROVE NobodyForgotten'
<1> USE DEF LoopInv, Finish, Returns, timerVars
<1>1. PICK P \in SUBSET Coros : P = {c}
  OBVIOUS
<1>2. \A p \in Coros \ P : promise'[p] = promise[p] /\ waiter'[p] = waiter[p]
  BY <1>1, Names DEF LoopTypes
<1>3. \A d \in Coros : cstate'[d] = "suspended" => cstate[d] = "suspended" /\ d \notin Woken(P)
  <2>1. \A d \in Coros : cstate'[d] = IF d = c THEN "finished"
                                      ELSE IF d \in Woken(P) THEN "queued" ELSE cstate[d]
    BY <1>1
  <2>. QED
    BY <2>1
<1>. QED
  BY <1>2, <1>3, SettlingForgetsNobody

LEMMA SelectForgetsNobody ==
  ASSUME LoopInv, NobodyForgotten, NEW c \in Coros,
         NEW w \in Coros, NEW l \in Coros \union {NONE},
         NEW lost, lost = {x \in {l} \ {NONE} : IsPending(x)}, SelectEnds(c, w, l, lost)
  PROVE  NobodyForgotten'
<1> USE DEF LoopInv, SelectEnds
<1>1. lost \in SUBSET Coros
  OBVIOUS
<1>2. \A p \in Coros \ lost : promise'[p] = promise[p] /\ waiter'[p] = waiter[p]
  BY Names DEF CancelledBy, LoopTypes
<1>3. /\ timer'[c] = "none" /\ (\A d \in Contexts : d # c => timer'[d] = timer[d])
      /\ UNCHANGED <<left, due>>
  BY ClosedFacts
<1>4. \A d \in Coros : cstate'[d] = IF d \in Woken(lost) \union {c} THEN "queued" ELSE cstate[d]
  OBVIOUS
<1>5. \A d \in Coros : cstate'[d] = "suspended" =>
        /\ cstate[d] = "suspended" /\ d \notin Woken(lost)
        /\ timer'[d] = timer[d] /\ left'[d] = left[d]
  BY <1>3, <1>4, Names
<1>. QED
  BY <1>1, <1>2, <1>5, SettlingForgetsNobody

LEMMA TickForgetsNobody ==
  ASSUME LoopInv, NobodyForgotten, Tick PROVE NobodyForgotten'
<1> USE DEF LoopInv, Tick, procVars
<1> SUFFICES ASSUME NEW c \in Coros, cstate'[c] = "suspended" PROVE HasWaker(c)'
  BY DEF NobodyForgotten
<1>1. HasWaker(c)
  BY DEF NobodyForgotten
<1>2. Step(c).op # "await" => Ticking(c)'
  <2>1. /\ c \in Contexts /\ left[c] \in Int
    BY Names DEF LoopTypes
  <2>2. /\ timer'[c] = IF timer[c] = "armed" /\ left[c] = 1 THEN "expired" ELSE timer[c]
        /\ left'[c] = IF timer[c] = "armed" THEN left[c] - 1 ELSE left[c]
    BY <2>1
  <2>3. Ticking(c) => Ticking(c)'
    BY <2>1, <2>2 DEF Ticking
  <2>. QED
    BY <1>1, <2>3 DEF HasWaker
<1>3. Step(c).op = "await" =>
        promise'[Step(c).of[1]].st = "pending" /\ waiter'[Step(c).of[1]] = c
  BY <1>1 DEF HasWaker
<1>. QED
  BY <1>1, <1>2, <1>3, WakerStays

LEMMA PollForgetsNobody ==
  ASSUME EnoughTimers, LoopInv, NobodyForgotten, NEW c \in Coros, PollAgain(c),
         UNCHANGED <<prog, active_tasks, stack, pc, waits, phase>>
  PROVE  NobodyForgotten'
<1> USE DEF LoopInv, PollAgain
<1>1. timer' = [timer EXCEPT ![c] = "armed"] /\ left' = [left EXCEPT ![c] = 1]
  BY TimersAreEnough
<1>2. /\ timer'[c] = "armed" /\ left'[c] = 1
      /\ \A d \in Coros \ {c} : timer'[d] = timer[d] /\ left'[d] = left[d]
  BY <1>1, Names DEF LoopTypes
<1> SUFFICES ASSUME NEW d \in Coros, cstate'[d] = "suspended" PROVE HasWaker(d)'
  BY DEF NobodyForgotten
<1>3. HasWaker(d)
  BY DEF NobodyForgotten
<1>4. Step(d).op # "await" => Ticking(d)'
  BY <1>2, <1>3 DEF HasWaker, Ticking
<1>5. Step(d).op = "await" =>
        promise'[Step(d).of[1]].st = "pending" /\ waiter'[Step(d).of[1]] = d
  BY <1>3 DEF HasWaker
<1>. QED
  BY <1>3, <1>4, <1>5, WakerStays

LEMMA WokenForgetsNobody ==
  ASSUME LoopInv, NobodyForgotten, NEW c \in Coros, Close(c), Schedule({c}),
         UNCHANGED <<prog, pc, promise, waiter>>
  PROVE  NobodyForgotten'
<1>1. /\ timer'[c] = "none" /\ (\A d \in Contexts : d # c => timer'[d] = timer[d])
      /\ UNCHANGED <<left, due>>
  BY ClosedFacts DEF LoopInv
<1>2. \A d \in Coros : cstate'[d] = IF d = c THEN "queued" ELSE cstate[d]
  BY DEF Schedule
<1>. QED
  BY <1>1, <1>2, Names, ForgetsNobody DEF LoopInv

LEMMA MainForgetsNobody ==
  ASSUME LoopInv, NobodyForgotten, MainSleep \/ MainWaker \/ RunHead \/ BlockOnDone
  PROVE  NobodyForgotten'
<1> USE DEF LoopInv, procVars, timerVars
<1>1. CASE MainSleep
  <2>1. \A d \in Coros : timer'[d] = timer[d] /\ left'[d] = left[d]
    BY <1>1, Names DEF MainSleep, RegisterTimer, LoopTypes
  <2>. QED
    BY <1>1, <2>1, ForgetsNobody DEF MainSleep
<1>2. CASE MainWaker
  <2>1. PICK P \in SUBSET Coros : P = {}
    OBVIOUS
  <2>2. \A d \in Coros : promise'[d] = promise[d] /\ timer'[d] = timer[d]
    BY <1>2, Names DEF MainWaker, Close, LoopTypes
  <2>3. Woken(P) = {}
    BY <2>1 DEF Woken
  <2>. QED
    BY <1>2, <2>2, <2>3, SettlingForgetsNobody DEF MainWaker, Close
<1>3. CASE RunHead
  <2>1. PICK h \in Coros : h = Head(queue)
    BY <1>3, TailFacts DEF LoopTypes, RunHead
  <2>2. \A d \in Coros : IF d = h THEN cstate'[d] = "running" ELSE cstate'[d] = cstate[d] /\ pc'[d] = pc[d]
    BY <1>3, <2>1 DEF RunHead, LoopTypes
  <2>. QED
    BY <1>3, <2>2, ForgetsNobody DEF RunHead
<1>4. CASE BlockOnDone
  <2>1. CASE UNCHANGED procVars
    BY <1>4, <2>1, ForgetsNobody DEF BlockOnDone
  <2>2. CASE Top # MAIN /\ Requeue(Top)
    <3>1. PICK c \in Coros : c = Top
      BY <2>2, TopFacts
    <3>2. Requeue(c)
      BY <2>2, <3>1
    <3>3. /\ cstate'[c] = "queued" /\ pc' = pc
          /\ \A d \in Coros : d # c => cstate'[d] = cstate[d]
      BY <1>4, <3>1, <3>2, RequeueKeeps, LeaveKeeps DEF Leaves, BlockOnDone
    <3>. QED
      BY <1>4, <3>3, ForgetsNobody DEF BlockOnDone
  <2>. QED
    BY <1>4, <2>1, <2>2 DEF BlockOnDone
<1>. QED
  BY <1>1, <1>2, <1>3, <1>4

LEMMA OthersForgetNobody ==
  ASSUME LoopInv, NobodyForgotten, NEW c \in Coros, Spawn(c) \/ Yield(c) \/ Join(c)
  PROVE  NobodyForgotten'
<1> USE DEF LoopInv, procVars, timerVars
<1>1. CASE Spawn(c)
  <2>1. \A d \in Coros : IF d = c THEN cstate'[d] = "running" ELSE cstate'[d] = cstate[d]
    BY <1>1 DEF Spawn, LoopTypes
  <2>. QED
    BY <1>1, <2>1, ForgetsNobody DEF Spawn
<1>2. CASE Top = c /\ Requeue(c) /\ UNCHANGED <<prog, promise, waiter, timerVars>>
  <2>1. /\ cstate'[c] = "queued" /\ pc' = pc
        /\ \A d \in Coros : d # c => cstate'[d] = cstate[d]
    BY <1>2, RequeueKeeps, LeaveKeeps DEF Leaves
  <2>. QED
    BY <1>2, <2>1, ForgetsNobody
<1>3. CASE Yield(c)
  BY <1>2, <1>3 DEF Yield, Runs
<1>4. CASE Join(c)
  <2>1. CASE Requeue(c)
    BY <1>2, <1>4, <2>1 DEF Join, Runs
  <2>2. CASE UNCHANGED procVars
    BY <1>4, <2>2, ForgetsNobody DEF Join
  <2>. QED
    BY <1>4, <2>1, <2>2 DEF Join
<1>. QED
  BY <1>1, <1>3, <1>4

LEMMA WakersForgetNobody ==
  ASSUME EnoughTimers, LoopInv, NobodyForgotten, NEW c \in Coros, Poll(c)
  PROVE  NobodyForgotten'
<1>1. CASE SleepWaker(c)
  BY <1>1, WokenForgetsNobody DEF SleepWaker
<1>2. CASE TimeoutWaker(c)
  <2>1. CASE Close(c) /\ Schedule({c}) /\ UNCHANGED <<promise, waiter>>
    BY <1>2, <2>1, WokenForgetsNobody DEF TimeoutWaker
  <2>2. CASE PollAgain(c)
    BY <1>2, <2>2, PollForgetsNobody DEF TimeoutWaker
  <2>. QED
    BY <1>2, <2>1, <2>2 DEF TimeoutWaker
<1>3. CASE SelectWaker(c)
  <2>1. CASE PollAgain(c) /\ UNCHANGED <<prog, active_tasks, stack, pc, waits, phase>>
    BY <2>1, PollForgetsNobody
  <2>2. CASE \E w \in Coros, l \in Coros \union {NONE} :
               /\ Settled(w) /\ SelectEnds(c, w, l, {x \in {l} \ {NONE} : IsPending(x)})
               /\ \A i \in DOMAIN handles[c] : handles[c][i] \in {w, l}
    BY <2>2, SelectForgetsNobody
  <2>. QED
    BY <1>3, <2>1, <2>2, SelectWakerCases
<1>. QED
  BY <1>1, <1>2, <1>3 DEF Poll

LEMMA StepForgetsNobody ==
  ASSUME EnoughTimers, CarefulPrograms, LoopInv, NobodyForgotten, [Next]_vars
  PROVE  NobodyForgotten'
<1>1. \A c \in Coros : Slice(c) => NobodyForgotten'
  BY SliceForgetsNobody, AwaitForgetsNobody, OthersForgetNobody, FinishForgetsNobody DEF Slice
<1>2. ASSUME UNCHANGED <<prog, cstate, pc, promise, waiter, timer, left>> PROVE NobodyForgotten'
  BY <1>2, ForgetsNobody DEF LoopInv
<1>3. \A ps : MainBlocks(ps) => NobodyForgotten'
  BY <1>2 DEF MainBlocks, procVars, timerVars
<1>4. MainReturns \/ Exit \/ UNCHANGED vars => NobodyForgotten'
  BY <1>2 DEF MainReturns, Exit, vars, procVars, timerVars
<1>. QED
  BY <1>1, <1>3, <1>4, OthersForgetNobody, CancelForgetsNobody, WakersForgetNobody, MainForgetsNobody,
     TickForgetsNobody DEF Next

\* No wakeup is lost (register_await, coro_finish, moksha_builtin_cancel,
\* sleep_timer_waker, the polls of timeout and select): whoever sleeps has a
\* timer that will expire or has expired, or is recorded as the waiter of a
\* promise that is still pending.  It takes two descriptors more than there are
\* coroutines, and programs without sleep(0) and without two awaits of one
\* promise; this is the safety half of AwaitsReturn.
THEOREM NoWakeupForgotten ==
  ASSUME EnoughTimers, CarefulPrograms
  PROVE  Spec => []NobodyForgotten
<1>1. Init => NobodyForgotten
  BY DEF Init, NobodyForgotten
<1>2. LoopInv /\ NobodyForgotten /\ [Next]_vars => NobodyForgotten'
  BY StepForgetsNobody
<1>. QED
  BY <1>1, <1>2, LoopHolds, PTL DEF Spec
=============================================================================
