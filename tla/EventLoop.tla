----------------------------- MODULE EventLoop -----------------------------
(***************************************************************************)
(* The main loop of a Moksha program (runtime_init.c), the run queue and   *)
(* the timers of the Linux event loop (sys/linux/event_loop.c) as sleep,   *)
(* yield, cancel, timeout, select, join and await use them                 *)
(* (async_builtins.c, task.c).                                             *)
(*                                                                         *)
(* Everything here happens on the main thread: the program has no          *)
(* spawn_thread.  All coroutines have the same priority, so the queue is   *)
(* first-in first-out; module Scheduler has its order in full.  The        *)
(* coroutines are 1..NumCoros; 0 is main, which is none: its await is      *)
(* block_on.  main spawns the coroutines in turn and passes each the       *)
(* promises there are by then; it may cancel the Doomed ones, await and    *)
(* join coroutines and, if MainSleeps, once await a sleep.  A program is   *)
(* a list of awaits for every coroutine, and whether it ends by a throw.   *)
(*                                                                         *)
(* join is no coroutine either: it calls block_on, which runs other        *)
(* coroutines on top of the one that joins.  So the native stack is part   *)
(* of the state.                                                           *)
(***************************************************************************)
EXTENDS Naturals, Sequences, FiniteSets, SequencesExt

CONSTANTS
  NumCoros,
  Programs,   \* the programs to choose from
  Doomed,     \* coroutines whose promises main cancels
  MainSleeps, \* main awaits a sleep
  MainDelay,  \* of so many milliseconds
  MaxFds      \* timers the process can have open

MAIN     == 0
Coros    == 1..NumCoros
Contexts == Coros \union {MAIN}
NONE     == NumCoros + 1

ASSUME ProgramAssumption ==
  /\ NumCoros \in Nat /\ MaxFds \in Nat /\ MainDelay \in Nat
  /\ Doomed \subseteq Coros /\ MainSleeps \in BOOLEAN
  /\ \A p \in Programs : \A c \in Coros :
       /\ p[c].steps \in
            Seq([op : {"yield", "sleep", "await", "timeout", "select", "join"}, ms : Nat, of : Seq(Coros)])
       /\ \A i \in DOMAIN p[c].steps :
            /\ p[c].steps[i].op \in {"await", "timeout"} => Len(p[c].steps[i].of) = 1
            /\ p[c].steps[i].op = "select" => Len(p[c].steps[i].of) = 2

VARIABLES
  prog,       \* the program
  queue, active_tasks,
  stack,      \* main and the coroutines whose slices have begun on the native stack
  waits,      \* context -> the promises its calls of block_on still wait for
  cstate,     \* where each coroutine is
  pc,         \* the await it is at
  promise,    \* the coroutine's own promise; for MAIN that of its sleep
  waiter,     \* waiting_coro of the coroutine's promise
  timer,      \* the context's timer descriptor
  left,       \* milliseconds an armed timer has left
  due,        \* milliseconds until end_time_ms of the coroutine's timeout
  handles,    \* the promises its TimeoutCtx or SelectCtx holds; NONE is NULL
  got,        \* what its timeout or select delivered
  inTime,     \* history: whose timeout was answered before it was due
  phase       \* "main" inside __moksha_main, "loop", "exited"

procVars  == <<queue, active_tasks, stack, cstate, pc>>
timerVars == <<timer, left, due>>
waitVars  == <<handles, got, inTime>>
vars == <<prog, procVars, waits, promise, waiter, timerVars, waitVars, phase>>

\* Who settled a promise: a coroutine by its return, main, or the select that
\* is the nth await of a coroutine.
Itself(c) == <<c, 0>>
Pending == [st |-> "pending", by |-> Itself(NONE)]
Nothing == [st |-> "none", by |-> Itself(NONE), from |-> NONE, at |-> 0]

Init ==
  /\ prog \in Programs
  /\ queue = <<>> /\ active_tasks = 0
  /\ stack = <<MAIN>> /\ phase = "main"
  /\ waits = [c \in Contexts |-> <<>>]
  /\ cstate = [c \in Coros |-> "unborn"]
  /\ pc = [c \in Coros |-> 1]
  /\ promise = [c \in Contexts |-> Pending]
  /\ waiter = [c \in Coros |-> NONE]
  /\ timer = [c \in Contexts |-> "none"]
  /\ left = [c \in Contexts |-> 0]
  /\ due = [c \in Coros |-> 0]
  /\ handles = [c \in Coros |-> <<>>]
  /\ got = [c \in Coros |-> Nothing]
  /\ inTime = {}

IsPending(p) == promise[p].st = "pending"
Step(c) == prog[c].steps[pc[c]]
AtEnd(c) == pc[c] > Len(prog[c].steps)

-----------------------------------------------------------------------------
(* Timers.                                                                 *)

Open == {c \in Contexts : timer[c] # "none"}

\* sys_event_register_timer.  timerfd_settime with a time of zero disarms the
\* timer, and no descriptor left is an error, which the callers ignore.
RegisterTimer(c, ms) ==
  IF Cardinality(Open) >= MaxFds
  THEN UNCHANGED <<timer, left>>
  ELSE /\ timer' = [timer EXCEPT ![c] = IF ms = 0 THEN "disarmed" ELSE "armed"]
       /\ left' = [left EXCEPT ![c] = ms]

\* The kernel's clock.
Tick ==
  /\ \E c \in Contexts : timer[c] = "armed"
  /\ left' = [c \in Contexts |-> IF timer[c] = "armed" THEN left[c] - 1 ELSE left[c]]
  /\ timer' = [c \in Contexts |->
                 IF timer[c] = "armed" /\ left[c] = 1 THEN "expired" ELSE timer[c]]
  /\ due' = [c \in Coros |-> IF due[c] > 0 THEN due[c] - 1 ELSE 0]
  /\ UNCHANGED <<prog, procVars, waits, promise, waiter, waitVars, phase>>

-----------------------------------------------------------------------------
(* Settling a promise: resolve, cancel and coro_finish.                    *)

\* Coroutines that run next, once the promises P are settled.
Woken(P) == {waiter[p] : p \in P \ {MAIN}} \ {NONE}
Schedule(S) ==
  /\ queue' = queue \o SetToSeq(S)
  /\ cstate' = [c \in Coros |-> IF c \in S THEN "queued" ELSE cstate[c]]

\* The timeouts that are not due when p is settled.
Answers(p) == {c \in Coros : handles[c] = <<p>> /\ got[c] = Nothing /\ due[c] > 0}

\* moksha_builtin_cancel: a promise that is settled already stays.
CancelledBy(d, P) ==
  [p \in Contexts |-> IF p \in P /\ IsPending(p) THEN [st |-> "rejected", by |-> d] ELSE promise[p]]

-----------------------------------------------------------------------------
(* main.                                                                   *)

Top == Last(stack)
InMain == phase = "main" /\ stack = <<MAIN>> /\ waits[MAIN] = <<>>

\* A call of an async function: coro_setup counts the coroutine, whose first
\* slice runs at once.
Spawn(c) ==
  /\ InMain /\ cstate[c] = "unborn" /\ \A d \in 1 .. c - 1 : cstate[d] # "unborn"
  /\ active_tasks' = active_tasks + 1
  /\ stack' = Append(stack, c)
  /\ cstate' = [cstate EXCEPT ![c] = "running"]
  /\ UNCHANGED <<prog, queue, pc, waits, promise, waiter, timerVars, waitVars, phase>>

\* cancel rejects a pending promise and wakes who waits for it: the coroutine
\* itself does not learn of it.
Cancel(c) ==
  /\ InMain /\ c \in Doomed /\ cstate[c] # "unborn" /\ IsPending(c)
  /\ promise' = CancelledBy(Itself(MAIN), {c})
  /\ Schedule(Woken({c})) /\ waiter' = [waiter EXCEPT ![c] = NONE]
  /\ inTime' = inTime \union Answers(c)
  /\ UNCHANGED <<prog, active_tasks, stack, pc, waits, timerVars, handles, got, phase>>

\* await of a coroutine's promise, or of join, in main: block_on begins to pump.
MainBlocks(ps) ==
  /\ InMain /\ \A i \in DOMAIN ps : cstate[ps[i]] # "unborn" /\ IsPending(ps[i])
  /\ waits' = [waits EXCEPT ![MAIN] = ps]
  /\ UNCHANGED <<prog, procVars, promise, waiter, timerVars, waitVars, phase>>

\* await sleep(ms) in main, once.
MainSleep ==
  /\ InMain /\ MainSleeps /\ IsPending(MAIN)
  /\ RegisterTimer(MAIN, MainDelay)
  /\ waits' = [waits EXCEPT ![MAIN] = <<MAIN>>]
  /\ UNCHANGED <<prog, procVars, promise, waiter, due, waitVars, phase>>

MainReturns ==
  /\ InMain /\ \A c \in Coros : cstate[c] # "unborn"
  /\ phase' = "loop"
  /\ UNCHANGED <<prog, procVars, waits, promise, waiter, timerVars, waitVars>>

-----------------------------------------------------------------------------
(* A slice of a coroutine.                                                 *)

Runs(c, op) == Top = c /\ waits[c] = <<>> /\ ~AtEnd(c) /\ Step(c).op = op

Suspend(c) ==
  /\ stack' = Front(stack)
  /\ cstate' = [cstate EXCEPT ![c] = "suspended"]
  /\ UNCHANGED <<queue, active_tasks, pc>>

\* register_await of a promise that is complete schedules the coroutine at once.
Requeue(c) ==
  /\ stack' = Front(stack)
  /\ queue' = Append(queue, c)
  /\ cstate' = [cstate EXCEPT ![c] = "queued"]
  /\ UNCHANGED <<active_tasks, pc>>

\* await sleep(ms)
Sleep(c) ==
  /\ Runs(c, "sleep") /\ Suspend(c)
  /\ RegisterTimer(c, Step(c).ms)
  /\ UNCHANGED <<prog, waits, promise, waiter, due, waitVars, phase>>

\* await yield(): the promise is complete.
Yield(c) ==
  /\ Runs(c, "yield") /\ Requeue(c)
  /\ UNCHANGED <<prog, waits, promise, waiter, timerVars, waitVars, phase>>

\* await of a coroutine's promise.
Await(c) ==
  /\ Runs(c, "await")
  /\ LET p == Step(c).of[1]
     IN IF IsPending(p)
        THEN Suspend(c) /\ waiter' = [waiter EXCEPT ![p] = c]
        ELSE Requeue(c) /\ UNCHANGED waiter
  /\ UNCHANGED <<prog, waits, promise, timerVars, waitVars, phase>>

\* The promises main has passed on: those of the coroutines it has spawned.
Handle(p) == IF cstate[p] = "unborn" THEN NONE ELSE p
Handles(c) == [i \in DOMAIN Step(c).of |-> Handle(Step(c).of[i])]
Settled(p) == p # NONE /\ ~IsPending(p)

\* await timeout(p, ms): nothing looks at p before the first poll.
Timeout(c) ==
  /\ Runs(c, "timeout") /\ Suspend(c)
  /\ handles' = [handles EXCEPT ![c] = Handles(c)]
  /\ due' = [due EXCEPT ![c] = Step(c).ms]
  /\ RegisterTimer(c, 1)
  /\ got' = [got EXCEPT ![c] = Nothing]
  /\ inTime' = IF Settled(Handles(c)[1]) THEN inTime \union {c} ELSE inTime \ {c}
  /\ UNCHANGED <<prog, waits, promise, waiter, phase>>

\* await select(p1, p2)
Select(c) ==
  /\ Runs(c, "select") /\ Suspend(c)
  /\ handles' = [handles EXCEPT ![c] = Handles(c)]
  /\ RegisterTimer(c, 1)
  /\ got' = [got EXCEPT ![c] = Nothing]
  /\ UNCHANGED <<prog, waits, promise, waiter, due, inTime, phase>>

\* await join(p1, p2): two calls of block_on, which pump on top of the slice.
NonNull(ps) == SelectSeq(ps, LAMBDA p : p # NONE)
Join(c) ==
  /\ Runs(c, "join")
  /\ IF NonNull(Handles(c)) = <<>>
     THEN Requeue(c) /\ UNCHANGED waits
     ELSE /\ waits' = [waits EXCEPT ![c] = NonNull(Handles(c))]
          /\ UNCHANGED procVars
  /\ UNCHANGED <<prog, promise, waiter, timerVars, waitVars, phase>>

\* block_on's test of is_completed, between two rounds of the scheduler.  After
\* the last one join returns a promise that is complete.
BlockOnDone ==
  /\ waits[Top] # <<>> /\ ~IsPending(Head(waits[Top]))
  /\ waits' = [waits EXCEPT ![Top] = Tail(@)]
  /\ IF Top # MAIN /\ Len(waits[Top]) = 1 THEN Requeue(Top) ELSE UNCHANGED procVars
  /\ UNCHANGED <<prog, promise, waiter, timerVars, waitVars, phase>>

DecActive == active_tasks' = IF active_tasks > 0 THEN active_tasks - 1 ELSE 0

\* coro_finish completes the promise, whose is_rejected a cancel may have set
\* and nothing clears, wakes who waits, and leaves the count.
Returns(c) ==
  /\ Top = c /\ waits[c] = <<>> /\ AtEnd(c)
  /\ stack' = Front(stack)
  /\ promise' = [promise EXCEPT ![c] =
       [st |-> IF prog[c].throws \/ @.st = "rejected" THEN "rejected" ELSE "resolved", by |-> Itself(c)]]
  /\ LET S == Woken({c})
     IN /\ queue' = queue \o SetToSeq(S)
        /\ cstate' = [d \in Coros |-> IF d = c THEN "finished"
                                      ELSE IF d \in S THEN "queued" ELSE cstate[d]]
  /\ waiter' = [waiter EXCEPT ![c] = NONE]
  /\ inTime' = IF IsPending(c) THEN inTime \union Answers(c) ELSE inTime
  /\ UNCHANGED <<prog, pc, waits, timerVars, handles, got, phase>>
FinishNotCounted(c) == Returns(c) /\ UNCHANGED active_tasks
Finish(c) == Returns(c) /\ DecActive

-----------------------------------------------------------------------------
(* moksha_scheduler_run, in a loop of block_on or in that of main().       *)

Pumping ==
  \/ waits[Top] # <<>> /\ IsPending(Head(waits[Top]))
  \/ phase = "loop" /\ Top = MAIN

\* The head of the queue runs its next slice.
RunHead ==
  /\ Pumping /\ queue # <<>>
  /\ queue' = Tail(queue)
  /\ stack' = Append(stack, Head(queue))
  /\ cstate' = [cstate EXCEPT ![Head(queue)] = "running"]
  /\ pc' = [pc EXCEPT ![Head(queue)] = @ + 1]
  /\ UNCHANGED <<prog, active_tasks, waits, promise, waiter, timerVars, waitVars, phase>>

\* sys_event_poll, when the queue is empty and a coroutine is alive: one
\* expired timer, whose waker runs before its descriptor is closed.
Serves(c) == Pumping /\ queue = <<>> /\ active_tasks > 0 /\ timer[c] = "expired"
Close(c) == timer' = [timer EXCEPT ![c] = "none"] /\ UNCHANGED <<left, due>>
ServesStep(c, op) == Serves(c) /\ ~AtEnd(c) /\ Step(c).op = op

\* sleep_timer_waker resolves the sleep's promise: that schedules a waiting
\* coroutine and completes the one main blocks on.
MainWaker ==
  /\ Serves(MAIN) /\ Close(MAIN)
  /\ promise' = [promise EXCEPT ![MAIN] = [st |-> "resolved", by |-> Itself(MAIN)]]
  /\ UNCHANGED <<prog, procVars, waits, waiter, waitVars, phase>>
SleepWaker(c) ==
  /\ ServesStep(c, "sleep") /\ Close(c)
  /\ Schedule({c})
  /\ UNCHANGED <<prog, active_tasks, stack, pc, waits, promise, waiter, waitVars, phase>>

\* A poll that found nothing: the waker registers a timer of 1 ms, and only
\* then the one that has expired is closed.
PollOnce(c) ==
  /\ timer' = [timer EXCEPT ![c] = "none"]
  /\ UNCHANGED <<left, queue, cstate, promise, waiter, handles, due, got, inTime>>
PollAgain(c) ==
  /\ IF Cardinality(Open) >= MaxFds
     THEN timer' = [timer EXCEPT ![c] = "none"] /\ UNCHANGED left
     ELSE /\ timer' = [timer EXCEPT ![c] = "armed"]
          /\ left' = [left EXCEPT ![c] = 1]
  /\ UNCHANGED <<queue, cstate, promise, waiter, handles, due, got, inTime>>

\* The master promise is settled as p was.
Delivers(c, p) ==
  got' = [got EXCEPT ![c] = [st |-> promise[p].st, by |-> promise[p].by, from |-> p, at |-> pc[c]]]
Expires(c, p) ==
  got' = [got EXCEPT ![c] = [st |-> "timeout", by |-> <<c, pc[c]>>, from |-> p, at |-> pc[c]]]

\* The promise of a timeout or select is awaited where it is made, and no other coroutine
\* holds it: the wakers alone settle it, each frees its context when it has, and so their
\* first test, master->is_completed (async_builtins.c 125 to 128, 198 to 201), never holds.
\* A program that keeps such a promise and cancels it is not among Programs.

\* timeout_poll_waker
TimeoutWakerLate(c) ==
  /\ ServesStep(c, "timeout")
  /\ LET p == handles[c][1]
     IN \/ /\ due[c] = 0 /\ Close(c) /\ Schedule({c})
           /\ Expires(c, p)
           /\ UNCHANGED <<promise, waiter, handles, inTime>>
        \/ /\ Settled(p) /\ due[c] # 0 /\ Close(c) /\ Schedule({c}) /\ Delivers(c, p)
           /\ UNCHANGED <<promise, waiter, handles, inTime>>
        \/ ~Settled(p) /\ due[c] # 0 /\ PollAgain(c)
  /\ UNCHANGED <<prog, active_tasks, stack, pc, waits, phase>>
TimeoutWaker(c) ==
  /\ ServesStep(c, "timeout")
  /\ LET p == handles[c][1]
     IN \/ /\ Settled(p) /\ Close(c) /\ Schedule({c}) /\ Delivers(c, p)
           /\ UNCHANGED <<promise, waiter, handles, inTime>>
        \/ /\ ~Settled(p) /\ due[c] = 0 /\ Close(c) /\ Schedule({c})
           /\ Expires(c, p)
           /\ UNCHANGED <<promise, waiter, handles, inTime>>
        \/ ~Settled(p) /\ due[c] # 0 /\ PollAgain(c)
  /\ UNCHANGED <<prog, active_tasks, stack, pc, waits, phase>>

\* select_poll_waker: the first that is complete wins, p1 before p2; the other
\* is cancelled, which wakes its waiter behind the one of the master.
SelectWaker(c) ==
  /\ ServesStep(c, "select")
  /\ LET p == handles[c][1]
         q == handles[c][2]
         winner == IF Settled(p) THEN p ELSE q
         losers == {IF Settled(p) THEN q ELSE p} \ {NONE}
         lost == {l \in losers : IsPending(l)}
     IN IF Settled(winner)
        THEN /\ Close(c) /\ Delivers(c, winner)
             /\ promise' = CancelledBy(<<c, pc[c]>>, losers)
             /\ queue' = Append(queue, c) \o SetToSeq(Woken(lost))
             /\ cstate' = [d \in Coros |-> IF d \in Woken(lost) \union {c} THEN "queued" ELSE cstate[d]]
             /\ waiter' = [d \in Coros |-> IF d \in lost THEN NONE ELSE waiter[d]]
             /\ inTime' = inTime \union UNION {Answers(l) : l \in lost}
             /\ UNCHANGED handles
        ELSE PollAgain(c)
  /\ UNCHANGED <<prog, active_tasks, stack, pc, waits, phase>>

IsActiveQueueOnly == queue # <<>>
IsActive == active_tasks > 0 \/ queue # <<>>

\* main()'s loop ends.
Exit ==
  /\ phase = "loop" /\ stack = <<MAIN>> /\ ~IsActive
  /\ phase' = "exited"
  /\ UNCHANGED <<prog, procVars, waits, promise, waiter, timerVars, waitVars>>

-----------------------------------------------------------------------------
Slice(c) ==
  \/ Sleep(c) \/ Yield(c) \/ Await(c) \/ Timeout(c) \/ Select(c) \/ Join(c) \/ Finish(c)
Poll(c) == SleepWaker(c) \/ TimeoutWaker(c) \/ SelectWaker(c)

Next ==
  \/ \E c \in Coros : Spawn(c) \/ Cancel(c) \/ Slice(c) \/ Poll(c)
  \/ \E c \in Coros : MainBlocks(<<c>>)
  \/ \E c, d \in Coros : c < d /\ MainBlocks(<<c, d>>)
  \/ MainSleep \/ MainWaker \/ BlockOnDone \/ MainReturns \/ RunHead \/ Exit \/ Tick

\* One thread runs main, its loops and the slices, and a slice ends; time
\* passes; the kernel serves the expired timers in turn, and that again and
\* again if it is asked again and again.
Fairness ==
  /\ WF_vars(Tick)
  /\ WF_vars(RunHead) /\ WF_vars(BlockOnDone) /\ WF_vars(MainReturns) /\ WF_vars(Exit)
  /\ \A c \in Coros : WF_vars(Spawn(c)) /\ WF_vars(Slice(c)) /\ SF_vars(Poll(c))
  /\ SF_vars(MainWaker)

Spec == Init /\ [][Next]_vars /\ Fairness
-----------------------------------------------------------------------------
(* Properties.                                                             *)

\* A block_on waits for a coroutine whose slice lies under it on the native
\* stack: neither can go on.
Stuck ==
  \E i, j \in DOMAIN stack :
    i <= j /\ waits[stack[j]] # <<>> /\ Head(waits[stack[j]]) = stack[i] /\ stack[i] # MAIN

\* What timeout and select deliver (timeout_poll_waker, select_poll_waker):
\* a timeout throws only when it is due and its promise was not settled in
\* time, else it passes on what the promise was settled with; select passes on
\* what one of its promises was settled with, never the cancellation that this
\* select deals to the loser, and leaves none of them pending.
CombinatorsDeliver ==
  \A c \in Coros : got[c].st # "none" =>
    IF got[c].st = "timeout"
    THEN due[c] = 0 /\ c \notin inTime
    ELSE /\ promise[got[c].from].st = got[c].st
         /\ got[c].by # <<c, got[c].at>>
         /\ \A i \in DOMAIN handles[c] : handles[c][i] # NONE => Settled(handles[c][i])

\* main sleeps and no coroutine is alive: scheduler_run returns before it polls.
MainHangs == waits[MAIN] = <<MAIN>> /\ active_tasks = 0

\* A coroutine that awaits a sleep, a coroutine, a timeout or a select runs
\* again, though timers are polled only while the queue is empty, unless a
\* join comes to wait for a coroutine under it on the stack.
AwaitsReturn ==
  \A c \in Coros : cstate[c] = "suspended" ~> (cstate[c] = "running" \/ Stuck)

\* The loop of main leaves neither a coroutine nor a descriptor behind.
ExitsClean == phase = "exited" => Open = {} /\ \A c \in Coros : cstate[c] = "finished"

\* The program comes to its end (the loop of main), and that end is clean.  It
\* hangs only in such a join or in a sleep of main while no coroutine is alive.
ProgramEnds ==
  /\ []ExitsClean
  /\ <>(phase = "exited" \/ MainHangs \/ Stuck)
=============================================================================
