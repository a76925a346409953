----------------------------- MODULE Scheduler -----------------------------
(***************************************************************************)
(* The cooperative scheduler of the Moksha runtime                         *)
(* (runtime/src/async/scheduler.c): a run queue sorted by priority whose   *)
(* nodes age, a registry of priorities and the count of active tasks that  *)
(* keeps the main loop alive (runtime_init.c), together with the life of   *)
(* the coroutines that use it (coro_setup and coro_finish of task.c).      *)
(*                                                                         *)
(* Each critical section of sched_lock calls nothing that needs the lock   *)
(* again, so it is one action and the lock itself is left out.  What takes *)
(* two critical sections takes two actions: moksha_scheduler_schedule      *)
(* reads the priority in one and inserts in another.                       *)
(***************************************************************************)
EXTENDS Integers, Sequences, FiniteSets

CONSTANTS
  Coros,       \* coroutines
  Threads,     \* OS threads, the main thread among them
  Main,        \* the thread of main(), the only one that runs the queue
  Priorities,  \* the priorities given to spawn
  NONE         \* no priority, no thread

LM == INSTANCE SequencesExt   \* InsertAt

ASSUME MainAssumption  == Main \in Threads
ASSUME PriorAssumption == Priorities \subseteq Int /\ 1 \in Priorities /\ NONE \notin Int
ASSUME NoneAssumption  == NONE \notin Threads
ASSUME FiniteAssumption == IsFiniteSet(Coros) /\ IsFiniteSet(Threads)

VARIABLES
  priority_registry,  \* coroutine -> priority, NONE if it has no node
  queue,              \* the run queue, head first
  active_tasks,
  cstate,             \* what each coroutine is doing: see CoroStates
  home,               \* the thread that runs its slice
  inserting,          \* the node a thread read the priority for
  alive,              \* the threads that run: Main and the strong ones
  in_main,            \* is __moksha_main still running
  exited              \* main() left its loop

vars == <<priority_registry, queue, active_tasks, cstate, home, inserting,
          alive, in_main, exited>>

CoroStates == {"unborn", "registered", "running", "suspended", "waking",
               "queued", "finishing", "finished"}
\* A TaskNode; age is a history of how often it was passed over.
Node == [coro : Coros, priority : Int, age : Nat]
NoNode == [coro |-> NONE, priority |-> 0, age |-> 0]

Init ==
  /\ priority_registry = [c \in Coros |-> NONE]
  /\ queue = <<>>
  /\ active_tasks = 0
  /\ cstate = [c \in Coros |-> "unborn"]
  /\ home = [c \in Coros |-> NONE]
  /\ inserting = [t \in Threads |-> NoNode]
  /\ alive = {Main}
  /\ in_main = TRUE
  /\ exited = FALSE

Idle(t) == inserting[t] = NoNode
RunsOn(t) == {c \in Coros : home[c] = t /\ cstate[c] \in {"registered", "running", "finishing"}}
\* A thread that executes user code, and so may call the runtime: main
\* before it returns and while it runs a slice, a strong thread always.
Active(t) ==
  /\ ~exited /\ t \in alive /\ Idle(t)
  /\ t = Main => in_main \/ RunsOn(Main) # {}

IncActive == active_tasks' = active_tasks + 1
\* moksha_scheduler_dec_active never goes below zero.
DecActive == active_tasks' = IF active_tasks > 0 THEN active_tasks - 1 ELSE 0

-----------------------------------------------------------------------------
(* The life of a coroutine.                                                *)

\* spawn calls the coroutine, whose prologue coro_setup registers the
\* priority and then counts the coroutine; its first slice runs at once.
CoroSetupPriority(t, c, p) ==
  /\ Active(t) /\ cstate[c] = "unborn"
  /\ priority_registry' = [priority_registry EXCEPT ![c] = p]
  /\ cstate' = [cstate EXCEPT ![c] = "registered"]
  /\ home' = [home EXCEPT ![c] = t]
  /\ UNCHANGED <<queue, active_tasks, inserting, alive, in_main, exited>>

CoroSetupActive(c) ==
  /\ cstate[c] = "registered" /\ ~exited
  /\ IncActive
  /\ cstate' = [cstate EXCEPT ![c] = "running"]
  /\ UNCHANGED <<priority_registry, queue, home, inserting, alive, in_main, exited>>

\* An await of a pending promise ends the slice.
Suspend(c) ==
  /\ cstate[c] = "running" /\ Idle(home[c]) /\ ~exited
  /\ cstate' = [cstate EXCEPT ![c] = "suspended"]
  /\ home' = [home EXCEPT ![c] = NONE]
  /\ UNCHANGED <<priority_registry, queue, active_tasks, inserting, alive,
                 in_main, exited>>

\* moksha_scheduler_get_priority: the default is 1, NORMAL.
GetPriority(c) == IF priority_registry[c] = NONE THEN 1 ELSE priority_registry[c]

\* The first half of schedule: a node with the priority of this moment.
NewNode(c) == [coro |-> c, priority |-> GetPriority(c), age |-> 0]

\* await yield(): the promise is complete, register_await schedules the
\* coroutine itself, which then suspends.
Yield(c) ==
  /\ cstate[c] = "running" /\ Idle(home[c]) /\ ~exited
  /\ inserting' = [inserting EXCEPT ![home[c]] = NewNode(c)]
  /\ cstate' = [cstate EXCEPT ![c] = "waking"]
  /\ home' = [home EXCEPT ![c] = NONE]
  /\ UNCHANGED <<priority_registry, queue, active_tasks, alive, in_main, exited>>

\* A thread settles the promise that c awaits.  The main thread does so in
\* user code or, when the queue is empty, from a timer in sys_event_poll.
Wake(t, c) ==
  /\ Active(t) \/ (t = Main /\ Idle(Main) /\ queue = <<>> /\ active_tasks > 0 /\ ~exited)
  /\ cstate[c] = "suspended"
  /\ inserting' = [inserting EXCEPT ![t] = NewNode(c)]
  /\ cstate' = [cstate EXCEPT ![c] = "waking"]
  /\ UNCHANGED <<priority_registry, queue, active_tasks, home, alive, in_main, exited>>

\* Where the sorted insert puts a node: behind every node of at least its
\* priority, before the first that has less.
InsertPosBeforeEquals(i, p) ==
  /\ \A j \in 1..(i - 1) : queue[j].priority > p
  /\ i <= Len(queue) => queue[i].priority <= p
InsertPos(i, p) ==
  /\ \A j \in 1..(i - 1) : queue[j].priority >= p
  /\ i <= Len(queue) => queue[i].priority < p

\* The second half of schedule.
Insert(t) ==
  /\ ~Idle(t) /\ ~exited
  /\ \E i \in 1..(Len(queue) + 1) :
       /\ InsertPos(i, inserting[t].priority)
       /\ queue' = LM!InsertAt(queue, i, inserting[t])
  /\ cstate' = [cstate EXCEPT ![inserting[t].coro] = "queued"]
  /\ inserting' = [inserting EXCEPT ![t] = NoNode]
  /\ UNCHANGED <<priority_registry, active_tasks, home, alive, in_main, exited>>

\* coro_finish drops the registry entry, wakes the awaiting coroutine (a
\* Wake of this thread) and then leaves the count of active tasks.
FinishRemove(c) ==
  /\ cstate[c] = "running" /\ Idle(home[c]) /\ ~exited
  /\ priority_registry' = [priority_registry EXCEPT ![c] = NONE]
  /\ cstate' = [cstate EXCEPT ![c] = "finishing"]
  /\ UNCHANGED <<queue, active_tasks, home, inserting, alive, in_main, exited>>

FinishActive(c) ==
  /\ cstate[c] = "finishing" /\ Idle(home[c]) /\ ~exited
  /\ DecActive
  /\ cstate' = [cstate EXCEPT ![c] = "finished"]
  /\ home' = [home EXCEPT ![c] = NONE]
  /\ UNCHANGED <<priority_registry, queue, inserting, alive, in_main, exited>>

\* spawn(f()) on a promise that f() already returned: set_priority on its
\* coroutine, whatever state that is in.
SpawnPromise(t, c, p) ==
  /\ Active(t) /\ cstate[c] \notin {"unborn", "registered"}
  /\ priority_registry' = [priority_registry EXCEPT ![c] = p]
  /\ UNCHANGED <<queue, active_tasks, cstate, home, inserting, alive, in_main, exited>>

-----------------------------------------------------------------------------
(* Strong threads.                                                         *)

\* inc_active comes before the thread is created.
SpawnThread(t, u) ==
  /\ Active(t) /\ u \notin alive
  /\ IncActive
  /\ alive' = alive \union {u}
  /\ UNCHANGED <<priority_registry, queue, cstate, home, inserting, in_main, exited>>

\* The trampoline resolves the promise (a Wake) before it leaves the count.
ThreadExit(u) ==
  /\ u \in alive \ {Main} /\ Idle(u) /\ RunsOn(u) = {} /\ ~exited
  /\ DecActive
  /\ alive' = alive \ {u}
  /\ UNCHANGED <<priority_registry, queue, cstate, home, inserting, in_main, exited>>

-----------------------------------------------------------------------------
(* The main loop.                                                          *)

AgeForgotten(q) == q
AgeAll(q) ==
  [i \in DOMAIN q |->
     [coro |-> q[i].coro, priority |-> q[i].priority + 1, age |-> q[i].age + 1]]

\* moksha_scheduler_run with a non-empty queue: take the head, age the rest
\* and resume the coroutine.
Run ==
  /\ Idle(Main) /\ RunsOn(Main) = {} /\ ~exited
  /\ queue # <<>>
  /\ queue' = AgeAll(Tail(queue))
  /\ cstate' = [cstate EXCEPT ![Head(queue).coro] = "running"]
  /\ home' = [home EXCEPT ![Head(queue).coro] = Main]
  /\ UNCHANGED <<priority_registry, active_tasks, inserting, alive, in_main, exited>>

MainReturns ==
  /\ in_main /\ Idle(Main) /\ RunsOn(Main) = {}
  /\ in_main' = FALSE
  /\ UNCHANGED <<priority_registry, queue, active_tasks, cstate, home,
                 inserting, alive, exited>>

\* moksha_scheduler_is_active
IsActiveQueueOnly == queue # <<>>
IsActive == active_tasks > 0 \/ queue # <<>>

MainExits ==
  /\ ~in_main /\ Idle(Main) /\ RunsOn(Main) = {} /\ ~exited
  /\ ~IsActive
  /\ exited' = TRUE
  /\ UNCHANGED <<priority_registry, queue, active_tasks, cstate, home,
                 inserting, alive, in_main>>

EndSlice(c) == Suspend(c) \/ Yield(c) \/ FinishRemove(c)

Next ==
  \/ \E t \in Threads, c \in Coros, p \in Priorities :
       CoroSetupPriority(t, c, p) \/ SpawnPromise(t, c, p)
  \/ \E c \in Coros : CoroSetupActive(c) \/ EndSlice(c) \/ FinishActive(c)
  \/ \E t \in Threads, c \in Coros : Wake(t, c)
  \/ \E t \in Threads : Insert(t) \/ ThreadExit(t)
  \/ \E t, u \in Threads : SpawnThread(t, u)
  \/ Run \/ MainReturns \/ MainExits

\* Threads run, the main thread pumps the queue, and a slice comes to its
\* end: the scheduler is cooperative and relies on that.
Fairness ==
  /\ WF_vars(Run) /\ WF_vars(MainReturns)
  /\ \A c \in Coros : WF_vars(CoroSetupActive(c)) /\ WF_vars(EndSlice(c))
                        /\ WF_vars(FinishActive(c))
  /\ \A t \in Threads : WF_vars(Insert(t))

Spec == Init /\ [][Next]_vars /\ Fairness
-----------------------------------------------------------------------------
(* Properties.                                                             *)

\* The types of the registry, the queue, the count and the coroutines.
TypeOK ==
  /\ priority_registry \in [Coros -> Int \union {NONE}]
  /\ queue \in Seq(Node)
  /\ active_tasks \in Nat
  /\ cstate \in [Coros -> CoroStates]
  /\ home \in [Coros -> Threads \union {NONE}]
  /\ inserting \in [Threads -> Node \union {NoNode}]
  /\ alive \subseteq Threads
  /\ in_main \in BOOLEAN /\ exited \in BOOLEAN

\* The queue is sorted whatever priorities change while nodes wait (aging
\* lifts all nodes alike and an insert respects the aged priorities), and
\* among equal priorities the coroutine that waited longer is ahead.
QueueOrder ==
  \A i, j \in 1..Len(queue) : i < j =>
    \/ queue[i].priority > queue[j].priority
    \/ queue[i].priority = queue[j].priority /\ queue[i].age >= queue[j].age

\* A coroutine has one node exactly while it is queued: never two, which
\* would resume it while it runs, and never none, which would lose it.
OneNodeEach ==
  \A c \in Coros :
    Cardinality({i \in 1..Len(queue) : queue[i].coro = c})
      = IF cstate[c] = "queued" THEN 1 ELSE 0

\* active_tasks counts the coroutines between coro_setup and coro_finish and
\* the strong threads: it neither drifts nor hits the clamp at zero.
Counted == {c \in Coros : cstate[c] \notin {"unborn", "registered", "finished"}}
ActiveCount == active_tasks = Cardinality(Counted) + Cardinality(alive \ {Main})

\* main() leaves its loop only when no coroutine and no strong thread is
\* left: nothing that was spawned is abandoned half-way.
NothingAbandoned ==
  exited => /\ \A c \in Coros : cstate[c] \in {"unborn", "finished"}
            /\ alive = {Main}

\* Starvation freedom, which aging is for: a coroutine that was scheduled
\* runs, however often coroutines of higher priority yield.
ScheduledRuns ==
  \A c \in Coros : cstate[c] \in {"waking", "queued"} ~> cstate[c] = "running"
=============================================================================
