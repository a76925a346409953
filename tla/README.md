# A verification of the Moksha runtime and compiler

Moksha is a systems language with automatic reference counting, borrow
checking and coroutines. The repository holds a compiler (C++: lexer, parser,
macro expander, type checker, HIR, MIR with its passes, an MLIR dialect,
lowering to LLVM) and a runtime library in C that every compiled program links.
This directory holds TLA+ models of the parts where interleaving, ordering,
lifetime or a chain of translations decides correctness, TLC runs that check
them on small instances, and TLAPS proofs that hold for all instances.

## 1. Inventory

### Runtime (`runtime/src`)

| part | state | operations | used by |
|---|---|---|---|
| promises (`async/task.c`, `async/async_builtins.c`) | `is_completed`, `is_rejected`, `was_awaited`, `result_data`, `waiting_coro`, `coro_handle` | resolve, reject, cancel, coro_finish; register_await, await_payload, block_on; destructor | everything asynchronous |
| scheduler (`async/scheduler.c`) | sorted run queue, priority registry, `active_tasks`, `sched_lock` | schedule, run, set/get/remove_priority, inc/dec_active, is_active | promises (wake a coroutine), main loop |
| strong threads (`async/task.c`) | OS threads, counted in `active_tasks` | spawn_thread, strong_thread_trampoline | programs |
| event loop (`sys/*/event_loop.c`) | one epoll set, one timerfd per sleep | register_timer, poll | sleep, timeout, select; run polls it when the queue is empty |
| combinators (`async/async_builtins.c`, `task.c`) | a master promise and a polling timer | timeout, select, join | programs |
| main loop (`core/runtime_init.c`) | is `__moksha_main` running | main | - |
| channels (`core/channel.c`) | ring, two wait stacks, spin lock, closed flag | send, recv, close | programs; settles promises |
| asynchronous mutex (`core/sync.c`) | `is_locked`, FIFO of waiters, spin lock | lock, unlock, destructor | `async lock` blocks; settles promises |
| lock table (`core/sync.c`) | 4096 spin locks | `__moksha_lock`, `__moksha_unlock` | `lock` blocks |
| reference counts (`core/arc.c`) | strong and weak count in each header | alloc, retain, release, store_weak, load_weak | all generated code |
| tables (`core/map.c`) | buckets, insertion order, counted boxes | insert, get, has, remove, clear, free, entry at an index | programs, `for-in` |
| arrays, boxes, text, decimals, files (`core/array.c`, `box.c`, `string.c`, `math.c`, `io.c`, `file.c`) | data of one thread | built-ins | programs |
| panics, exceptions, allocation, tracing | OS state | built-ins | everything |

### Compiler (`lib`, `include`, `tools`)

| part | what it computes |
|---|---|
| lexer, parser, macro expander | the syntax tree |
| symbol table, generic resolver, type checker, built-in registry | types, conversions, what is assigned and returned on every path |
| HIR generation, HIR to MIR | a control-flow graph with explicit loads, stores, boxing, drops, unlocks and unwind edges |
| ARC analysis and insertion, escape analysis, drop elision | where to retain and release |
| borrow checker | loans live at each instruction, conflicts |
| dominance (`middle/analysis/MIRDominance.cpp`) | the dominator tree of a function and its numbering |
| Mem2Reg (`middle/mir/passes/Mem2RegPass.cpp`) | phi nodes instead of promotable allocas |
| inlining, jump threading, constant folding, CFG simplification, dead code | optimised MIR |
| verifier, SROA | - |
| MLIR and LLVM back end, driver | an executable |

### How the parts interact and what is hard

* A coroutine that awaits stores its handle in the promise (`register_await`)
  and looks at `is_completed` once more; a settler sets `is_completed`, writes
  the payload and takes the handle. The two protocols race on three words.
* Channels, mutexes, timers and threads all end in `moksha_rt_resolve_promise`,
  which ends in `moksha_scheduler_schedule`. Only the main thread runs the
  queue; any thread may insert.
* Timers are looked at only when the queue is empty, and only when
  `active_tasks` is not zero; the main loop ends when both are zero. `join`
  and an await of main run other coroutines on top of the slice that waits.
* Whoever waits may be cancelled or time out while his wait node is still in a
  channel's stack or a mutex's queue.
* Weak references race the last release on two counts.
* A table keeps two linked structures over the same entries and counts
  references that its entries hold; a loop over it keeps an index while the
  body changes it.
* The lowering emits the same cleanup once for every way out of a scope:
  returns, breaks, exceptions, falling through; in `finally`, `defer` and
  `lock` the ways out are nested.
* The passes keep edges and phi nodes by hand next to the terminators.
* The type checker decides conversions, and three later stages decide again,
  from types of their own, how a value is represented.
* The parser looks ahead in the text behind the lexer's back; the expander
  renames the variables of macros by a map that is not scoped.

`PROJECT.json` lists each hazard at its line with the properties aimed at it.

### What makes each part correct

* Promise: no wakeup is lost, none happens twice, the first settlement stands,
  a rejection surfaces, to the awaiting coroutine or as a report, and not twice;
  awaits return.
* Scheduler: the queue is sorted and fair among equals, a coroutine has one
  node, nobody starves, `active_tasks` is exact, main does not leave early.
* Event loop: a sleeper wakes, a timeout does not drop an answer that came in
  time, select delivers a winner, the program ends and leaves nothing behind.
* Channel: no value is lost or duplicated, FIFO, nobody waits for what is
  there, a close leaves nobody in a wait stack.
* Mutex: exclusion including grants in flight, first come first served,
  everyone gets in.
* Reference counts: counts are exact, an upgrade never revives a dead object,
  the header is freed once and nobody uses it afterwards, no leak.
* Tables: a map that keeps the order of its keys; its boxes stay alive as long
  as an entry names them; a loop sees the entries in order.
* Lowering: on every path each value is dropped once, each deferred statement
  runs once, each exception arrives where it should.
* Flow checks: what the checker says is returned, or assigned, is so on every
  path that runs.
* Dominance and Mem2Reg: the tree is the one that the paths define; on every
  path each load is replaced by the value that the memory would have held.
* Other passes: a function's executions stay what they were, and edges and phi
  nodes agree with the terminators.
* Front end: what was written is what is parsed, nothing vanishes without a
  report, the parser ends, a macro does not capture names.
* Values: a program that is accepted shows what it means, reads no memory as
  what it is not, calls once and in order, and has no null in a plain type.

## 2. Modules

| module | models | grain |
|---|---|---|
| `Channel` | `core/channel.c` | the spin lock is explicit; a critical section that settles promises inside is one action per settled promise, the settlements after the unlock are steps of their own |
| `ChannelAbs` | what a channel promises: a bounded FIFO with sets of waiters | - |
| `Promise` | one promise of `async/task.c` | one memory access per action; with `Delayed` the store of `waiting_coro` may become visible after the load that follows it |
| `Scheduler` | `async/scheduler.c`, coro_setup and coro_finish, strong threads, `main` | one critical section per action |
| `EventLoop` | `sys/linux/event_loop.c`, sleep, yield, cancel, await, timeout, select, join, block_on, `main` | one thread with its native stack; an action runs up to the next await |
| `AsyncMutex` | the mutex of `core/sync.c` and clients that wait, cancel and time out | one critical section per action |
| `Arc` | the header of one object of `core/arc.c` | one atomic operation per action |
| `Table` | `core/map.c` and the `for-in` loop that the compiler emits | one call per action, on the pointers of the entries |
| `TableAbs` | what a table promises: a map that remembers the order of its keys | - |
| `Dominance` | `MIRDominance::analyze` and `dominates` | one call, return, finger move or assignment per action |
| `Mem2Reg` | `Mem2RegPass::runOnFunction` for one alloca, on top of `Dominance`; then the original and the promoted function run side by side | one round of the worklist, one call or return of renameDFS, one branch per action |
| `Lower` | the statements of `LowerHIRToMIR.cpp`, then the runs of the emitted blocks | the part of a visitor between two calls of others; one emitted instruction of a run |
| `FlowCheck` | definite return and definite assignment of `TypeChecker.cpp`, over the statements of `Lower` | recursive operators |
| `Mir` | blocks, phi nodes, terminators, and what an execution of a function is | - |
| `Inlining`, `CfgPasses` | `InliningPass`, `JumpThreadingPass`, branch folding, `SimplifyCFGPass`, `DeadCodeEliminationPass` under `PassManager::run` | a pass, or a round of a loop in it, per action |
| `Lexer`, `Parser`, `Macros` | `Lexer.cpp`, `Parser.cpp`, `MacroExpander.cpp` | recursive operators, one per function of the code |
| `ParserCheck` | a reference printer, and the three above one after the other | one stage per action |
| `Types`, `TypeCheck`, `HirGen`, `LowerConv`, `LowerExpr`, `Backend`, `Runtime` | the way of an expression: type checker, HIR, MIR, LLVM, `array.c` and tables as expressions use them | recursive operators |
| `Meaning` | what a checked program means, told without the compiler | recursive operators |
| `Values` | the stages composed, one statement per action, beside `Meaning` | - |
| `Library` | `string.c`, decimals, 64-bit division, text files, JSON, YAML, CSV | one call, or a write and the read of it, per action |
| `ChannelProofs`, `PromiseProofs`, `SchedulerProofs`, `EventLoopProofs`, `AsyncMutexProofs`, `ArcProofs`, `DominanceProofs`, `TableProofs` | theorems | - |
| `MC*` | the sets given to the constants; where these are plain sets of model values the `.cfg` gives them to the module itself | - |

Variables carry the names of the C fields; variables that the code does not
have (program counters, `age` of a queue node, `waker`, `dropped`, `run`) are
commented as such where they are declared. Operators named after a slip
(`RefillKeepsTail`, `IsActiveQueueOnly`) stand before the definition they vary:
each is a plausible mistake in that place which a named property must detect.

What each model takes from the others: `Promise` counts a call of
`moksha_scheduler_schedule` in `woken`; `Scheduler` has `Wake` for any
settlement; `Channel` and `AsyncMutex` see a promise as pending, resolved,
rejected or cancelled, which is what the compare-exchange of `Promise` leaves
visible; `EventLoop` has a queue without priorities; `Mem2Reg` extends
`Dominance` and begins where that ends; `FlowCheck` is compared with the runs of
`Lower`; `Runtime` has tables as the sequence of pairs that `TableAbs` is.

### Abstractions

* Payloads are the identity of the operation that brought them.
* Allocation does not fail (`moksha_mem_alloc` panics).
* `sched_lock` and the mutex's spin lock are replaced by the atomicity of the
  actions: their critical sections call nothing that takes the same lock. The
  channel's lock stays because `recv` and `close` settle promises inside it.
* `Arc` has the `has_threads` branch. Loads and stores of the same weak slot
  overlap freely, as the atomics of `arc.c` let them.
* `Scheduler` and `EventLoop` do not repeat each other: the first has
  priorities, aging and threads and lets any promise settle at any time, the
  second has timers and one thread.
* `Table`: what a freed entry holds is NULL, since nothing may read it; keys
  are told apart by content or by address, as the code does.
* `Dominance`: a block is its place in the function's block list and 0 is
  nullptr. The order of successor, predecessor and child lists is left open,
  so every order the code may meet is covered.
* `Mem2Reg`: one alloca, since value stacks, phi tables and worklists of two
  allocas are separate. Every block loads first and may store afterwards; a
  block with several accesses adds nothing but a chain inside the block. Which
  blocks store is chosen when the pass scans them, not before: the analysis
  looks at edges only.
* `Lower`: an expression is a call that may throw, or nothing; conditions may
  go either way at run time.
* `CfgPasses`: values are constants, phi nodes and opaque inputs; an execution
  is the sequence of its observable calls, with a bound `Fuel` on its blocks.
* `Lexer`: a word, a blank and a byte that is not ASCII are one character each.
* `Values`: integer types have 3, 4, 5 and 7 bits in place of 8, 16, 32 and 64.
  Pointers are an object and a cell; a value read as what it is not is `wild`.
  Functions of the program leave a mark and return a constant. A fixed array
  and a slice of it are not compared after a write through one of them, nested
  fixed arrays are left out, and constant folding applies to the constants of
  an expression.

## 3. Runs

| run | instance | states | shows |
|---|---|---|---|
| `channel` | 2 threads, capacity 2, 5 calls, cancels | 136 045 | values are neither lost nor duplicated, and one is swallowed only by a cancelled receive (`ExactlyOnce`); no receiver and sender wait for each other (`NoStarvedPair`); a close leaves nobody (`ClosedLeavesNobody`); the channel implements `ChannelAbs` (`ImplementsBounded`); every call returns (`CallsReturn`) |
| `promise` | 3 settlers with every combination of operations, delayed stores, an awaiting coroutine that may meet a stray exception, main in block_on, the destructor | 616 653 | no lost wakeup unless the store was overtaken (`NoLostWakeupInOrder`), the first settlement stands (`FirstSettlementStands`), a rejection is thrown in the coroutine that awaited or reported by the destructor, and not both (`RejectionSurfaces`), awaits return (`AwaitReturns`) |
| `scheduler` | 3 coroutines, main and a strong thread, two priorities | 161 544 | queue sorted by priority and fair among equals (`QueueOrder`), main waits for all (`NothingAbandoned`), nobody starves (`ScheduledRuns`) |
| `event_loop` | 36 programs of 3 coroutines, two of which may be cancelled; main spawns, awaits, joins, sleeps | 95 396 | timeout and select deliver what came in time and leave nobody pending (`CombinatorsDeliver`), every await returns (`AwaitsReturn`), the program ends and leaves nothing (`ProgramEnds`), unless a join waits for a coroutine under it on the stack |
| `mutex` | 3 clients, 6 lock calls, cancels, timeouts, the destructor | 23 022 | exclusion (`MutualExclusion`), order (`GrantedInOrder`), everyone gets in unless the mutex went to a quitter (`EveryoneGetsIn`) |
| `arc` | 3 threads, 3 handles, 2 weak slots, symmetric | 3 352 587 | the header is freed once, and only a weak load whose slot was overwritten meanwhile can touch it afterwards (`OnlyOvertakenLoadsDangle`); no leak (`NoLeak`) |
| `mem2reg` | all graphs of 4 blocks with at most 2 successors each, every alloca and every set of stores it dominates, listed before it or after | 1 249 832 | the tree and `dominates` agree with the paths (`DominanceExact`), promotion keeps the value of every store that the scan records (`RecordedStoresKept`) |
| `lower` | some ten thousand functions with two levels of nested statements | 1 131 916 | every value dropped and every deferred statement run once per path (`DropsBalance`), exceptions arrive (`ExceptionsArrive`), the flow checks are sound (`DefiniteReturnSound`, `DefiniteAssignmentSound`) |
| `cfg_passes` | all graphs of 4 blocks with a phi node and instructions behind it or none; calls and invokes of callees that return, throw, resume, catch and call on; unwind blocks with a phi node | 360 224 | executions are kept (`SameBehaviour`), edges and phi nodes agree with terminators after every step (`CfgConsistent`), until one of the faults F1 to F4 of section 5 strikes |
| `table` | 4 keys (two equal without being one object, one that collides, one compared by address), 2 values, 3 entries, capacity 2, symmetric | 36 880 | references cover the entries (`RefsCoverEntries`), a loop sees the order (`LoopSeesOrder`), the two lists together are a map with an order (`ImplementsOrderedMap`) |
| `parser` | the text of every small tree, and every short sequence of lexemes; macros to depth 3 | 263 472 | what is printed is read back, apart from `Mistaken` texts and `Contested` precedences (`RoundTrip`), what is not reported is not lost (`NothingDropped`), the parser ends (`ParseEnds`), expansions do not depend on a macro's own names and leave no call where the expander looks for one (`MacrosHygienic`) |
| `values` | some thirty thousand programs, and fourteen thousand calls of the library | 174 711 | apart from the faults V1 to V29 accepted programs show what they mean (`ValuesKept`), read nothing as what it is not (`NoWildRead`), call once and in order (`EffectsOnce`), have no null in a plain type (`NullSafe`); the library answers as it should (`LibraryAnswers`) |

### Bounds and why they are enough

* Channel: with capacity 2 and 5 calls the ring wraps, both wait stacks get
  two entries, a refill happens with a second sender waiting, and a close meets
  waiters of either kind. Two threads suffice for every race on the lock, which
  admits one of them.
* Promise: three settlers give a winner and two losers of the compare-exchange;
  there is one slot for a waiter, so one coroutine.
* Scheduler: two priorities two apart let a node of low priority overtake one
  of high priority through aging; three coroutines give a queue in which two
  wait while one runs. Ages are bounded by the state space itself: nobody waits
  for ever.
* Event loop: a worker that returns or throws, one that works or waits for it,
  and one that waits for either or both by timeout, select or join; delays of 1
  and 2 and a sleep of main give timers that expire together and apart; one
  program has a timeout and then a select in the same coroutine. `MaxFds` is
  the number of coroutines and two more, the least with which nobody is
  forgotten (`NoWakeupForgotten`).
* Mutex: six calls let each client return once and leave requests of quitters
  at the head, in the middle and at the end of the queue.
* Arc: three threads allow a release, a store and an upgrade at the same time.
* Table: a bucket of three entries has a first, a middle and a last one to
  remove; entries are allocated again at addresses that were freed. `MaxRefs`
  bounds the references that inserts without releases pile up.
* Dominance, Mem2Reg and the passes: four blocks hold a diamond, a loop with a
  join inside, nested loops, a loop with two entries, for which one sweep does
  not suffice, and unreachable blocks with edges into reachable ones. No graph
  has an edge to the entry block, as the lowering makes none.
* Lower: a scope, loop, switch, try, lock or defer in another one, around every
  statement that leaves; the third level would repeat what the second adds to
  the stacks.
* Parser: each construct in each position of each other, and three lexemes in
  any order for the recovery from errors.
* Values: each operator and conversion on each pair of types, then two
  statements in a row. Library: texts of at most four characters, sheets of two
  rows, words of four bits for the long division, and a line buffer of two
  characters, so that every text is longer than it once.

Deadlock is checked in `lower`, `cfg_passes`, `table` and `values`, whose last
state has a step of its own. The others are programs that end, or components
whose number of calls is bounded.

### Fairness and why the code justifies it

* `Channel`, `Promise`: weak fairness of each thread's steps inside a call: an
  operating-system thread runs. Nobody is forced to call. A delayed store
  drains in the end (`Drain`), as store buffers do.
* `Scheduler`: the main thread pumps the queue, and a slice comes to an end.
  The latter is the contract of cooperative scheduling. Nothing forces a
  suspended coroutine to be woken.
* `AsyncMutex`: a client that was granted the mutex enters and unlocks
  (`async lock` blocks unlock at their end); nobody has to ask, cancel or
  time out.
* `EventLoop`: one thread goes on, time passes, and `sys_event_poll` serves
  expired timers in turn: strong fairness, because each of them is only served
  between two slices. epoll moves a served descriptor to the end of its ready
  list.
* The other modules are sequential and state safety only.

## 4. Proofs

All theorems hold for every value of the constants that satisfies the ASSUMEs
of the component's module.

| theorem | inductive invariant |
|---|---|
| `ChannelProofs`: `TypeCorrect`, `RingStaysRing`, `NobodyWaitsForNothing`, `CloseIsFinal` | `IInv`: types, `ControlInv` (a thread inside a call has a promise), the ring, nobody waits for what is there, nobody waits after a close. The ring needs the second: a receive moves `head` only because no receiver waits while a value is buffered |
| `ChannelProofs`: `DeliveredOnce` | `DInv`: `IInv`; what a thread holds and has yet to settle belongs to its call and to a promise that is waiting for it (`ThreadInv`); no promise is on two stacks, twice on one, or both waiting and about to be settled (`DistinctInv`); where a promise stands decides its status (`PromiseInv`); a value has one place at most, and a send that was not rejected still has it (`ValueInv`). Every action moves a value from one place to the next, so the cardinality of `Places` follows from disjointness, not from counting |
| `ChannelProofs`: `RingIsQueue` (the refinement of `ChannelAbs`) | `DInv` again; one lemma for each kind of abstract step (`PutStep`, `TakeStep`, `WaitStep`, `RefuseStep`) and one for the steps that the abstract channel does not see (`HiddenStep`): taking the lock, settling after the unlock, closing in several pieces |
| `PromiseProofs`: `TypeCorrect`, `WakeupNotLost` | `WakeInv`: the property with `BufferInv`, which says that a delayed store belongs to a register_await that has yet to take the waiter back |
| `PromiseProofs`: `OneWakeup` | `HandleInv`: the handle of the coroutine is in one place, the slot, the store buffer, a settler's or register_await's local, or the run queue |
| `PromiseProofs`: `FirstWins` (an action property) | `WinnerInv`: one settler won the compare-exchange, and until it writes the promise is empty |
| `PromiseProofs`: `RejectionNotSwallowed` (`RejectionSurfaces`) | `SurfaceInv`: an await that has gone past its payload has marked the promise, unless a stray exception threw it out before (`MarkedInv`), and a promise can only be dropped while nobody has the handle of a coroutine that will still look (`NobodyHasIt`); where each settler stands (`PlaceInv`); a mark is that of an await that looked or of a cancel that won (`MarkInv`); an await woken by a settler has read the outcome (`OutcomeInv`), which needs that the first settlement stands |
| `SchedulerProofs`: `TypeCorrect`, `QueueOrdered` | `OrderInv`: one order, priority first and age second; a node not yet inserted has age 0. Aging keeps it because it lifts all nodes alike |
| `SchedulerProofs`: `OneNode` | `NodeInv`: a woken coroutine is in the hands of one thread or in one node |
| `SchedulerProofs`: `CountExact`, `MainWaitsForAll` | `ActiveCount` itself with `HomeInv`, by the cardinality theorems; the exit then follows from a count of zero |
| `AsyncMutexProofs`: `TypeCorrect`, `Exclusion`, `FirstComeFirstServed` | `IInv`: the queue holds ungranted requests in the order of the calls (`QueueInv`), clients have requests of their own (`ClientInv`), a free mutex has no queue (`FreeInv`) |
| `AsyncMutexProofs`: `NeverLostToAWaiter` (an action property, the safety half of `EveryoneGetsIn`) | `IInv` with `IdleInv`: a client that asks for nothing is nowhere in the queue |
| `ArcProofs`: `ExactCounts`, `UpgradeIsSafe`, `MemorySafety`, `LeakFreedom` | `IInv`: exact counts, one thread ends the object, once and in order (`LifeInv`). A load is not counted: what it read is safe exactly as long as its slot holds the object, because the slot is (`SlotInv` is its type). So `MemorySafety` is `OnlyOvertakenLoadsDangle`, with the overtaken load as its one exception |
| `DominanceProofs`: `IntersectIsSafe` (`ChainsClimb`, for every function) | `IInv`: the search's stack is a path of distinct unplaced blocks and a placed block was entered from one that is open or placed later (`Searching`); so each block has a predecessor placed later, and the entry is last (`Numbered`); every known dominator has a dominator and a later place (`Climbing`); blocks a sweep has passed have dominators, and no intersected predecessor is placed after both fingers (`Fingers`). The last two need each other: a meeting of the fingers is above the block only because one predecessor was |
| `DominanceProofs`: `AnalysisIsExact` (`DominanceExact`) | `IInv` with `EInv`: the search leaves no successor of a placed block behind (`Explored`); the chain of a block keeps every dominator of it, because the finger that moves is never on one (`TableKeeps`, `FingersKeep`); a sweep that has changed nothing leaves each entry above all predecessors of its block (`Stable`), and then every path to the block goes through the entry (`ChainIsDominators`); the numbers of the tree nest as its chains do (`TreeStack`, `Intervals`). The reference, the blocks that paths around a block reach, is a recursive function; `WavesExist` shows that it exists and `AvoidWithin`, by cardinality, that as many rounds as there are blocks are enough |
| `DominanceProofs`: `SweepsClimb` (an action property, why the sweeps end) | `IInv` and `EInv` with `CInv`: what the chain of a later predecessor has from the entry up is on the entry's chain (`Follows`), nothing above all predecessors is placed before the entry (`Lowest`), and the fingers are not past it (`FingersLowest`). So an entry that changes moves to a block placed later |
| `DominanceProofs`: `PromotionIsCorrect` (`RecordedStoresKept`, for every function, every alloca and every set of stores it dominates, wherever they are listed) | `PassInv`, one part per stage: the tree that the analysis leaves (`Tree`, from `AnalysisIsExact`); the frontier of a definition or phi that has left the worklist has phis (`Placed`), so that an empty worklist closes them; a renamed block's load got its phi or what its parent in the tree ends with, and the phis after it got what it ends with itself (`Replaced`); the stack of values has one level per block on the path of `renameDFS` (`Walking`, `Levels`). Two ends of an edge without a phi agree because the parent of the target is on the source's chain and no block between them stores or has a phi. Then, while both functions run, the register of the load holds what memory does (`Agrees`) |
| `EventLoopProofs`: `Delivery` (`CombinatorsDeliver`), `CleanExit` (the safety half of `ProgramEnds`) | `LoopInv`: slices on the native stack are distinct and running, the queue holds the queued once each (`StackInv`, `QueueInv`); a waiter sleeps on what it awaits (`WaiterInv`); only who sleeps in a sleep, timeout or select has a timer (`TimerInv`); `active_tasks` is the number of coroutines alive (`CountInv`), so that a count of zero is an empty stack, queue and set of timers; only the return of its coroutine resolves a promise (`ResolvedInv`); a select that has cancelled a promise is over, or its coroutine is queued (`CancelInv`); a timeout that was answered in time has a settled promise to look at (`InTimeInv`). The combinators of one coroutine are told apart by their place in its program |
| `EventLoopProofs`: `NoWakeupForgotten` (the safety half of `AwaitsReturn`) | `LoopInv` with `NobodyForgotten`. It assumes `EnoughTimers` (`MaxFds` at least two more than coroutines: one for each, one for main, one because a poll registers its next timer before the expired one is closed; with one less TLC finds a timeout whose next poll is not registered) and `CarefulPrograms` (no `sleep(0)`, no promise awaited by two coroutines): each of these loses a wakeup in the code, section 5 |
| `TableProofs`: `ListsAgree`, `ReferencesCover`, `LoopsInOrder` | `IInv`: head leads along `orderNext` to `tail`, through `size` entries, the allocated ones (`OrderInv`); each bucket leads along `next` through exactly the entries whose key has that index (`BucketInv`); entries are complete and no two keys are equal (`EntryInv`); an untorn loop is inside the list (`LoopInv`). The walks are recursive functions: `WalksExist` shows by least counterexample that such a function exists, `ChainIsPath` that it follows a path to its end; the rest is about paths |
| `TableProofs`: `TableIsMap` (the refinement of `TableAbs`) | `IInv` again; a search of one bucket finds what a search of the whole list would (`FoundEntry`), because equal keys have equal hashes (`SameIndex`) |

### Only model-checked, and why

* Liveness (`CallsReturn`, `AwaitReturns`, `ScheduledRuns`, `EveryoneGetsIn`,
  `AwaitsReturn`, `ProgramEnds`) rests on fairness and ENABLED, which the
  prover does not have. Of `EveryoneGetsIn`, `AwaitsReturn` and `ProgramEnds`
  the safety half is proved.
* `RoundTrip`, `NothingDropped`, `ParseEnds`, `MacrosHygienic`, `ValuesKept`,
  `NoWildRead`, `EffectsOnce`, `NullSafe`, `LibraryAnswers`, `DropsBalance`,
  `ExceptionsArrive`, `DefiniteReturnSound`, `DefiniteAssignmentSound`,
  `SameBehaviour`, `CfgConsistent` are about recursive translations of trees
  and graphs: the modules use RECURSIVE operators, under which the prover has
  no SMT backend, and the faults of section 5 are exempt one by one, so that a
  statement for all programs would say little more.

## 5. Known limits that the models show

Each of these is something the code does, met while it was modelled. Where the
inputs of a run lead there, the model does what the code does and the property
exempts that case by name, and its comment says so: `NoLostWakeupInOrder`,
`RejectionSurfaces`, `OnlyOvertakenLoadsDangle`, `RecordedStoresKept`,
`SameBehaviour` and `CfgConsistent` (`Faults`), `RoundTrip` (`Mistaken`,
`Contested`), `MacrosHygienic` (`HeadDeclares`, `ArgumentsClash`, `Endless`,
`OnlyVisited`), `ValuesKept`, `NoWildRead` and `EffectsOnce` (V1 to V29),
`LibraryAnswers` (`Mislabelled`, `LeavesOldFile`). `MCLower`, `MCValues` and
`EventLoop` name the inputs that they leave out. Some of the rest is in code that
is not modelled, and was seen beside it.

**Promises and scheduling.** `is_completed` is visible before the payload, so an
await on another thread that finds the promise complete may read no payload.
register_await stores the waiter with release and loads `is_completed` with
acquire; neither x86 nor ARM keeps that order, and a settlement in between
leaves the coroutine asleep (`NoLostWakeupInOrder` says that nothing else does).
A second await of a promise overwrites the first; coro_finish may wake a
coroutine that register_await wakes too, and overwrites a cancellation; block_on
returns the payload of a rejected promise and leaves the report to the
destructor; await_payload throws a stray exception (task.c 184) before it marks
the promise, so that the destructor reports a rejection although it was awaited; a
coroutine woken by register_await may read the promise before its settler has
written `is_rejected`, and swallows the rejection; spawn of a finished coroutine leaves a
registry node behind.

**Event loop.** A cancelled coroutine that loops over sleep goes on. A main that
awaits a sleep with no coroutine alive spins: run returns before it polls.
`sleep(0)` disarms its timer; a coroutine that keeps yielding keeps timers from
being polled; running out of descriptors is ignored. A join blocks on top of its
own slice, so a join of a coroutine whose slice lies under it never returns; join
returns the payload of a rejected promise as a result. timeout and select do not
mark their target as awaited, so that a rejected target panics in the destructor,
and they keep pointers they did not retain; select prefers its first promise when
both are complete and polls for ever when both are null. Without `has_async_io`
main does not pump at the end.

**Channel, mutex, locks.** A channel of capacity 0 never passes a value. A
receive cancelled while it waits swallows one value. unlock hands the mutex to a
request whose client timed out or cancelled, and then it stays locked without an
owner (`NeverLostToAWaiter`: nothing else loses it); the destructor of a mutex
forgets its waiters. Two lock blocks of one thread whose addresses fall on the
same spin lock deadlock.

**Reference counts.** load_weak reads the slot (arc.c 198) and then the header it
found (209, 218); a store that overwrites the slot in between may free that
header (186), and the load reads memory that was freed. `is_stack_ptr` guesses
from addresses.

**Tables.** remove and clear release neither key nor value (`RefsCoverEntries`
has `<=` after them); insert releases the old value before it retains the new
one; boxes of bool, char and integers of 8 and 16 bits compare by address;
`any? x = m[k]` dangles after a remove; a remove in the body of a loop makes it
skip an entry; the table never grows.

**Mem2Reg.** The scan for definitions records a store only when it has met the
alloca before, in the order of the block list; inlining moves the rest of a
block to the end of the list (InliningPass.cpp 291 to 305, 396), so stores of a
loop that follows come before their alloca and get no phi: a load reads an older
value. `RecordedStoresKept` is about the recorded stores. The loads of unreachable blocks are deleted while their
users remain. A branch to the entry block would get no phi node there.

**Passes** (`Faults` of `CfgPasses`). F1 (`tornEdge`): `foldBranches` removes the
edge it has just stored; until the next healing the target may be erased while a
branch names it, or lose a phi value. F2 (`skipped`): jump threading skips the
instructions between a phi node and the test of it. F3 (`plainCall`): inlining an
invoke leaves the plain calls of the callee plain. F4 (`unwindPhi`): it patches
the phi nodes of the unwind block for resumes only, and does not split a block
with phi nodes for them.

**Lowering.** B1: `return x` on one path erases x for the paths lowered later;
B2: so does a move into an assignment or a closure. B3: a throw inside `lock`,
or a call there with no try around, unlocks twice. B4, B5: an exception that
passes through a try that does not catch it cleans up the scope of the try only.
B6: an async function that falls off its end never drops its parameters. B7: a
for-in keeps its table alive for ever when its body returns or throws. B8: a
catch without a name releases the exception twice. B12: a deferred call that
throws; B13: a constructor call has no unwind edge. A throw or return in
`finally` leaves a block with two terminators. Ranges of a switch are tested
before its constants. The flow checks do not see that a `break` leaves a
`while (true)`, a `for (;;)` or a switch; a do-while with break or continue, a
use in `finally`, and an assignment in `defer` make definite assignment wrong.

**Front end.** `|>` binds weaker than `??`, and `a ?? b ?? c` is `(a ?? b) ?? c`
(Parser.cpp 2419 to 2497); `semantic_closure_torture.mox` line 12 says that `|>`
binds tighter than `??`, and line 30 that `??` is right-associative. The printer
follows the tests and `RoundTrip` exempts these trees (`Contested`). The loops over the cases of a switch and the members of an enum
never test for the end of the file; the lexer returns the same error token for
ever on a byte that starts no character, and on a text that ends behind `${x}`.
The look-ahead in the text ignores comments and non-ASCII names. Taken for
something else: `(a ? b : c)` for a typed lambda, `a ? [b] : c` for an optional
index, `&(e)` for a closure, `a * await b`, `a * new T()` and `a * b;` for
declarations; `Box<int>? x` is not taken for a declaration; `T??` cannot be
written. A line that starts with `++`, `--` or `**` joins the one before;
`return` takes the next line; a catch without a name forgets its type.

**Macros.** An argument named like another parameter is substituted again; the
heads of statements are copied after their bodies, so some variables of a macro
are renamed late; a macro that calls itself in an operand or a closure never
ends; a call with the wrong number of arguments vanishes; calls in conditions,
unary, ternary, cast, index and member operands and in bodies without braces are
not expanded (`OnlyVisited`); the parameters of lambdas are not renamed; a macro that is a
single `return;` dereferences null in an expression.

**Values** (the faults of `Meaning`; V9 is not used). V1 a number given to an
optional of another number type becomes a pointer; V2 an any given to an
optional is read through its data pointer; V3 the truth of an any; V4 compound
assignments are not checked; V5 a narrower negative right operand is
zero-extended; V6 the sides of `??` are bitcast; V7 an any given null keeps its
vtable; V8 order comparisons of slices, tables and strings are accepted; V10
`++m[k]`; V11 tables with optional values; V12 tables with any keys get the key
unboxed; V13 pointers of differing pointees; V14 slices, arrays and tables of
another element type; V15 `x?[i]` of null panics; V16 the text of an optional
that holds no number is its address; V17 assignments through `*mut any` and
`*mut T?` box nothing; V18 built-ins on optional slices are accepted; V19 an
integer literal takes the other integer type; V20 constant folding looks through
casts; V21 a cast of an any does not look at what it holds and reads it as the
target type, where Handbook.md 350 and `pipe_and_cast_errors.mox` 74 to 90 have it
stop; V22 a key that is not in the table gives a zero, where Handbook.md 1042 to
1044 and `runtime_panics.mox` 18 have a panic (panic.c 102, which nothing calls
there); V23 `a[f()] += 1`, `++a[f()]` and `~f()` evaluate twice; V24 unsigned
division, remainder, shift and order are signed; V25 a division by zero yields 0,
where `combined6.mox` 600 expects a panic; V26 two null optionals are unequal; V27
tables are shared and compared by address, where
`core_semantics_and_dispatch.mox` 33 and 61 have values; V28 null pointers are
gone through and null optionals cast; V29 an any beside an optional is read as a
pointer. Outside the programs: a fixed array of zeros prints "null"; pushes onto an `any[]` box
nothing; sort and search compare bytes; views dangle after a push.

**Library.** split with an empty delimiter and replace of an empty text return
the text. JSON, YAML and CSV escape nothing; texts that look like literals come
back as other types; null comes back as ""; an empty last column is dropped;
rows with other keys, or in another order, are mislabelled (file.c 854) and longer
ones cut (`Mislabelled`); writing no rows leaves the old file (809,
`LeavesOldFile`). readCsv gives an array of tables with typed values, where
Handbook.md 1498 has a `string[][]`. Decimal division truncates at the larger scale; the text of a decimal
overflows its buffer at scales from 62 on; `1 ** -1` is 0; short writes are
ignored.

## 6. Not modelled

`PROJECT.json` lists every part with its reason. In short:

* the borrow checker, ownership analysis and drop elision decide by names of
  instructions, types and functions; there is no definition of what they accept
  to check them against (where values are dropped is `Lower`);
* the verifier, scalar replacement and escape analysis rewrite or report single
  instructions and leave the control flow alone;
* symbol tables, generics, syntax trees, driver and diagnostics are bookkeeping
  in one pass;
* exceptions are unwound by the C++ runtime; the allocator panics instead of
  failing; tracing and logging change no state;
* the lock table is an exchange loop; the event loops of other systems have the
  interface of the Linux one; boot code has no logic above the hardware;
* console, floating-point functions, handles of files, PDF and directories pass
  their arguments on.

Left out of parts that are modelled: members, closures, await and `new` as
expressions; decimals and overloaded operators in the type checker; the loops
that replace timers where `has_async_io` is false; the lifetime of promises that
polling wakers point to; handles with positions; the single-threaded branch of
reference counting.

## 7. Plan

Done: all modules above. For the runtime (promises, scheduler, event loop,
channels, mutex, reference counts, tables) and for the compiler's dominance
analysis and Mem2Reg every safety property that a run checks is a theorem.
Next, for the modules that only TLC checks:

1. `CfgPasses`: the executions of a function as a state machine instead of a
   recursive operator, beside the passes as in `Mem2Reg`; then `CfgConsistent`
   and, pass by pass, `SameBehaviour` come within reach of the prover.
2. `Lower`: the same for `DropsBalance`, whose walk over the scopes is a
   recursion over the statement tree.
