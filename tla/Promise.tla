------------------------------ MODULE Promise ------------------------------
(***************************************************************************)
(* One InternalPromise of the Moksha runtime (runtime/src/async/task.c and *)
(* async_builtins.c) at the grain of its memory accesses: threads that     *)
(* settle it, one coroutine that awaits it, and the main thread, which     *)
(* resumes coroutines and may itself block on the promise.                 *)
(*                                                                         *)
(* A settler's payload pointer is the settler itself, so a property can    *)
(* tell whose payload an await delivers.                                   *)
(***************************************************************************)
EXTENDS Naturals, FiniteSets

CONSTANTS
  Settlers,   \* threads that will settle the promise
  Kinds,      \* the operations they may settle it with: see AllKinds
  Delayed     \* may the store to waiting_coro become visible after the load
              \* of is_completed that follows it, as on x86 and arm

NULL   == "null"
WAITER == "waiter"      \* the handle of the awaiting coroutine
STRAY  == "stray"       \* the exception of another coroutine
AllKinds == {"resolve", "reject", "cancel", "finish", "finish_rejected"}

ASSUME SettlersAssumption == NULL \notin Settlers /\ STRAY \notin Settlers
ASSUME KindsAssumption    == Kinds \subseteq AllKinds
ASSUME DelayedAssumption  == Delayed \in BOOLEAN

VARIABLES
  is_completed, is_rejected, was_awaited, result_data, waiting_coro,
  spc,       \* where each settler is
  op,        \* the operation it performs
  stolen,    \* the waiter it took from the promise
  rpc,       \* where the coroutine's call of register_await is
  taken,     \* the waiter that register_await took back
  store_buf, \* the store to waiting_coro that is not visible yet
  woken,     \* how often the coroutine was scheduled for this await
  waker,     \* who scheduled it last
  cpc,       \* the coroutine after its resumption: await_payload
  got,       \* what the await delivered to the coroutine
  ex_payload,\* __moksha_ex_payload of the main thread, which runs coroutines
  bpc,       \* the main thread in moksha_rt_block_on
  bgot,      \* what block_on returned
  panicked,  \* the promise was released with an unhandled rejection
  released   \* the last reference was dropped

prom  == <<is_completed, is_rejected, was_awaited, result_data, waiting_coro>>
setl  == <<spc, op, stolen>>
regs  == <<rpc, taken, store_buf>>
coro  == <<woken, waker, cpc, got, ex_payload>>
main  == <<bpc, bgot, panicked, released>>
vars  == <<prom, setl, regs, coro, main>>

Nothing  == [rejected |-> FALSE, data |-> NULL, ended |-> FALSE]
Finish   == {"finish", "finish_rejected"}

\* A coroutine finishes once, and only cancel settles its promise besides;
\* the promises of channels, mutexes, timers and threads are Plain.
OneFinisher ==
  \A s, u \in Settlers : (s # u /\ op[s] \in Finish) => op[u] = "cancel"
Plain == \A s \in Settlers : op[s] \notin Finish

Init ==
  /\ is_completed = FALSE /\ is_rejected = FALSE /\ was_awaited = FALSE
  /\ result_data = NULL /\ waiting_coro = NULL
  /\ spc = [s \in Settlers |-> "start"]
  /\ op \in [Settlers -> Kinds] /\ OneFinisher
  /\ stolen = [s \in Settlers |-> NULL]
  /\ rpc = "before" /\ taken = NULL /\ store_buf = NULL
  /\ woken = 0 /\ waker = NULL /\ cpc = "suspended" /\ got = Nothing
  /\ ex_payload = NULL
  /\ bpc = "idle" /\ bgot = Nothing /\ panicked = FALSE /\ released = FALSE

Goto(s, label) == spc' = [spc EXCEPT ![s] = label]

\* moksha_scheduler_schedule; module Scheduler opens it up.
Schedule(by, handle) ==
  IF handle = NULL THEN UNCHANGED <<woken, waker>>
                   ELSE woken' = woken + 1 /\ waker' = by

-----------------------------------------------------------------------------
(* resolve_promise, reject_promise and cancel.                             *)

\* The compare-exchange on is_completed; the loser returns at once.
CompleteUnchecked(s) ==
  /\ spc[s] = "start" /\ op[s] \notin Finish
  /\ is_completed' = TRUE
  /\ Goto(s, IF op[s] = "resolve" THEN "write" ELSE "flag")
  /\ UNCHANGED <<is_rejected, was_awaited, result_data, waiting_coro,
                 op, stolen, regs, coro, main>>
Complete(s) ==
  /\ spc[s] = "start" /\ op[s] \notin Finish
  /\ is_completed' = TRUE
  /\ Goto(s, IF is_completed THEN "done"
             ELSE IF op[s] = "resolve" THEN "write" ELSE "flag")
  /\ UNCHANGED <<is_rejected, was_awaited, result_data, waiting_coro,
                 op, stolen, regs, coro, main>>

\* is_rejected = true in reject and cancel; cancel also sets was_awaited.
FlagMarks(s) ==
  /\ spc[s] = "flag"
  /\ is_rejected' = TRUE
  /\ was_awaited' = TRUE
  /\ Goto(s, "write")
  /\ UNCHANGED <<is_completed, result_data, waiting_coro,
                 op, stolen, regs, coro, main>>
Flag(s) ==
  /\ spc[s] = "flag"
  /\ is_rejected' = TRUE
  /\ was_awaited' = (was_awaited \/ op[s] = "cancel")
  /\ Goto(s, "write")
  /\ UNCHANGED <<is_completed, result_data, waiting_coro,
                 op, stolen, regs, coro, main>>

Write(s) ==
  /\ spc[s] = "write"
  /\ result_data' = s
  /\ Goto(s, "steal")
  /\ UNCHANGED <<is_completed, is_rejected, was_awaited, waiting_coro,
                 op, stolen, regs, coro, main>>

\* The exchange that takes the waiter out of the promise.
Steal(s) ==
  /\ spc[s] = "steal"
  /\ stolen' = [stolen EXCEPT ![s] = waiting_coro]
  /\ waiting_coro' = NULL
  /\ Goto(s, "wake")
  /\ UNCHANGED <<is_completed, is_rejected, was_awaited, result_data,
                 op, regs, coro, main>>

WakeForgotten(s) ==
  /\ spc[s] = "wake"
  /\ stolen' = [stolen EXCEPT ![s] = NULL]
  /\ Goto(s, "done")
  /\ UNCHANGED <<prom, op, regs, coro, main>>
Wake(s) ==
  /\ spc[s] = "wake"
  /\ Schedule("settler", stolen[s])
  /\ stolen' = [stolen EXCEPT ![s] = NULL]
  /\ Goto(s, "done")
  /\ UNCHANGED <<prom, op, regs, cpc, got, ex_payload, main>>

-----------------------------------------------------------------------------
(* coro_finish: plain accesses, no compare-exchange.  Its payload is the   *)
(* coroutine's value, or a rejected promise that carries its exception.    *)

FinishWrite(s) ==
  /\ spc[s] = "start" /\ op[s] \in Finish
  /\ is_rejected' = (is_rejected \/ op[s] = "finish_rejected")
  /\ result_data' = s
  /\ Goto(s, "finish_complete")
  /\ UNCHANGED <<is_completed, was_awaited, waiting_coro,
                 op, stolen, regs, coro, main>>

FinishComplete(s) ==
  /\ spc[s] = "finish_complete"
  /\ is_completed' = TRUE
  /\ Goto(s, "finish_test")
  /\ UNCHANGED <<is_rejected, was_awaited, result_data, waiting_coro,
                 op, stolen, regs, coro, main>>

\* if (promise->waiting_coro)
FinishTest(s) ==
  /\ spc[s] = "finish_test"
  /\ Goto(s, IF waiting_coro = NULL THEN "done" ELSE "finish_load")
  /\ UNCHANGED <<prom, op, stolen, regs, coro, main>>

\* The second load of waiting_coro, the argument of schedule.
FinishLoad(s) ==
  /\ spc[s] = "finish_load"
  /\ stolen' = [stolen EXCEPT ![s] = waiting_coro]
  /\ Goto(s, "finish_wake")
  /\ UNCHANGED <<prom, op, regs, coro, main>>

FinishWake(s) ==
  /\ spc[s] = "finish_wake"
  /\ Schedule("settler", stolen[s])
  /\ stolen' = [stolen EXCEPT ![s] = NULL]
  /\ Goto(s, "finish_clear")
  /\ UNCHANGED <<prom, op, regs, cpc, got, ex_payload, main>>

FinishClear(s) ==
  /\ spc[s] = "finish_clear"
  /\ waiting_coro' = NULL
  /\ Goto(s, "done")
  /\ UNCHANGED <<is_completed, is_rejected, was_awaited, result_data,
                 op, stolen, regs, coro, main>>

-----------------------------------------------------------------------------
(* The coroutine's await: register_await on the thread that runs it, then  *)
(* await_payload on the main thread once it was resumed.  The coroutine    *)
(* counts as suspended from the coro.save that precedes register_await.    *)

RegisterStore ==
  /\ rpc = "before" /\ ~released
  /\ rpc' = "stored"
  /\ \/ waiting_coro' = WAITER /\ UNCHANGED store_buf
     \/ Delayed /\ store_buf' = WAITER /\ UNCHANGED waiting_coro
  /\ UNCHANGED <<is_completed, is_rejected, was_awaited, result_data,
                 setl, taken, coro, main>>

\* The store buffer drains on its own.
Drain ==
  /\ store_buf # NULL
  /\ waiting_coro' = store_buf
  /\ store_buf' = NULL
  /\ UNCHANGED <<is_completed, is_rejected, was_awaited, result_data,
                 setl, rpc, taken, coro, main>>

RegisterNeverChecks ==
  /\ rpc = "stored"
  /\ rpc' = "left"
  /\ UNCHANGED <<prom, setl, taken, store_buf, coro, main>>
\* "overtook": the load was earlier than the store became visible.
RegisterCheck ==
  /\ rpc = "stored"
  /\ rpc' = IF is_completed THEN "take"
            ELSE IF store_buf # NULL THEN "overtook" ELSE "left"
  /\ UNCHANGED <<prom, setl, taken, store_buf, coro, main>>

\* The exchange is a full barrier: the store buffer is empty before it.
RegisterTake ==
  /\ rpc = "take" /\ store_buf = NULL
  /\ taken' = waiting_coro
  /\ waiting_coro' = NULL
  /\ rpc' = "wake"
  /\ UNCHANGED <<is_completed, is_rejected, was_awaited, result_data,
                 setl, store_buf, coro, main>>

RegisterWake ==
  /\ rpc = "wake"
  /\ Schedule("self", taken)
  /\ taken' = NULL
  /\ rpc' = "left"
  /\ UNCHANGED <<prom, setl, store_buf, cpc, got, ex_payload, main>>

\* Another coroutine of the main thread throws: the statement stores its
\* exception in __moksha_ex_payload and runs the cleanups of the scopes it
\* leaves, which may await; its handler clears the variable.
OtherThrows ==
  /\ cpc = "suspended" /\ bpc # "seen" /\ ex_payload = NULL
  /\ ex_payload' = STRAY
  /\ UNCHANGED <<prom, setl, regs, woken, waker, cpc, got, main>>
OtherCatches ==
  /\ cpc = "suspended" /\ bpc # "seen" /\ ex_payload # NULL
  /\ ex_payload' = NULL
  /\ UNCHANGED <<prom, setl, regs, woken, waker, cpc, got, main>>

\* The scheduler resumes the coroutine, which enters await_payload: it marks
\* the promise, unless it finds an exception in __moksha_ex_payload ...
ResumeCoro ==
  /\ cpc = "suspended" /\ woken > 0 /\ bpc # "seen" /\ ex_payload = NULL
  /\ was_awaited' = TRUE
  /\ cpc' = "check"
  /\ UNCHANGED <<is_completed, is_rejected, result_data, waiting_coro,
                 setl, regs, woken, waker, got, ex_payload, main>>

\* ... and then throws that at once; moksha_rt_throw stores it again.
ResumeStray ==
  /\ cpc = "suspended" /\ woken > 0 /\ bpc # "seen" /\ ex_payload # NULL
  /\ got' = [rejected |-> TRUE, data |-> ex_payload, ended |-> TRUE]
  /\ cpc' = "returned"
  /\ UNCHANGED <<prom, setl, regs, woken, waker, ex_payload, main>>

AwaitCheck ==
  /\ cpc = "check"
  /\ got' = [got EXCEPT !.rejected = is_rejected]
  /\ cpc' = "read"
  /\ UNCHANGED <<prom, setl, regs, woken, waker, ex_payload, main>>

\* The return, or the throw of a rejection.
AwaitRead ==
  /\ cpc = "read"
  /\ got' = [got EXCEPT !.data = result_data, !.ended = TRUE]
  /\ cpc' = "returned"
  /\ ex_payload' = IF got.rejected THEN result_data ELSE ex_payload
  /\ UNCHANGED <<prom, setl, regs, woken, waker, main>>

-----------------------------------------------------------------------------
(* An await in main, which spins in block_on, and the release of the       *)
(* promise, whose built-in destructor panics on an unhandled rejection.    *)

BlockOn ==
  /\ bpc = "idle" /\ ~released
  /\ bpc' = "spinning"
  /\ UNCHANGED <<prom, setl, regs, coro, bgot, panicked, released>>

BlockOnSee ==
  /\ bpc = "spinning" /\ is_completed /\ cpc \notin {"check", "read"}
  /\ bpc' = "seen"
  /\ UNCHANGED <<prom, setl, regs, coro, bgot, panicked, released>>

BlockOnRead ==
  /\ bpc = "seen"
  /\ bgot' = [rejected |-> FALSE, data |-> result_data, ended |-> TRUE]
  /\ bpc' = "returned"
  /\ UNCHANGED <<prom, setl, regs, coro, panicked, released>>

\* Every holder of the promise is done with it.
Release ==
  /\ ~released
  /\ \A s \in Settlers : spc[s] = "done"
  /\ (rpc = "before" \/ (rpc \in {"left", "overtook"} /\ cpc = "returned"))
  /\ bpc \in {"idle", "returned"}
  /\ released' = TRUE
  /\ panicked' = (is_rejected /\ ~was_awaited)
  /\ UNCHANGED <<prom, setl, regs, coro, bpc, bgot>>

SettlerStep(s) ==
  \/ Complete(s) \/ Flag(s) \/ Write(s) \/ Steal(s) \/ Wake(s)
  \/ FinishWrite(s) \/ FinishComplete(s) \/ FinishTest(s) \/ FinishLoad(s)
  \/ FinishWake(s) \/ FinishClear(s)
RegisterStep == RegisterCheck \/ RegisterTake \/ RegisterWake
MainStep     == ResumeCoro \/ ResumeStray \/ AwaitCheck \/ AwaitRead \/ BlockOnSee \/ BlockOnRead

Next ==
  \/ \E s \in Settlers : SettlerStep(s)
  \/ RegisterStore \/ Drain \/ RegisterStep
  \/ MainStep \/ OtherThrows \/ OtherCatches \/ BlockOn \/ Release

\* Threads run, store buffers drain and the main thread keeps pumping the
\* scheduler; nobody has to await the promise or to release it.
Fairness ==
  /\ \A s \in Settlers : WF_vars(SettlerStep(s))
  /\ WF_vars(RegisterStep) /\ WF_vars(Drain) /\ WF_vars(MainStep)

Spec == Init /\ [][Next]_vars /\ Fairness
-----------------------------------------------------------------------------
(* Properties.                                                             *)

SettlerPCs == {"start", "flag", "write", "steal", "wake", "done",
               "finish_complete", "finish_test", "finish_load",
               "finish_wake", "finish_clear"}
Delivered  == [rejected : BOOLEAN, data : Settlers \union {NULL, STRAY}, ended : BOOLEAN]

\* The types of the promise's fields and of everyone's program counters.
TypeOK ==
  /\ is_completed \in BOOLEAN /\ is_rejected \in BOOLEAN
  /\ was_awaited \in BOOLEAN
  /\ result_data \in Settlers \union {NULL}
  /\ waiting_coro \in {NULL, WAITER}
  /\ spc \in [Settlers -> SettlerPCs]
  /\ op \in [Settlers -> Kinds]
  /\ stolen \in [Settlers -> {NULL, WAITER}]
  /\ rpc \in {"before", "stored", "take", "wake", "left", "overtook"}
  /\ taken \in {NULL, WAITER} /\ store_buf \in {NULL, WAITER}
  /\ woken \in Nat /\ waker \in {NULL, "settler", "self"}
  /\ cpc \in {"suspended", "check", "read", "returned"}
  /\ got \in Delivered /\ ex_payload \in Settlers \union {NULL, STRAY}
  /\ bpc \in {"idle", "spinning", "seen", "returned"}
  /\ bgot \in Delivered
  /\ panicked \in BOOLEAN /\ released \in BOOLEAN

\* A settler that completed the promise and is not yet done with its waiter.
Settling(s) == spc[s] \in {"flag", "write", "steal", "finish_test",
                           "finish_load", "finish_wake", "finish_clear"}

\* No wakeup is lost: a waiter left in a completed promise will be taken by
\* the settler, which has yet to look for it, or by register_await, which
\* has yet to look at is_completed.
NoLostWakeup ==
  (is_completed /\ waiting_coro = WAITER)
     => rpc \in {"stored", "take"} \/ \E s \in Settlers : Settling(s)

\* The same, if register_await's store was visible before its load.
NoLostWakeupInOrder == rpc # "overtook" => NoLostWakeup

\* One await, one wakeup: however settlers and register_await interleave,
\* the coroutine is scheduled at most once, so it is never resumed twice
\* for one await.  (coro_finish is not part of this promise.)
WokenOnce == Plain => woken <= 1

\* The first settlement stands: a payload, once there, is never replaced,
\* and a promise never leaves completion (a cancel that races a resolve, a
\* close that races a send).  (coro_finish is not part of this promise.)
Stands ==
  /\ is_completed => is_completed'
  /\ result_data # NULL => result_data' = result_data
  /\ is_rejected => is_rejected'
FirstSettlementStands == [][Plain => Stands]_vars

\* Did the coroutine get the rejection itself, and did a cancel make it?
Seen      == got.rejected /\ got.data = result_data
Cancelled == \E s \in Settlers : op[s] = "cancel" /\ (Plain => result_data = s)

\* A rejection surfaces once: the destructor of the promise (arc.c) reports it
\* or the coroutine that awaited got it thrown, and never both.  Three ways
\* out: a cancelled promise is silent on purpose; an await that
\* register_await itself woke may read the promise before its settler has
\* written it (task.c 55, 61); and block_on, which does not count as an await
\* here, hands main the payload and lets the destructor report it.
RejectionSurfaces ==
  (released /\ is_rejected)
    => /\ panicked => ~Seen
       /\ ~panicked => Seen \/ waker = "self" \/ Cancelled

\* An await of a settled promise comes back, unless register_await's load
\* overtook its store.
AwaitReturns ==
  (rpc # "before" /\ is_completed) ~> (cpc = "returned" \/ rpc = "overtook")
=============================================================================
