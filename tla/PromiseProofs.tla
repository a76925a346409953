--------------------------- MODULE PromiseProofs ---------------------------
(***************************************************************************)
(* Proofs about module Promise, for every set of settling threads and of   *)
(* the operations they use, with and without delayed stores.               *)
(***************************************************************************)
EXTENDS Promise, TLAPS

-----------------------------------------------------------------------------
(* Types.                                                                  *)

LEMMA TypeStep ==
  ASSUME TypeOK, [Next]_vars
  PROVE  TypeOK'
<1>. USE DEF TypeOK, prom, setl, regs, coro, main
<1>1. CASE UNCHANGED vars
  BY <1>1 DEF vars
<1>2. ASSUME NEW s \in Settlers, Complete(s) \/ Write(s)
      PROVE  TypeOK'
  <2>1. is_completed' \in BOOLEAN /\ is_rejected' \in BOOLEAN /\ was_awaited' \in BOOLEAN
    BY <1>2 DEF Complete, Write
  <2>2. spc' \in [Settlers -> SettlerPCs] /\ result_data' \in Settlers \union {NULL}
    BY <1>2 DEF Complete, Write, Goto, SettlerPCs
  <2>. QED
    BY <1>2, <2>1, <2>2 DEF Complete, Write
<1>2a. ASSUME NEW s \in Settlers, Flag(s)
       PROVE  TypeOK'
  <2>1. is_rejected' \in BOOLEAN /\ was_awaited' \in BOOLEAN
    BY <1>2a DEF Flag
  <2>. QED
    BY <1>2a, <2>1 DEF Flag, Goto, SettlerPCs
<1>3. ASSUME NEW s \in Settlers, Steal(s) \/ Wake(s)
      PROVE  TypeOK'
  BY <1>3 DEF Steal, Wake, Schedule, Goto, SettlerPCs
<1>4. ASSUME NEW s \in Settlers, FinishComplete(s) \/ FinishTest(s)
      PROVE  TypeOK'
  <2>1. is_completed' \in BOOLEAN
    BY <1>4 DEF FinishComplete, FinishTest
  <2>2. spc' \in [Settlers -> SettlerPCs]
    BY <1>4 DEF FinishComplete, FinishTest, Goto, SettlerPCs
  <2>. QED
    BY <1>4, <2>1, <2>2 DEF FinishComplete, FinishTest
<1>4a. ASSUME NEW s \in Settlers, FinishWrite(s)
       PROVE  TypeOK'
  <2>1. is_rejected' \in BOOLEAN
    BY <1>4a DEF FinishWrite
  <2>. QED
    BY <1>4a, <2>1 DEF FinishWrite, Goto, SettlerPCs
<1>5. ASSUME NEW s \in Settlers, FinishLoad(s) \/ FinishWake(s) \/ FinishClear(s)
      PROVE  TypeOK'
  BY <1>5 DEF FinishLoad, FinishWake, FinishClear, Schedule, Goto, SettlerPCs
<1>6. CASE RegisterStore \/ Drain \/ RegisterStep
  BY <1>6 DEF RegisterStore, Drain, RegisterStep, RegisterCheck,
     RegisterTake, RegisterWake, Schedule
<1>7. CASE ResumeCoro \/ BlockOn \/ BlockOnSee
  <2>1. was_awaited' \in BOOLEAN
    BY <1>7 DEF ResumeCoro, BlockOn, BlockOnSee
  <2>. QED
    BY <1>7, <2>1 DEF ResumeCoro, BlockOn, BlockOnSee
<1>8. CASE AwaitCheck \/ AwaitRead
  <2>1. got' \in Delivered
    BY <1>8 DEF AwaitCheck, AwaitRead, Delivered
  <2>2. ex_payload' \in Settlers \union {NULL, STRAY}
    BY <1>8 DEF AwaitCheck, AwaitRead
  <2>. QED
    BY <1>8, <2>1, <2>2 DEF AwaitCheck, AwaitRead
<1>8a. CASE ResumeStray
  <2>1. got' \in Delivered
    BY <1>8a, SettlersAssumption DEF ResumeStray, Delivered
  <2>. QED
    BY <1>8a, <2>1 DEF ResumeStray
<1>8b. CASE OtherThrows \/ OtherCatches
  BY <1>8b DEF OtherThrows, OtherCatches
<1>9. CASE BlockOnRead
  <2>1. bgot' \in Delivered
    BY <1>9 DEF BlockOnRead, Delivered
  <2>. QED
    BY <1>9, <2>1 DEF BlockOnRead
<1>10. CASE Release
  <2>1. panicked' \in BOOLEAN
    BY <1>10 DEF Release
  <2>. QED
    BY <1>10, <2>1 DEF Release
<1>. QED
  BY <1>1, <1>2, <1>2a, <1>3, <1>4, <1>4a, <1>5, <1>6, <1>7, <1>8, <1>8a, <1>8b, <1>9, <1>10
     DEF Next, SettlerStep, RegisterStep, MainStep

LEMMA InitType ==
  ASSUME Init
  PROVE  TypeOK
<1>1. Nothing \in Delivered
  BY DEF Nothing, Delivered
<1>2. spc \in [Settlers -> SettlerPCs] /\ stolen \in [Settlers -> {NULL, WAITER}]
  BY DEF Init, SettlerPCs
<1>. QED
  BY <1>1, <1>2 DEF Init, TypeOK

\* The fields of the promise and the hands its waiter passes through keep
\* their types.
THEOREM TypeCorrect == Spec => []TypeOK
<1>1. Init => TypeOK
  BY InitType
<1>. QED
  BY <1>1, TypeStep, PTL DEF Spec

-----------------------------------------------------------------------------
(* No wakeup is lost.                                                      *)

\* A delayed store is register_await's, and still to drain before it takes
\* the waiter back.
BufferInv == store_buf # NULL => rpc \in {"stored", "take", "overtook"}
WakeInv == TypeOK /\ BufferInv /\ NoLostWakeupInOrder

LEMMA WakeStep ==
  ASSUME WakeInv, [Next]_vars
  PROVE  WakeInv'
<1>. USE DEF WakeInv
<1>0. TypeOK'
  BY TypeStep
<1>. USE DEF prom, setl, regs, coro, main
<1>1. BufferInv'
  BY DEF BufferInv, Next, SettlerStep, RegisterStep, MainStep, vars,
     Complete, Flag, Write, Steal, Wake, FinishWrite, FinishComplete,
     FinishTest, FinishLoad, FinishWake, FinishClear, RegisterStore, Drain,
     RegisterCheck, RegisterTake, RegisterWake, ResumeCoro, ResumeStray, OtherThrows, OtherCatches, AwaitCheck,
     AwaitRead, BlockOn, BlockOnSee, BlockOnRead, Release
<1>2. NoLostWakeupInOrder'
  <2>1. ASSUME NEW s \in Settlers,
               Complete(s) \/ Flag(s) \/ Write(s) \/ FinishComplete(s)
                 \/ FinishLoad(s) \/ FinishWake(s)
        PROVE  NoLostWakeupInOrder'
    BY <2>1 DEF NoLostWakeupInOrder, NoLostWakeup, Settling, TypeOK, Goto, Complete, Flag, Write,
       FinishComplete, FinishLoad, FinishWake
  <2>2. ASSUME NEW s \in Settlers, FinishTest(s)
        PROVE  NoLostWakeupInOrder'
    BY <2>2 DEF NoLostWakeupInOrder, NoLostWakeup, Settling, TypeOK, Goto, FinishTest, NULL, WAITER
  <2>3. ASSUME NEW s \in Settlers, Steal(s) \/ FinishClear(s)
        PROVE  NoLostWakeupInOrder'
    BY <2>3 DEF NoLostWakeupInOrder, NoLostWakeup, Steal, FinishClear, NULL, WAITER
  <2>4. ASSUME NEW s \in Settlers, Wake(s) \/ FinishWrite(s)
        PROVE  NoLostWakeupInOrder'
    BY <2>4 DEF NoLostWakeupInOrder, NoLostWakeup, Settling, TypeOK, Goto, Wake, FinishWrite
  <2>5. CASE RegisterStore \/ RegisterCheck
    BY <2>5 DEF NoLostWakeupInOrder, NoLostWakeup, Settling, RegisterStore, RegisterCheck
  <2>6. CASE RegisterTake
    BY <2>6 DEF NoLostWakeupInOrder, NoLostWakeup, RegisterTake, NULL, WAITER
  <2>7. CASE RegisterWake
    BY <2>7 DEF NoLostWakeupInOrder, NoLostWakeup, Settling, RegisterWake
  <2>8. CASE Drain
    BY <2>8 DEF NoLostWakeupInOrder, NoLostWakeup, Drain, BufferInv
  <2>9. CASE UNCHANGED vars \/ MainStep \/ OtherThrows \/ OtherCatches \/ BlockOn \/ Release
    BY <2>9 DEF NoLostWakeupInOrder, NoLostWakeup, Settling, vars, MainStep, ResumeCoro, ResumeStray, OtherThrows, OtherCatches,
       AwaitCheck, AwaitRead, BlockOnSee, BlockOnRead, BlockOn, Release
  <2>. QED
    BY <2>1, <2>2, <2>3, <2>4, <2>5, <2>6, <2>7, <2>8, <2>9
       DEF Next, SettlerStep, RegisterStep
<1>. QED
  BY <1>0, <1>1, <1>2

\* Unless register_await's load overtakes its store no wakeup is lost,
\* whatever settles the promise: store the waiter then load is_completed on
\* one side, set is_completed then look for the waiter on the other (task.c).
THEOREM WakeupNotLost == Spec => []NoLostWakeupInOrder
<1>1. Init => WakeInv
  BY InitType DEF Init, WakeInv, BufferInv, NoLostWakeupInOrder, NoLostWakeup
<1>2. WakeInv /\ [Next]_vars => WakeInv'
  BY WakeStep
<1>. QED
  BY <1>1, <1>2, PTL DEF Spec, WakeInv

-----------------------------------------------------------------------------
(* Nobody changes what he does half-way.                                   *)

LEMMA OpConstant ==
  ASSUME [Next]_vars
  PROVE  op' = op
BY DEF Next, SettlerStep, RegisterStep, MainStep, vars, Complete, Flag, Write,
   Steal, Wake, FinishWrite, FinishComplete, FinishTest, FinishLoad, FinishWake,
   FinishClear, RegisterStore, Drain, RegisterCheck, RegisterTake, RegisterWake,
   ResumeCoro, ResumeStray, OtherThrows, OtherCatches, AwaitCheck, AwaitRead, BlockOn, BlockOnSee, BlockOnRead, Release,
   setl

-----------------------------------------------------------------------------
(* One wakeup for one await.                                               *)

\* Without coroutines that finish, nobody runs the code of coro_finish.
NoFinish ==
  \A s \in Settlers :
    /\ op[s] \notin Finish
    /\ spc[s] \in {"start", "flag", "write", "steal", "wake", "done"}

\* The handle of the coroutine is nowhere before register_await, and later
\* in one place at a time: the store buffer, the promise, a settler's hand,
\* register_await's hand, or the scheduler.
OneHandle ==
  /\ rpc = "before" => /\ waiting_coro = NULL /\ taken = NULL /\ woken = 0
                       /\ store_buf = NULL
                       /\ \A s \in Settlers : stolen[s] = NULL
  /\ store_buf = WAITER => /\ waiting_coro = NULL /\ taken = NULL /\ woken = 0
                          /\ \A s \in Settlers : stolen[s] = NULL
  /\ waiting_coro = WAITER => /\ taken = NULL /\ woken = 0
                             /\ \A s \in Settlers : stolen[s] = NULL
  /\ taken = WAITER => /\ woken = 0
                      /\ \A s \in Settlers : stolen[s] = NULL
  /\ \A s \in Settlers : stolen[s] = WAITER =>
       /\ woken = 0
       /\ \A u \in Settlers \ {s} : stolen[u] = NULL
  /\ woken \in {0, 1}

HandleInv == TypeOK /\ NoFinish /\ OneHandle

LEMMA HandleStep ==
  ASSUME HandleInv, [Next]_vars
  PROVE  HandleInv'
<1>. USE DEF HandleInv
<1>0. TypeOK'
  BY TypeStep
<1>1. NoFinish'
  BY DEF NoFinish, Next, SettlerStep, RegisterStep, MainStep, vars, Goto,
     Complete, Flag, Write, Steal, Wake, FinishWrite, FinishComplete,
     FinishTest, FinishLoad, FinishWake, FinishClear, RegisterStore, Drain,
     RegisterCheck, RegisterTake, RegisterWake, ResumeCoro, ResumeStray, OtherThrows, OtherCatches, AwaitCheck,
     AwaitRead, BlockOn, BlockOnSee, BlockOnRead, Release, setl, TypeOK
<1>. USE DEF prom, setl, regs, coro, main
<1>2. OneHandle'
  <2>. USE DEF NULL, WAITER
  <2>1. ASSUME NEW s \in Settlers, Steal(s)
        PROVE  OneHandle'
    BY <2>1 DEF OneHandle, Steal, TypeOK
  <2>2. ASSUME NEW s \in Settlers, Wake(s)
        PROVE  OneHandle'
    BY <2>2 DEF OneHandle, Wake, Schedule, TypeOK
  <2>3. CASE RegisterStore
    BY <2>3 DEF OneHandle, RegisterStore, TypeOK
  <2>4. CASE RegisterTake
    BY <2>4 DEF OneHandle, RegisterTake, TypeOK
  <2>5. CASE RegisterWake
    BY <2>5 DEF OneHandle, RegisterWake, Schedule, TypeOK
  <2>6. CASE RegisterCheck
    BY <2>6 DEF OneHandle, RegisterCheck
  <2>7. CASE Drain
    BY <2>7 DEF OneHandle, Drain, TypeOK
  <2>8. ASSUME NEW s \in Settlers, Complete(s) \/ Flag(s) \/ Write(s)
        PROVE  OneHandle'
    BY <2>8 DEF OneHandle, Complete, Flag, Write
  <2>9. ASSUME NEW s \in Settlers,
               FinishWrite(s) \/ FinishComplete(s) \/ FinishTest(s)
                 \/ FinishLoad(s) \/ FinishWake(s) \/ FinishClear(s)
        PROVE  FALSE
    BY <2>9 DEF NoFinish, FinishWrite, FinishComplete, FinishTest,
       FinishLoad, FinishWake, FinishClear
  <2>10. CASE UNCHANGED vars \/ MainStep \/ OtherThrows \/ OtherCatches \/ BlockOn \/ Release
    BY <2>10 DEF OneHandle, vars, MainStep, ResumeCoro, ResumeStray, OtherThrows, OtherCatches, AwaitCheck,
       AwaitRead, BlockOnSee, BlockOnRead, BlockOn, Release
  <2>. QED
    BY <2>1, <2>2, <2>3, <2>4, <2>5, <2>6, <2>7, <2>8, <2>9, <2>10
       DEF Next, SettlerStep, RegisterStep
<1>. QED
  BY <1>0, <1>1, <1>2

\* A promise settled by resolve, reject or cancel wakes the coroutine that
\* awaits it at most once, however many threads try to settle it.
THEOREM OneWakeup == Spec => []WokenOnce
<1>1. Init => (Plain => HandleInv)
  <2>. SUFFICES ASSUME Init, Plain PROVE HandleInv
    OBVIOUS
  <2>1. NoFinish
    BY DEF Init, NoFinish, Plain
  <2>2. OneHandle
    BY DEF Init, OneHandle, NULL, WAITER
  <2>. QED
    BY <2>1, <2>2, InitType DEF HandleInv
<1>2. (Plain => HandleInv) /\ [Next]_vars => (Plain => HandleInv)'
  BY HandleStep, OpConstant DEF Plain
<1>3. (Plain => HandleInv) => WokenOnce
  BY DEF HandleInv, OneHandle, WokenOnce
<1>. QED
  BY <1>1, <1>2, <1>3, PTL DEF Spec

-----------------------------------------------------------------------------
(* The first settlement stands.                                            *)

\* There is one winner of the compare-exchange: while it has yet to write
\* its payload the promise is complete and empty, and nobody else is there.
OneWinner ==
  /\ ~is_completed => result_data = NULL
  /\ \A s \in Settlers : spc[s] \in {"flag", "write"} =>
       /\ is_completed /\ result_data = NULL
       /\ \A u \in Settlers \ {s} : spc[u] \notin {"flag", "write"}

WinnerInv == TypeOK /\ NoFinish /\ OneWinner

LEMMA WinnerStep ==
  ASSUME WinnerInv, [Next]_vars
  PROVE  WinnerInv'
<1>. USE DEF WinnerInv
<1>0. TypeOK'
  BY TypeStep
<1>1. NoFinish'
  BY DEF NoFinish, Next, SettlerStep, RegisterStep, MainStep, vars, Goto,
     Complete, Flag, Write, Steal, Wake, FinishWrite, FinishComplete,
     FinishTest, FinishLoad, FinishWake, FinishClear, RegisterStore, Drain,
     RegisterCheck, RegisterTake, RegisterWake, ResumeCoro, ResumeStray, OtherThrows, OtherCatches, AwaitCheck,
     AwaitRead, BlockOn, BlockOnSee, BlockOnRead, Release, setl, TypeOK
<1>. USE DEF prom, setl, regs, coro, main
<1>2. OneWinner'
  <2>1. ASSUME NEW s \in Settlers, Complete(s)
        PROVE  OneWinner'
    BY <2>1 DEF OneWinner, Complete, Goto, TypeOK
  <2>2. ASSUME NEW s \in Settlers, Flag(s) \/ Write(s)
        PROVE  OneWinner'
    BY <2>2 DEF OneWinner, Flag, Write, Goto, TypeOK
  <2>3. ASSUME NEW s \in Settlers, Steal(s) \/ Wake(s)
        PROVE  OneWinner'
    BY <2>3 DEF OneWinner, Steal, Wake, Goto, TypeOK
  <2>4. ASSUME NEW s \in Settlers,
               FinishWrite(s) \/ FinishComplete(s) \/ FinishTest(s)
                 \/ FinishLoad(s) \/ FinishWake(s) \/ FinishClear(s)
        PROVE  FALSE
    BY <2>4 DEF NoFinish, FinishWrite, FinishComplete, FinishTest,
       FinishLoad, FinishWake, FinishClear
  <2>5. CASE RegisterStore \/ Drain \/ RegisterStep
    BY <2>5 DEF OneWinner, RegisterStore, Drain, RegisterStep, RegisterCheck,
       RegisterTake, RegisterWake
  <2>6. CASE UNCHANGED vars \/ MainStep \/ OtherThrows \/ OtherCatches \/ BlockOn \/ Release
    BY <2>6 DEF OneWinner, vars, MainStep, ResumeCoro, ResumeStray, OtherThrows, OtherCatches, AwaitCheck,
       AwaitRead, BlockOnSee, BlockOnRead, BlockOn, Release
  <2>. QED
    BY <2>1, <2>2, <2>3, <2>4, <2>5, <2>6 DEF Next, SettlerStep
<1>. QED
  BY <1>0, <1>1, <1>2

\* Resolve, reject and cancel never undo each other, on any memory: the
\* payload and the flags of the first one stay.
THEOREM FirstWins == Spec => FirstSettlementStands
<1>1. Init => (Plain => WinnerInv)
  <2>. SUFFICES ASSUME Init, Plain PROVE WinnerInv
    OBVIOUS
  <2>1. NoFinish
    BY DEF Init, NoFinish, Plain
  <2>2. OneWinner
    BY DEF Init, OneWinner
  <2>. QED
    BY <2>1, <2>2, InitType DEF WinnerInv
<1>2. (Plain => WinnerInv) /\ [Next]_vars => (Plain => WinnerInv)'
  BY WinnerStep, OpConstant DEF Plain
<1>3. (Plain => WinnerInv) /\ [Next]_vars => [Plain => Stands]_vars
  <2>. SUFFICES ASSUME WinnerInv, Next
                PROVE  Stands
    OBVIOUS
  <2>. USE DEF WinnerInv, Stands, prom, setl, regs, coro, main
  <2>1. ASSUME NEW s \in Settlers, SettlerStep(s)
        PROVE  Stands
    BY <2>1 DEF OneWinner, NoFinish, SettlerStep, Complete, Flag, Write,
       Steal, Wake, FinishWrite, FinishComplete, FinishTest, FinishLoad,
       FinishWake, FinishClear
  <2>2. CASE RegisterStore \/ Drain \/ RegisterStep \/ MainStep \/ OtherThrows \/ OtherCatches \/ BlockOn \/ Release
    BY <2>2 DEF RegisterStore, Drain, RegisterStep, RegisterCheck,
       RegisterTake, RegisterWake, MainStep, ResumeCoro, ResumeStray, OtherThrows, OtherCatches, AwaitCheck,
       AwaitRead, BlockOnSee, BlockOnRead, BlockOn, Release
  <2>. QED
    BY <2>1, <2>2 DEF Next
<1>. QED
  BY <1>1, <1>2, <1>3, PTL DEF Spec, FirstSettlementStands

-----------------------------------------------------------------------------
(* An awaited rejection is handled.                                        *)

\* Before register_await stored the handle nobody can have it, not even a
\* coro_finish that reads waiting_coro without an exchange.
NobodyHasIt ==
  rpc = "before" => /\ waiting_coro = NULL /\ store_buf = NULL /\ taken = NULL
                    /\ woken = 0
                    /\ \A s \in Settlers : stolen[s] = NULL

\* The await went past __moksha_ex_payload, to the promise itself.
Looked == cpc \in {"check", "read"} \/ (cpc = "returned" /\ got.data # STRAY)

\* An await that looked has marked the promise, and a promise is released
\* once its settlers are done, before the await began or after it returned.
MarkedInv ==
  /\ woken > 0 <=> waker # NULL
  /\ cpc # "suspended" => woken > 0
  /\ cpc = "suspended" => ~got.rejected /\ ex_payload \in {NULL, STRAY}
  /\ Looked => was_awaited
  /\ released => rpc = "before" \/ cpc = "returned"
  /\ released => \A s \in Settlers : spc[s] = "done"
  /\ ~released => ~panicked
  /\ released => panicked = (is_rejected /\ ~was_awaited)

HandledInv == TypeOK /\ NobodyHasIt /\ MarkedInv

LEMMA NobodyHasItStep ==
  ASSUME TypeOK, NobodyHasIt, [Next]_vars
  PROVE  NobodyHasIt'
<1>. USE DEF NobodyHasIt, prom, setl, regs, coro, main, NULL, WAITER
<1>1. ASSUME NEW s \in Settlers,
             Complete(s) \/ Flag(s) \/ Write(s) \/ FinishWrite(s)
               \/ FinishComplete(s) \/ FinishTest(s) \/ FinishClear(s)
      PROVE  NobodyHasIt'
  BY <1>1 DEF Complete, Flag, Write, FinishWrite, FinishComplete, FinishTest,
     FinishClear
<1>2. ASSUME NEW s \in Settlers, Steal(s) \/ FinishLoad(s)
      PROVE  NobodyHasIt'
  BY <1>2 DEF Steal, FinishLoad, TypeOK
<1>3. ASSUME NEW s \in Settlers, Wake(s) \/ FinishWake(s)
      PROVE  NobodyHasIt'
  BY <1>3 DEF Wake, FinishWake, Schedule, TypeOK
<1>4. CASE RegisterStore \/ RegisterStep \/ Drain
  BY <1>4 DEF RegisterStore, RegisterStep, RegisterCheck, RegisterTake,
     RegisterWake, Drain
<1>5. CASE UNCHANGED vars \/ MainStep \/ OtherThrows \/ OtherCatches \/ BlockOn \/ Release
  BY <1>5 DEF vars, MainStep, ResumeCoro, ResumeStray, OtherThrows, OtherCatches, AwaitCheck, AwaitRead, BlockOnSee,
     BlockOnRead, BlockOn, Release
<1>. QED
  BY <1>1, <1>2, <1>3, <1>4, <1>5 DEF Next, SettlerStep

LEMMA MarkedStep ==
  ASSUME HandledInv, [Next]_vars
  PROVE  MarkedInv'
<1>. USE DEF HandledInv, MarkedInv, Looked, prom, setl, regs, coro, main
<1>1. ASSUME NEW s \in Settlers, Complete(s) \/ Flag(s) \/ Write(s) \/ FinishWrite(s)
      PROVE  MarkedInv'
  <2>1. ~released
    BY <1>1 DEF Complete, Flag, Write, FinishWrite
  <2>2. UNCHANGED <<released, panicked, rpc, cpc, woken, waker, got, ex_payload>>
    BY <1>1 DEF Complete, Flag, Write, FinishWrite
  <2>3. was_awaited => was_awaited'
    BY <1>1 DEF Complete, Flag, Write, FinishWrite
  <2>. QED
    BY <2>1, <2>2, <2>3
<1>2. ASSUME NEW s \in Settlers,
             Steal(s) \/ Wake(s) \/ FinishComplete(s) \/ FinishTest(s)
               \/ FinishLoad(s) \/ FinishWake(s) \/ FinishClear(s)
      PROVE  MarkedInv'
  <2>1. ~released
    BY <1>2 DEF Steal, Wake, FinishComplete, FinishTest, FinishLoad, FinishWake, FinishClear
  <2>2. UNCHANGED <<released, panicked, rpc, cpc, got, ex_payload, was_awaited>>
    BY <1>2 DEF Steal, Wake, FinishComplete, FinishTest, FinishLoad, FinishWake, FinishClear
  <2>3. (woken' > 0 <=> waker' # NULL) /\ (woken > 0 => woken' > 0)
    BY <1>2 DEF Steal, Wake, FinishComplete, FinishTest, FinishLoad, FinishWake,
       FinishClear, Schedule, TypeOK, NULL
  <2>. QED
    BY <2>1, <2>2, <2>3
<1>3. CASE RegisterStore \/ Drain \/ RegisterStep
  <2>1. UNCHANGED <<released, panicked, cpc, got, ex_payload, was_awaited, is_rejected, spc>>
    BY <1>3 DEF RegisterStore, Drain, RegisterStep, RegisterCheck, RegisterTake, RegisterWake
  <2>2. rpc' = "before" \/ ~released \/ cpc = "returned"
    BY <1>3 DEF RegisterStore, Drain, RegisterStep, RegisterCheck, RegisterTake, RegisterWake
  <2>3. (woken' > 0 <=> waker' # NULL) /\ (woken > 0 => woken' > 0)
    BY <1>3 DEF RegisterStore, Drain, RegisterStep, RegisterCheck, RegisterTake,
       RegisterWake, Schedule, TypeOK, NULL
  <2>. QED
    BY <2>1, <2>2, <2>3
<1>4. CASE ResumeCoro \/ ResumeStray
  <2>1. ~released
    BY <1>4 DEF ResumeCoro, ResumeStray, NobodyHasIt, TypeOK
  <2>2. CASE ResumeCoro
    BY <2>1, <2>2 DEF ResumeCoro
  <2>3. CASE ResumeStray
    <3>1. got'.data = STRAY
      BY <2>3 DEF ResumeStray
    <3>. QED
      BY <2>1, <2>3, <3>1 DEF ResumeStray
  <2>. QED
    BY <1>4, <2>2, <2>3
<1>5. CASE AwaitCheck \/ AwaitRead \/ BlockOnSee \/ BlockOnRead \/ BlockOn
           \/ OtherThrows \/ OtherCatches
  BY <1>5 DEF AwaitCheck, AwaitRead, BlockOnSee, BlockOnRead, BlockOn, OtherThrows, OtherCatches
<1>6. CASE Release
  BY <1>6 DEF Release
<1>7. CASE UNCHANGED vars
  BY <1>7 DEF vars
<1>. QED
  BY <1>1, <1>2, <1>3, <1>4, <1>5, <1>6, <1>7 DEF Next, SettlerStep, MainStep

-----------------------------------------------------------------------------
(* A rejection surfaces once.                                              *)

\* Nobody will change the outcome any more.
Fixed ==
  /\ is_completed
  /\ \A s \in Settlers : /\ spc[s] \notin {"flag", "write"}
                         /\ op[s] \in Finish => spc[s] # "start"

FinishPCs == {"finish_complete", "finish_test", "finish_load", "finish_wake", "finish_clear"}

\* Who is where: coro_finish has labels of its own, and one winner of the
\* compare-exchange at most is on its way to write.
PlaceInv ==
  /\ \A s \in Settlers :
       /\ spc[s] \in {"flag", "write", "steal", "wake"} => op[s] \notin Finish
       /\ spc[s] \in FinishPCs => op[s] \in Finish
       /\ spc[s] \in {"flag", "write"} => is_completed
  /\ \A s, u \in Settlers :
       spc[s] \in {"flag", "write"} /\ spc[u] \in {"flag", "write"} => s = u
  /\ rpc \in {"take", "wake"} => is_completed
  /\ OneFinisher

\* No cancel meets a coroutine that finishes.
Clean == Plain \/ \A s \in Settlers : op[s] # "cancel"

\* The wakeup came after the outcome was there, a coroutine's own as well.
Late == waker = "settler" \/ (waker = "self" /\ ~Plain)

\* What a late await has read is the outcome.
OutcomeInv ==
  /\ \A s \in Settlers :
       spc[s] \in {"steal", "wake"} \union (FinishPCs \ {"finish_complete"}) => Fixed
  /\ ~Plain /\ is_completed => Fixed
  /\ Late => Fixed
  /\ Late /\ cpc = "read" => got.rejected = is_rejected
  /\ Late /\ cpc = "returned" /\ got.data # STRAY =>
       got.rejected = is_rejected /\ got.data = result_data

\* A mark is that of an await that looked or of a cancel that won.
MarkInv ==
  was_awaited => \/ Looked
                 \/ \E s \in Settlers :
                      op[s] = "cancel" /\ (Plain => spc[s] = "write" \/ result_data = s)

SurfaceInv ==
  /\ HandledInv /\ PlaceInv /\ MarkInv
  /\ Plain => HandleInv /\ WinnerInv
  /\ Clean => OutcomeInv

LEMMA PlaceStep ==
  ASSUME TypeOK, PlaceInv, [Next]_vars
  PROVE  PlaceInv'
<1>. USE DEF PlaceInv, OneFinisher, FinishPCs, Finish, prom, setl, regs, coro, main
<1>0. op' = op
  BY OpConstant
<1>1. ASSUME NEW s \in Settlers, Complete(s)
      PROVE  PlaceInv'
  BY <1>0, <1>1 DEF Complete, Goto, TypeOK
<1>2. ASSUME NEW s \in Settlers, Flag(s) \/ Write(s)
      PROVE  PlaceInv'
  BY <1>0, <1>2 DEF Flag, Write, Goto, TypeOK
<1>3. ASSUME NEW s \in Settlers, Steal(s) \/ Wake(s)
      PROVE  PlaceInv'
  BY <1>0, <1>3 DEF Steal, Wake, Goto, TypeOK
<1>4. ASSUME NEW s \in Settlers, FinishWrite(s) \/ FinishComplete(s) \/ FinishTest(s)
      PROVE  PlaceInv'
  BY <1>0, <1>4 DEF FinishWrite, FinishComplete, FinishTest, Goto, TypeOK
<1>5. ASSUME NEW s \in Settlers, FinishLoad(s) \/ FinishWake(s) \/ FinishClear(s)
      PROVE  PlaceInv'
  BY <1>0, <1>5 DEF FinishLoad, FinishWake, FinishClear, Goto, TypeOK
<1>6. CASE RegisterStore \/ Drain \/ RegisterStep
  BY <1>6 DEF RegisterStore, Drain, RegisterStep, RegisterCheck, RegisterTake, RegisterWake
<1>7. CASE UNCHANGED vars \/ MainStep \/ OtherThrows \/ OtherCatches \/ BlockOn \/ Release
  BY <1>7 DEF vars, MainStep, ResumeCoro, ResumeStray, OtherThrows, OtherCatches, AwaitCheck,
     AwaitRead, BlockOnSee, BlockOnRead, BlockOn, Release
<1>. QED
  BY <1>1, <1>2, <1>3, <1>4, <1>5, <1>6, <1>7 DEF Next, SettlerStep

\* Once fixed, the outcome stays as it is.
LEMMA FixedStep ==
  ASSUME TypeOK, PlaceInv, Fixed, [Next]_vars
  PROVE  Fixed' /\ UNCHANGED <<is_rejected, result_data>>
<1>. USE DEF Fixed, Finish, prom, setl, regs, coro, main
<1>0. op' = op
  BY OpConstant
<1>1. ASSUME NEW s \in Settlers, Complete(s) \/ Flag(s) \/ Write(s) \/ Steal(s) \/ Wake(s)
      PROVE  Fixed' /\ UNCHANGED <<is_rejected, result_data>>
  BY <1>0, <1>1 DEF Complete, Flag, Write, Steal, Wake, Goto, TypeOK
<1>2. ASSUME NEW s \in Settlers,
             FinishWrite(s) \/ FinishComplete(s) \/ FinishTest(s) \/ FinishLoad(s)
               \/ FinishWake(s) \/ FinishClear(s)
      PROVE  Fixed' /\ UNCHANGED <<is_rejected, result_data>>
  BY <1>0, <1>2 DEF FinishWrite, FinishComplete, FinishTest, FinishLoad, FinishWake,
     FinishClear, Goto, TypeOK
<1>3. CASE RegisterStore \/ Drain \/ RegisterStep
  BY <1>3 DEF RegisterStore, Drain, RegisterStep, RegisterCheck, RegisterTake, RegisterWake
<1>4. CASE UNCHANGED vars \/ MainStep \/ OtherThrows \/ OtherCatches \/ BlockOn \/ Release
  BY <1>4 DEF vars, MainStep, ResumeCoro, ResumeStray, OtherThrows, OtherCatches, AwaitCheck,
     AwaitRead, BlockOnSee, BlockOnRead, BlockOn, Release
<1>. QED
  BY <1>1, <1>2, <1>3, <1>4 DEF Next, SettlerStep

\* A settler that comes to look for the waiter has fixed the outcome.
LEMMA SettledIsFixed ==
  ASSUME TypeOK, PlaceInv, Clean, NEW s \in Settlers, Write(s) \/ FinishComplete(s)
  PROVE  Fixed'
<1>0. op' = op
  BY DEF Write, FinishComplete
<1>1. CASE Write(s)
  <2>1. op[s] \notin Finish /\ is_completed' /\ spc' = [spc EXCEPT ![s] = "steal"]
    BY <1>1 DEF Write, PlaceInv, Goto
  <2>2. Plain
    BY <2>1 DEF Clean, Plain, PlaceInv, OneFinisher
  <2>. QED
    BY <1>0, <1>1, <2>1, <2>2 DEF Fixed, Plain, PlaceInv, Write, TypeOK
<1>2. CASE FinishComplete(s)
  <2>1. op[s] \in Finish /\ is_completed' /\ spc' = [spc EXCEPT ![s] = "finish_test"]
    BY <1>2 DEF FinishComplete, PlaceInv, Goto, FinishPCs
  <2>2. \A u \in Settlers : u = s
    BY <2>1 DEF Clean, Plain, PlaceInv, OneFinisher
  <2>. QED
    BY <2>1, <2>2 DEF Fixed, TypeOK
<1>. QED
  BY <1>1, <1>2

LEMMA MarkStep ==
  ASSUME SurfaceInv, [Next]_vars
  PROVE  MarkInv'
<1>. USE DEF SurfaceInv, MarkInv, Looked, prom, setl, regs, coro, main
<1>0. op' = op /\ TypeOK /\ (Plain' <=> Plain)
  BY OpConstant DEF HandledInv, Plain
<1>1. ASSUME NEW s \in Settlers, Flag(s)
      PROVE  MarkInv'
  <2>1. spc'[s] = "write" /\ \A u \in Settlers \ {s} : spc'[u] = spc[u]
    BY <1>0, <1>1 DEF Flag, Goto, TypeOK
  <2>2. UNCHANGED <<cpc, got, result_data>> /\ was_awaited' = (was_awaited \/ op[s] = "cancel")
    BY <1>1 DEF Flag
  <2>3. spc[s] # "write"
    BY <1>1 DEF Flag
  <2>. QED
    BY <1>0, <2>1, <2>2, <2>3
<1>2. ASSUME NEW s \in Settlers, Write(s)
      PROVE  MarkInv'
  <2>1. Plain => result_data = NULL /\ \A u \in Settlers \ {s} : spc[u] # "write"
    BY <1>2 DEF WinnerInv, OneWinner, Write
  <2>2. result_data' = s /\ UNCHANGED <<cpc, got, was_awaited>>
    BY <1>2 DEF Write
  <2>. QED
    BY <1>0, <2>1, <2>2, SettlersAssumption
<1>3. ASSUME NEW s \in Settlers, Complete(s) \/ Steal(s) \/ Wake(s)
      PROVE  MarkInv'
  <2>1. spc[s] # "write" /\ \A u \in Settlers \ {s} : spc'[u] = spc[u]
    BY <1>0, <1>3 DEF Complete, Steal, Wake, Goto, TypeOK
  <2>2. UNCHANGED <<cpc, got, was_awaited, result_data>>
    BY <1>3 DEF Complete, Steal, Wake
  <2>. QED
    BY <1>0, <2>1, <2>2
<1>4. ASSUME NEW s \in Settlers,
             FinishWrite(s) \/ FinishComplete(s) \/ FinishTest(s) \/ FinishLoad(s)
               \/ FinishWake(s) \/ FinishClear(s)
      PROVE  MarkInv'
  <2>1. ~Plain
    BY <1>4 DEF Plain, PlaceInv, FinishPCs, FinishWrite, FinishComplete, FinishTest,
       FinishLoad, FinishWake, FinishClear
  <2>2. UNCHANGED <<cpc, got, was_awaited>>
    BY <1>4 DEF FinishWrite, FinishComplete, FinishTest, FinishLoad, FinishWake, FinishClear
  <2>. QED
    BY <1>0, <2>1, <2>2
<1>5. CASE RegisterStore \/ Drain \/ RegisterStep
  <2>1. UNCHANGED <<cpc, got, was_awaited, result_data, spc>>
    BY <1>5 DEF RegisterStore, Drain, RegisterStep, RegisterCheck, RegisterTake, RegisterWake
  <2>. QED
    BY <1>0, <2>1
<1>6. CASE ResumeCoro \/ AwaitCheck
  BY <1>6 DEF ResumeCoro, AwaitCheck
<1>7. CASE ResumeStray
  <2>1. ~Looked
    BY <1>7 DEF ResumeStray
  <2>2. UNCHANGED <<was_awaited, result_data, spc>>
    BY <1>7 DEF ResumeStray
  <2>. QED
    BY <1>0, <2>1, <2>2
<1>8. CASE AwaitRead
  <2>1. got'.data = result_data /\ cpc' = "returned"
    BY <1>0, <1>8 DEF AwaitRead, TypeOK, Delivered
  <2>2. result_data # STRAY
    BY <1>0, SettlersAssumption DEF TypeOK, NULL, STRAY
  <2>. QED
    BY <2>1, <2>2
<1>9. CASE UNCHANGED vars \/ OtherThrows \/ OtherCatches \/ BlockOn \/ BlockOnSee \/ BlockOnRead \/ Release
  <2>1. UNCHANGED <<cpc, got, was_awaited, result_data, spc>>
    BY <1>9 DEF vars, OtherThrows, OtherCatches, BlockOn, BlockOnSee, BlockOnRead, Release
  <2>. QED
    BY <1>0, <2>1
<1>. QED
  BY <1>1, <1>2, <1>3, <1>4, <1>5, <1>6, <1>7, <1>8, <1>9 DEF Next, SettlerStep, MainStep

\* A wakeup is late from the start or never.
LEMMA LateStep ==
  ASSUME SurfaceInv, Clean, [Next]_vars, Late', ~Late
  PROVE  cpc = "suspended" /\ Fixed
<1>. USE DEF SurfaceInv, Late, prom, setl, regs, coro, main
<1>0. op' = op /\ TypeOK /\ OutcomeInv /\ (Plain' <=> Plain)
  BY OpConstant DEF HandledInv, Plain
<1>1. waker' # waker
  BY <1>0
<1>2. CASE RegisterWake
  <2>1. is_completed /\ waker' = "self" /\ ~Plain
    BY <1>0, <1>1, <1>2 DEF RegisterWake, Schedule, PlaceInv
  <2>2. waker = NULL
    BY <1>0, <2>1 DEF TypeOK
  <2>. QED
    BY <1>0, <2>1, <2>2 DEF OutcomeInv, HandledInv, MarkedInv
<1>3. ASSUME NEW s \in Settlers, Wake(s) \/ FinishWake(s)
      PROVE  cpc = "suspended" /\ Fixed
  <2>1. Fixed
    BY <1>0, <1>3 DEF OutcomeInv, Wake, FinishWake, FinishPCs
  <2>2. stolen[s] = WAITER
    BY <1>0, <1>1, <1>3 DEF Wake, FinishWake, Schedule, TypeOK
  <2>3. CASE Plain
    <3>1. woken = 0
      BY <2>2, <2>3 DEF HandleInv, OneHandle
    <3>. QED
      BY <2>1, <3>1 DEF HandledInv, MarkedInv
  <2>4. CASE ~Plain
    <3>1. waker = NULL
      BY <1>0, <2>4 DEF TypeOK
    <3>. QED
      BY <1>0, <2>1, <3>1 DEF HandledInv, MarkedInv, TypeOK
  <2>. QED
    BY <2>3, <2>4
<1>4. CASE RegisterStore \/ Drain \/ RegisterCheck \/ RegisterTake
  BY <1>1, <1>4 DEF RegisterStore, Drain, RegisterCheck, RegisterTake
<1>5. ASSUME NEW s \in Settlers,
             Complete(s) \/ Flag(s) \/ Write(s) \/ Steal(s) \/ FinishWrite(s)
               \/ FinishComplete(s) \/ FinishTest(s) \/ FinishLoad(s) \/ FinishClear(s)
      PROVE  FALSE
  BY <1>1, <1>5 DEF Complete, Flag, Write, Steal, FinishWrite, FinishComplete, FinishTest,
     FinishLoad, FinishClear
<1>6. CASE UNCHANGED vars \/ MainStep \/ OtherThrows \/ OtherCatches \/ BlockOn \/ Release
  BY <1>1, <1>6 DEF vars, MainStep, ResumeCoro, ResumeStray, OtherThrows, OtherCatches,
     AwaitCheck, AwaitRead, BlockOnSee, BlockOnRead, BlockOn, Release
<1>. QED
  BY <1>2, <1>3, <1>4, <1>5, <1>6 DEF Next, SettlerStep, RegisterStep

\* Where a settler that looks for the waiter came from, and who completes.
LEMMA LookStep ==
  ASSUME SurfaceInv, Clean, ~Fixed, [Next]_vars
  PROVE  /\ \A s \in Settlers :
              spc'[s] \in {"steal", "wake"} \union (FinishPCs \ {"finish_complete"}) => Fixed'
         /\ ~Plain /\ is_completed' => Fixed'
<1>. USE DEF SurfaceInv, FinishPCs, prom, setl, regs, coro, main
<1>. DEFINE looking == {"steal", "wake"} \union (FinishPCs \ {"finish_complete"})
            Goal == /\ \A s \in Settlers : spc'[s] \in looking => Fixed'
                    /\ ~Plain /\ is_completed' => Fixed'
<1>0. op' = op /\ TypeOK /\ (\A s \in Settlers : spc[s] \notin looking) /\ (~Plain => ~is_completed)
  BY OpConstant DEF HandledInv, OutcomeInv
<1>1. ASSUME NEW s \in Settlers, Write(s) \/ FinishComplete(s)
      PROVE  Goal
  BY <1>0, <1>1, SettledIsFixed
<1>2. ASSUME NEW s \in Settlers, Complete(s)
      PROVE  Goal
  <2>1. op[s] \notin Finish
    BY <1>2 DEF Complete
  <2>2. Plain
    BY <2>1 DEF Clean, Plain, PlaceInv, OneFinisher
  <2>3. \A u \in Settlers : spc'[u] \notin looking
    BY <1>0, <1>2 DEF Complete, Goto, TypeOK
  <2>. QED
    BY <2>2, <2>3
<1>3. ASSUME NEW s \in Settlers, Flag(s) \/ FinishWrite(s)
      PROVE  Goal
  <2>1. \A u \in Settlers : spc'[u] \notin looking
    BY <1>0, <1>3 DEF Flag, FinishWrite, Goto, TypeOK
  <2>2. is_completed' = is_completed
    BY <1>3 DEF Flag, FinishWrite
  <2>. QED
    BY <1>0, <2>1, <2>2
<1>4. ASSUME NEW s \in Settlers,
             Steal(s) \/ Wake(s) \/ FinishTest(s) \/ FinishLoad(s) \/ FinishWake(s) \/ FinishClear(s)
      PROVE  FALSE
  BY <1>0, <1>4 DEF Steal, Wake, FinishTest, FinishLoad, FinishWake, FinishClear
<1>5. ASSUME RegisterStore \/ Drain \/ RegisterStep
      PROVE  Goal
  <2>1. UNCHANGED <<spc, is_completed>>
    BY <1>5 DEF RegisterStore, Drain, RegisterStep, RegisterCheck, RegisterTake, RegisterWake
  <2>. QED
    BY <1>0, <2>1
<1>6. ASSUME UNCHANGED vars \/ MainStep \/ OtherThrows \/ OtherCatches \/ BlockOn \/ Release
      PROVE  Goal
  <2>1. UNCHANGED <<spc, is_completed>>
    BY <1>6 DEF vars, MainStep, ResumeCoro, ResumeStray, OtherThrows, OtherCatches,
       AwaitCheck, AwaitRead, BlockOnSee, BlockOnRead, BlockOn, Release
  <2>. QED
    BY <1>0, <2>1
<1>. HIDE DEF Goal
<1>7. Goal
  BY <1>1, <1>2, <1>3, <1>4, <1>5, <1>6 DEF Next, SettlerStep
<1>. QED
  BY <1>7 DEF Goal

LEMMA OutcomeStep ==
  ASSUME SurfaceInv, Clean, [Next]_vars
  PROVE  OutcomeInv'
<1>. USE DEF SurfaceInv
<1>0. TypeOK /\ OutcomeInv /\ op' = op /\ (Plain' <=> Plain)
  BY OpConstant DEF HandledInv, Plain
<1>1. CASE ~Fixed
  <2>1. ~Late /\ ~Late'
    BY <1>0, <1>1, LateStep DEF OutcomeInv
  <2>. QED
    BY <1>0, <1>1, <2>1, LookStep DEF OutcomeInv
<1>2. CASE Fixed
  <2>1. Fixed' /\ UNCHANGED <<is_rejected, result_data>>
    BY <1>0, <1>2, FixedStep
  <2>2. ASSUME Late' PROVE Late \/ cpc = "suspended"
    BY <2>2, LateStep
  <2>3. CASE AwaitCheck
    <3>1. cpc' = "read" /\ got'.rejected = is_rejected
      BY <1>0, <2>3 DEF AwaitCheck, TypeOK, Delivered
    <3>. QED
      BY <2>1, <3>1 DEF OutcomeInv
  <2>4. CASE AwaitRead
    <3>1. cpc = "read" /\ cpc' = "returned" /\ got'.rejected = got.rejected /\ got'.data = result_data
      BY <1>0, <2>4 DEF AwaitRead, TypeOK, Delivered
    <3>. QED
      BY <1>0, <2>1, <2>2, <3>1 DEF OutcomeInv
  <2>5. CASE ResumeCoro \/ ResumeStray
    <3>1. cpc' = "check" \/ (cpc' = "returned" /\ got'.data = STRAY)
      BY <2>5 DEF ResumeCoro, ResumeStray, HandledInv, MarkedInv
    <3>. QED
      BY <2>1, <3>1 DEF OutcomeInv
  <2>6. CASE UNCHANGED <<cpc, got>>
    BY <1>0, <2>1, <2>2, <2>6 DEF OutcomeInv
  <2>7. ASSUME NEW s \in Settlers, SettlerStep(s)
        PROVE  UNCHANGED <<cpc, got>>
    BY <2>7 DEF SettlerStep, Complete, Flag, Write, Steal, Wake, FinishWrite, FinishComplete,
       FinishTest, FinishLoad, FinishWake, FinishClear, coro
  <2>8. CASE UNCHANGED vars \/ RegisterStore \/ Drain \/ RegisterStep \/ OtherThrows \/ OtherCatches
             \/ BlockOn \/ BlockOnSee \/ BlockOnRead \/ Release
    BY <2>6, <2>8 DEF vars, RegisterStore, Drain, RegisterStep, RegisterCheck, RegisterTake,
       RegisterWake, OtherThrows, OtherCatches, BlockOn, BlockOnSee, BlockOnRead, Release, coro
  <2>. QED
    BY <2>3, <2>4, <2>5, <2>6, <2>7, <2>8 DEF Next, MainStep
<1>. QED
  BY <1>1, <1>2

LEMMA SurfaceInvariance == Spec => []SurfaceInv
<1>1. Init => SurfaceInv
  <2>. SUFFICES ASSUME Init
                PROVE  SurfaceInv
    OBVIOUS
  <2>1. HandledInv
    <3>1. ~got.rejected /\ ~Looked
      BY DEF Init, Nothing, Looked
    <3>2. MarkedInv
      BY <3>1 DEF Init, MarkedInv
    <3>. QED
      BY <3>2, InitType DEF Init, HandledInv, NobodyHasIt
  <2>2. PlaceInv /\ MarkInv
    BY DEF Init, PlaceInv, FinishPCs, MarkInv
  <2>3. Plain => HandleInv /\ WinnerInv
    BY InitType DEF Init, HandleInv, WinnerInv, NoFinish, Plain, OneHandle, OneWinner,
       NULL, WAITER
  <2>4. OutcomeInv
    BY DEF Init, OutcomeInv, Late, FinishPCs, NULL
  <2>. QED
    BY <2>1, <2>2, <2>3, <2>4 DEF SurfaceInv
<1>2. SurfaceInv /\ [Next]_vars => SurfaceInv'
  <2>. SUFFICES ASSUME SurfaceInv, [Next]_vars
                PROVE  SurfaceInv'
    OBVIOUS
  <2>1. HandledInv'
    BY TypeStep, NobodyHasItStep, MarkedStep DEF SurfaceInv, HandledInv
  <2>2. PlaceInv' /\ MarkInv'
    BY PlaceStep, MarkStep DEF SurfaceInv, HandledInv
  <2>3. (Plain' <=> Plain) /\ (Clean' <=> Clean)
    BY OpConstant DEF Plain, Clean
  <2>4. Plain => HandleInv' /\ WinnerInv'
    BY HandleStep, WinnerStep DEF SurfaceInv
  <2>5. Clean => OutcomeInv'
    BY OutcomeStep
  <2>. QED
    BY <2>1, <2>2, <2>3, <2>4, <2>5 DEF SurfaceInv
<1>. QED
  BY <1>1, <1>2, PTL DEF Spec

\* For every set of settlers and every memory order: a rejected promise that is
\* released was either reported by its destructor (arc.c) or thrown in the
\* coroutine that awaited it, and not both, with the three exceptions of
\* RejectionSurfaces.
THEOREM RejectionNotSwallowed == Spec => []RejectionSurfaces
<1>1. SurfaceInv => RejectionSurfaces
  <2>. SUFFICES ASSUME SurfaceInv, released, is_rejected
                PROVE  /\ panicked => ~Seen
                       /\ ~panicked => Seen \/ waker = "self" \/ Cancelled
    BY DEF RejectionSurfaces
  <2>. USE DEF SurfaceInv
  <2>1. TypeOK /\ MarkedInv /\ NobodyHasIt /\ result_data # STRAY
    BY SettlersAssumption DEF HandledInv, TypeOK, NULL, STRAY
  <2>2. ASSUME panicked PROVE ~Seen
    <3>1. ~Looked
      BY <2>1, <2>2 DEF MarkedInv
    <3>. QED
      BY <2>1, <3>1 DEF Seen, Looked, MarkedInv, TypeOK
  <2>3. ASSUME ~panicked, waker # "self", ~Cancelled PROVE Seen
    <3>1. was_awaited /\ \A s \in Settlers : spc[s] = "done"
      BY <2>1, <2>3 DEF MarkedInv
    <3>2. Looked
      BY <2>3, <3>1 DEF MarkInv, Cancelled
    <3>3. cpc = "returned" /\ got.data # STRAY /\ waker = "settler"
      BY <2>1, <2>3, <3>2 DEF Looked, MarkedInv, NobodyHasIt, TypeOK
    <3>4. Clean
      BY <2>3 DEF Clean, Cancelled
    <3>. QED
      BY <3>3, <3>4 DEF OutcomeInv, Late, Seen
  <2>. QED
    BY <2>2, <2>3
<1>. QED
  BY <1>1, SurfaceInvariance, PTL
=============================================================================
