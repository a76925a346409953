------------------------------ MODULE Channel ------------------------------
(***************************************************************************)
(* The async channel of the Moksha runtime (runtime/src/core/channel.c):   *)
(* a ring buffer guarded by a spin lock, with a stack of waiting receivers *)
(* and a stack of waiting senders.  Every call makes a promise, enters the *)
(* critical section, and settles promises partly inside it and partly      *)
(* after the lock is released.                                             *)
(*                                                                         *)
(* A promise is named by the number of the call that made it, and the      *)
(* value a send carries by its promise: values are opaque pointers to the  *)
(* runtime, and giving each send its own value is what lets the properties *)
(* see a value lost, duplicated or delivered twice.                        *)
(***************************************************************************)
EXTENDS Naturals, Sequences, FiniteSets

CONSTANTS
  Threads,    \* the threads of the program that call the channel
  Capacity,   \* the capacity given to Channel_new
  MaxCalls    \* bound: how many calls a behaviour makes, closes included

ASSUME CapacityAssumption == Capacity \in Nat \ {0}
ASSUME MaxCallsAssumption == MaxCalls \in Nat

NULL  == 0                \* the null pointer: no promise, no value
Calls == 1..MaxCalls      \* promises, and the values of the sends
Slots == 0..(Capacity - 1)

VARIABLES
  spin_lock,          \* chan->spin_lock: 0 or 1
  is_closed,          \* chan->is_closed
  buffer,             \* chan->buffer, a function from Slots
  head, tail, count,  \* chan->head, chan->tail, chan->count
  waiting_receivers,  \* chan->waiting_receivers: promises, newest first
  waiting_senders,    \* chan->waiting_senders: promises, newest first
  made,               \* how many calls were made so far
  status,             \* InternalPromise, abstracted: see Statuses
  result_data,        \* InternalPromise.result_data
  pc,                 \* what each thread is doing
  mine,               \* the promise of the call the thread is in
  todo,               \* settlements a thread still owes after its unlock
  dropped             \* history: <<promise, value>> the promise refused

chan  == <<is_closed, buffer, head, tail, count,
           waiting_receivers, waiting_senders>>
proms == <<status, result_data, dropped>>
vars  == <<spin_lock, chan, made, proms, pc, mine, todo>>

Statuses == {"none", "pending", "resolved", "rejected", "cancelled"}

Spinning == {"recv", "send", "close"}
InCS     == {"recv_cs", "send_cs", "close_cs"}
PCs      == {"idle", "settle"} \union Spinning \union InCS

\* What a thread still has to do with a promise after it released the lock.
Settlement  == [handle : Calls, to : {"resolved", "rejected"},
                data : Calls \union {NULL}]
Resolve(p, data) == [handle |-> p, to |-> "resolved", data |-> data]
Reject(p)        == [handle |-> p, to |-> "rejected", data |-> NULL]

(***************************************************************************)
(* moksha_rt_resolve_promise and moksha_rt_reject_promise as the channel   *)
(* uses them: the first settlement of a promise wins the compare-exchange  *)
(* on is_completed, a later one returns without effect, and then the value *)
(* it carried has no other owner.  Module Promise opens them up.           *)
(***************************************************************************)
Settle(s) ==
  IF status[s.handle] = "pending"
  THEN /\ status' = [status EXCEPT ![s.handle] = s.to]
       /\ result_data' = [result_data EXCEPT ![s.handle] = s.data]
       /\ UNCHANGED dropped
  ELSE /\ dropped' = dropped \union ({<<s.handle, s.data>>} \ {<<s.handle, NULL>>})
       /\ UNCHANGED <<status, result_data>>

Init ==
  /\ spin_lock = 0
  /\ is_closed = FALSE
  /\ buffer = [i \in Slots |-> NULL]
  /\ head = 0 /\ tail = 0 /\ count = 0
  /\ waiting_receivers = <<>>
  /\ waiting_senders = <<>>
  /\ made = 0
  /\ status = [p \in Calls |-> "none"]
  /\ result_data = [p \in Calls |-> NULL]
  /\ pc = [t \in Threads |-> "idle"]
  /\ mine = [t \in Threads |-> NULL]
  /\ todo = [t \in Threads |-> <<>>]
  /\ dropped = {}

-----------------------------------------------------------------------------
(* Entering: make the promise, then spin for the lock.                     *)

\* moksha_rt_make_unresolved_promise, the first statement of recv and send.
Begin(t, op) ==
  /\ pc[t] = "idle"
  /\ made < MaxCalls
  /\ made' = made + 1
  /\ status' = [status EXCEPT ![made + 1] = "pending"]
  /\ mine' = [mine EXCEPT ![t] = made + 1]
  /\ pc' = [pc EXCEPT ![t] = op]
  /\ UNCHANGED <<spin_lock, chan, result_data, dropped, todo>>

Channel_recv(t) == Begin(t, "recv")
Channel_send(t) == Begin(t, "send")

Channel_close(t) ==
  /\ pc[t] = "idle"
  /\ made < MaxCalls
  /\ made' = made + 1
  /\ mine' = [mine EXCEPT ![t] = made + 1]
  /\ pc' = [pc EXCEPT ![t] = "close"]
  /\ UNCHANGED <<spin_lock, chan, proms, todo>>

\* The exchange that returns 0 ends the spin; close then sets is_closed.
SpinAcquire(t) ==
  /\ pc[t] \in Spinning
  /\ spin_lock = 0
  /\ spin_lock' = 1
  /\ pc' = [pc EXCEPT ![t] = CASE @ = "recv"  -> "recv_cs"
                               [] @ = "send"  -> "send_cs"
                               [] @ = "close" -> "close_cs"]
  /\ is_closed' = (is_closed \/ pc[t] = "close")
  /\ UNCHANGED <<buffer, head, tail, count, waiting_receivers,
                 waiting_senders, made, proms, mine, todo>>

UnlockForgotten(t, settlements) ==
  /\ pc' = [pc EXCEPT ![t] = IF settlements = <<>> THEN "idle" ELSE "settle"]
  /\ todo' = [todo EXCEPT ![t] = settlements]
  /\ UNCHANGED <<spin_lock, made, mine>>

\* The release store, with the settlements left for after it.
Unlock(t, settlements) ==
  /\ spin_lock' = 0
  /\ pc' = [pc EXCEPT ![t] = IF settlements = <<>> THEN "idle" ELSE "settle"]
  /\ todo' = [todo EXCEPT ![t] = settlements]
  /\ UNCHANGED <<made, mine>>

Push(i) == (i + 1) % Capacity

\* chan->count < chan->capacity: the buffer takes one more value.
HasRoomOffByOne == count + 1 < Capacity
HasRoom == count < Capacity

\* chan->waiting_receivers = recv->next, for the receiver about to be woken.
PopReceiver == waiting_receivers' = Tail(waiting_receivers)

-----------------------------------------------------------------------------
(* Channel_recv inside the critical section.                               *)

\* The newest waiting sender fills the slot that a receive freed; its promise
\* is resolved while the lock is still held.
RefillKeepsSender ==
  /\ buffer' = [buffer EXCEPT ![tail] = Head(waiting_senders)]
  /\ tail' = Push(tail)
  /\ UNCHANGED <<count, waiting_senders>>
  /\ Settle(Resolve(Head(waiting_senders), NULL))
Refill ==
  /\ waiting_senders' = Tail(waiting_senders)
  /\ buffer' = [buffer EXCEPT ![tail] = Head(waiting_senders)]
  /\ tail' = Push(tail)
  /\ count' = (count - 1) + 1
  /\ Settle(Resolve(Head(waiting_senders), NULL))

\* A value is buffered: take it, and refill the slot if a sender waits.
RecvBuffered(t) ==
  /\ pc[t] = "recv_cs"
  /\ count > 0
  /\ head' = Push(head)
  /\ IF waiting_senders # <<>>
     THEN Refill
     ELSE /\ count' = count - 1
          /\ UNCHANGED <<buffer, tail, waiting_senders, proms>>
  /\ Unlock(t, <<Resolve(mine[t], buffer[head])>>)
  /\ UNCHANGED <<is_closed, waiting_receivers>>

RecvClosed(t) ==
  /\ pc[t] = "recv_cs"
  /\ count = 0 /\ is_closed
  /\ Unlock(t, <<Reject(mine[t])>>)
  /\ UNCHANGED <<chan, proms>>

RecvWait(t) ==
  /\ pc[t] = "recv_cs"
  /\ count = 0 /\ ~is_closed
  /\ waiting_receivers' = <<mine[t]>> \o waiting_receivers
  /\ Unlock(t, <<>>)
  /\ UNCHANGED <<is_closed, buffer, head, tail, count, waiting_senders, proms>>

-----------------------------------------------------------------------------
(* Channel_send inside the critical section.                               *)

SendClosed(t) ==
  /\ pc[t] = "send_cs"
  /\ is_closed
  /\ Unlock(t, <<Reject(mine[t])>>)
  /\ UNCHANGED <<chan, proms>>

\* The newest waiting receiver gets the value, after the unlock.
SendHandoff(t) ==
  /\ pc[t] = "send_cs"
  /\ ~is_closed
  /\ waiting_receivers # <<>>
  /\ PopReceiver
  /\ Unlock(t, <<Resolve(Head(waiting_receivers), mine[t]),
                 Resolve(mine[t], NULL)>>)
  /\ UNCHANGED <<is_closed, buffer, head, tail, count, waiting_senders, proms>>

SendBuffered(t) ==
  /\ pc[t] = "send_cs"
  /\ ~is_closed
  /\ waiting_receivers = <<>>
  /\ HasRoom
  /\ buffer' = [buffer EXCEPT ![tail] = mine[t]]
  /\ tail' = Push(tail)
  /\ count' = count + 1
  /\ Unlock(t, <<Resolve(mine[t], NULL)>>)
  /\ UNCHANGED <<is_closed, head, waiting_receivers, waiting_senders, proms>>

SendWait(t) ==
  /\ pc[t] = "send_cs"
  /\ ~is_closed
  /\ waiting_receivers = <<>>
  /\ ~HasRoom
  /\ waiting_senders' = <<mine[t]>> \o waiting_senders
  /\ Unlock(t, <<>>)
  /\ UNCHANGED <<is_closed, buffer, head, tail, count, waiting_receivers, proms>>

-----------------------------------------------------------------------------
(* Channel_close inside the critical section: one loop iteration a step.   *)

CloseReceiver(t) ==
  /\ pc[t] = "close_cs"
  /\ waiting_receivers # <<>>
  /\ PopReceiver
  /\ Settle(Reject(Head(waiting_receivers)))
  /\ UNCHANGED <<spin_lock, is_closed, buffer, head, tail, count,
                 waiting_senders, made, pc, mine, todo>>

CloseSender(t) ==
  /\ pc[t] = "close_cs"
  /\ waiting_receivers = <<>>
  /\ waiting_senders # <<>>
  /\ waiting_senders' = Tail(waiting_senders)
  /\ Settle(Reject(Head(waiting_senders)))
  /\ UNCHANGED <<spin_lock, is_closed, buffer, head, tail, count,
                 waiting_receivers, made, pc, mine, todo>>

CloseDoneEarly(t) ==
  /\ pc[t] = "close_cs"
  /\ waiting_receivers = <<>>
  /\ Unlock(t, <<>>)
  /\ UNCHANGED <<chan, proms>>

CloseDone(t) ==
  /\ pc[t] = "close_cs"
  /\ waiting_receivers = <<>>
  /\ waiting_senders = <<>>
  /\ Unlock(t, <<>>)
  /\ UNCHANGED <<chan, proms>>

-----------------------------------------------------------------------------
(* After the unlock, and the rest of the program.                          *)

\* The promises that recv and send settle once the lock is free again.
SettleNext(t) ==
  /\ pc[t] = "settle"
  /\ Settle(Head(todo[t]))
  /\ todo' = [todo EXCEPT ![t] = Tail(@)]
  /\ pc' = [pc EXCEPT ![t] = IF Len(todo[t]) = 1 THEN "idle" ELSE "settle"]
  /\ UNCHANGED <<spin_lock, chan, made, mine>>

\* moksha_builtin_cancel on a promise that a finished call returned, by the
\* user or by select, which cancels the loser of a race.
Cancel(p) ==
  /\ status[p] = "pending"
  /\ \A t \in Threads : mine[t] = p => pc[t] = "idle"
  /\ status' = [status EXCEPT ![p] = "cancelled"]
  /\ UNCHANGED <<spin_lock, chan, made, result_data, dropped, pc, mine, todo>>

Step(t) ==
  \/ SpinAcquire(t)
  \/ RecvBuffered(t) \/ RecvClosed(t) \/ RecvWait(t)
  \/ SendClosed(t) \/ SendHandoff(t) \/ SendBuffered(t) \/ SendWait(t)
  \/ CloseReceiver(t) \/ CloseSender(t) \/ CloseDone(t)
  \/ SettleNext(t)

Next ==
  \/ \E t \in Threads : Channel_recv(t) \/ Channel_send(t) \/ Channel_close(t)
  \/ \E t \in Threads : Step(t)
  \/ \E p \in Calls : Cancel(p)

\* A thread inside a call keeps running (preemptive OS threads); nobody is
\* obliged to call.  MaxCalls bounds the contention for the spin lock.
Fairness == \A t \in Threads : WF_vars(Step(t))

Spec == Init /\ [][Next]_vars /\ Fairness
-----------------------------------------------------------------------------
(* Properties.                                                             *)

\* The types of the ring, the wait stacks, the promises and the calls.
TypeOK ==
  /\ spin_lock \in {0, 1}
  /\ is_closed \in BOOLEAN
  /\ buffer \in [Slots -> Calls \union {NULL}]
  /\ head \in Slots /\ tail \in Slots /\ count \in 0..Capacity
  /\ waiting_receivers \in Seq(Calls)
  /\ waiting_senders \in Seq(Calls)
  /\ made \in 0..MaxCalls
  /\ status \in [Calls -> Statuses]
  /\ result_data \in [Calls -> Calls \union {NULL}]
  /\ pc \in [Threads -> PCs]
  /\ mine \in [Threads -> Calls \union {NULL}]
  /\ todo \in [Threads -> Seq(Settlement)]
  /\ dropped \subseteq (Calls \X Calls)

\* The slot of the i-th buffered value, oldest first, i from 0.
SlotOf(i) == (head + i) % Capacity

\* The ring stays a ring: tail is count slots after head whatever mix of
\* sends, receives and refills moved the two (channel.c lines 53-65, 107-109).
RingInv ==
  /\ tail = SlotOf(count)
  /\ \A i \in 0..(count - 1) : buffer[SlotOf(i)] # NULL

\* Nobody waits for what is there: receivers wait only while the buffer is
\* empty, senders only while it is full, so a receiver and a sender never
\* wait for each other (capacity at least one).
NoStarvedPair ==
  /\ waiting_receivers # <<>> => count = 0
  /\ waiting_senders # <<>> => count = Capacity

\* Once a close has left its critical section both wait stacks are empty,
\* and stay empty: later calls are rejected or drain the buffer.
ClosedLeavesNobody ==
  (is_closed /\ \A t \in Threads : pc[t] # "close_cs")
     => waiting_receivers = <<>> /\ waiting_senders = <<>>

\* Where the value of send v is: a buffer slot, a wait node, a settlement on
\* its way, a receiver's promise, or a promise that refused it.
Places(v) ==
  {<<"buffer", i>> : i \in {j \in 0..(count - 1) : buffer[SlotOf(j)] = v}}
  \union {<<"waiting", i>> :
            i \in {j \in DOMAIN waiting_senders : waiting_senders[j] = v}}
  \union (UNION {{<<"todo", t, i>> :
            i \in {j \in DOMAIN todo[t] : todo[t][j].data = v}} : t \in Threads})
  \union {<<"result", p>> :
            p \in {c \in Calls : status[c] = "resolved" /\ result_data[c] = v}}
  \union {<<"dropped", d[1]>> : d \in {e \in dropped : e[2] = v}}

\* A send that succeeded (only a send resolves with a null result).
Accepted(v) == status[v] = "resolved" /\ result_data[v] = NULL

\* A value is never in two places, an accepted value is always in one, and a
\* rejected send leaves its value nowhere: sends and receives interleaved
\* over both wait stacks neither lose nor duplicate a value.  A value is lost
\* only to a receive that was cancelled while it waited (its wait node stays
\* on the stack), and such a receive swallows one at most.
ExactlyOnce ==
  /\ \A v \in Calls :
       /\ Cardinality(Places(v)) <= 1
       /\ Accepted(v) => Places(v) # {}
       /\ status[v] = "rejected" => Places(v) = {}
  /\ \A d, e \in dropped :
       /\ status[d[1]] = "cancelled"
       /\ d[1] = e[1] => d = e

\* The contents of the ring, oldest first.
Contents == [i \in 1..count |-> buffer[SlotOf(i - 1)]]

Bounded == INSTANCE ChannelAbs
             WITH q <- Contents,
                  receivers <- {waiting_receivers[i] : i \in DOMAIN waiting_receivers},
                  senders <- {waiting_senders[i] : i \in DOMAIN waiting_senders},
                  closed <- is_closed

\* Ring, wait stacks and lock together implement a bounded FIFO queue with
\* sets of waiters: values leave the buffer in the order they entered it,
\* and a waiter leaves its set only to be served or, after a close, refused.
ImplementsBounded == Bounded!Spec

\* A call that entered the channel returns.
CallsReturn == \A t \in Threads : pc[t] # "idle" ~> pc[t] = "idle"
=============================================================================
