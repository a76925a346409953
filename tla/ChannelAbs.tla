----------------------------- MODULE ChannelAbs -----------------------------
(***************************************************************************)
(* What a channel promises: a bounded FIFO queue, with a set of receivers  *)
(* that wait only while it is empty and a set of senders that wait only    *)
(* while it is full.  Which waiter is served is left open.                 *)
(***************************************************************************)
EXTENDS Naturals, Sequences

CONSTANTS
  Capacity,   \* how many values the queue holds
  Calls       \* calls, and the values of the sends

VARIABLES
  q,          \* the queued values, oldest first
  receivers,  \* receives that wait for a value
  senders,    \* sends that wait for room; each stands for its value
  closed

vars == <<q, receivers, senders, closed>>

Init ==
  /\ q = <<>>
  /\ receivers = {}
  /\ senders = {}
  /\ closed = FALSE

Put(v) ==
  /\ ~closed /\ receivers = {} /\ Len(q) < Capacity
  /\ q' = Append(q, v)
  /\ UNCHANGED <<receivers, senders, closed>>

\* A send meets a waiting receiver: the value does not touch the queue.
Hand(r) ==
  /\ ~closed /\ r \in receivers
  /\ receivers' = receivers \ {r}
  /\ UNCHANGED <<q, senders, closed>>

Take ==
  /\ q # <<>> /\ senders = {}
  /\ q' = Tail(q)
  /\ UNCHANGED <<receivers, senders, closed>>

\* A receive frees a slot and a waiting sender fills it in the same step.
TakeRefill(s) ==
  /\ q # <<>> /\ s \in senders
  /\ q' = Append(Tail(q), s)
  /\ senders' = senders \ {s}
  /\ UNCHANGED <<receivers, closed>>

WaitToReceive(r) ==
  /\ ~closed /\ q = <<>> /\ r \notin receivers
  /\ receivers' = receivers \union {r}
  /\ UNCHANGED <<q, senders, closed>>

WaitToSend(s) ==
  /\ ~closed /\ receivers = {} /\ Len(q) = Capacity /\ s \notin senders
  /\ senders' = senders \union {s}
  /\ UNCHANGED <<q, receivers, closed>>

Close ==
  /\ closed' = TRUE
  /\ UNCHANGED <<q, receivers, senders>>

\* After a close the waiters are refused one by one, receivers first.
Refuse(p) ==
  /\ closed
  /\ \/ /\ p \in receivers
        /\ receivers' = receivers \ {p}
        /\ UNCHANGED senders
     \/ /\ receivers = {} /\ p \in senders
        /\ senders' = senders \ {p}
        /\ UNCHANGED receivers
  /\ UNCHANGED <<q, closed>>

Next ==
  \/ Take
  \/ Close
  \/ \E p \in Calls :
       \/ Put(p) \/ Hand(p) \/ TakeRefill(p)
       \/ WaitToReceive(p) \/ WaitToSend(p) \/ Refuse(p)

Spec == Init /\ [][Next]_vars
=============================================================================
