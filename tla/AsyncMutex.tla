----------------------------- MODULE AsyncMutex -----------------------------
(***************************************************************************)
(* MokshaAsyncMutex (runtime/src/core/sync.c): a mutex whose lock returns  *)
(* a promise.  A free mutex settles the promise at once; a taken one       *)
(* queues it, and unlock hands the mutex to the head of the queue without  *)
(* ever freeing it in between.                                             *)
(*                                                                         *)
(* Each operation is one critical section of mtx->spin_lock, which calls   *)
(* nothing that takes that lock again, so it is one action.  The promises  *)
(* are those of module Promise, reduced to the outcome of the              *)
(* compare-exchange on is_completed.                                       *)
(***************************************************************************)
EXTENDS Naturals, Sequences, FiniteSets

CONSTANTS
  Clients,      \* coroutines that use the mutex
  MaxRequests,  \* bound: calls of lock in a behaviour
  NONE          \* no request

ASSUME MaxAssumption  == MaxRequests \in Nat
ASSUME NoneAssumption == NONE \notin Nat

VARIABLES
  is_locked, waiters,   \* the mutex; waiters holds requests, head first
  promise,              \* request -> state of the promise lock returned
  requests,             \* how many calls of lock there were
  client,               \* what each client is doing
  req,                  \* the request a client awaits or was granted
  destroyed             \* the destructor ran

vars == <<is_locked, waiters, promise, requests, client, req, destroyed>>

Requests == 1..MaxRequests

\* AsyncMutex_new
Init ==
  /\ is_locked = FALSE /\ waiters = <<>>
  /\ promise = [r \in Requests |-> "none"]
  /\ requests = 0
  /\ client = [c \in Clients |-> "idle"]
  /\ req = [c \in Clients |-> NONE]
  /\ destroyed = FALSE

\* moksha_rt_resolve_promise: a promise that is settled already stays.
Resolved(p, r) == IF p[r] = "pending" THEN [p EXCEPT ![r] = "resolved"] ELSE p

-----------------------------------------------------------------------------
(* The mutex.                                                              *)

LockPushesFront(c) ==
  /\ client[c] = "idle" /\ ~destroyed /\ requests < MaxRequests
  /\ requests' = requests + 1
  /\ client' = [client EXCEPT ![c] = "awaiting"]
  /\ req' = [req EXCEPT ![c] = requests + 1]
  /\ IF ~is_locked
       THEN /\ is_locked' = TRUE
            /\ promise' = [promise EXCEPT ![requests + 1] = "resolved"]
            /\ UNCHANGED waiters
       ELSE /\ promise' = [promise EXCEPT ![requests + 1] = "pending"]
            /\ waiters' = <<requests + 1>> \o waiters
            /\ UNCHANGED is_locked
  /\ UNCHANGED destroyed
\* AsyncMutex_lock; the caller awaits the promise it returns.
Lock(c) ==
  /\ client[c] = "idle" /\ ~destroyed /\ requests < MaxRequests
  /\ requests' = requests + 1
  /\ client' = [client EXCEPT ![c] = "awaiting"]
  /\ req' = [req EXCEPT ![c] = requests + 1]
  /\ IF ~is_locked
       THEN /\ is_locked' = TRUE
            /\ promise' = [promise EXCEPT ![requests + 1] = "resolved"]
            /\ UNCHANGED waiters
       ELSE /\ promise' = [promise EXCEPT ![requests + 1] = "pending"]
            /\ waiters' = Append(waiters, requests + 1)
            /\ UNCHANGED is_locked
  /\ UNCHANGED destroyed

UnlockFreesToo(c) ==
  /\ client[c] = "holding" /\ ~destroyed
  /\ client' = [client EXCEPT ![c] = "idle"]
  /\ req' = [req EXCEPT ![c] = NONE]
  /\ is_locked' = FALSE
  /\ IF waiters # <<>>
       THEN /\ promise' = Resolved(promise, Head(waiters))
            /\ waiters' = Tail(waiters)
       ELSE UNCHANGED <<promise, waiters>>
  /\ UNCHANGED <<requests, destroyed>>
UnlockForgetsWaiter(c) ==
  /\ client[c] = "holding" /\ ~destroyed
  /\ client' = [client EXCEPT ![c] = "idle"]
  /\ req' = [req EXCEPT ![c] = NONE]
  /\ is_locked' = FALSE
  /\ UNCHANGED <<promise, waiters, requests, destroyed>>
\* AsyncMutex_unlock: with waiters the mutex stays locked and passes to the
\* head of the queue; its resolve is lost if that promise is settled.
Unlock(c) ==
  /\ client[c] = "holding" /\ ~destroyed
  /\ client' = [client EXCEPT ![c] = "idle"]
  /\ req' = [req EXCEPT ![c] = NONE]
  /\ IF waiters # <<>>
       THEN /\ promise' = Resolved(promise, Head(waiters))
            /\ waiters' = Tail(waiters)
            /\ UNCHANGED is_locked
       ELSE /\ is_locked' = FALSE
            /\ UNCHANGED <<promise, waiters>>
  /\ UNCHANGED <<requests, destroyed>>

\* AsyncMutex_destructor: the wait nodes are freed, nobody is woken.  No
\* client is inside the mutex when its last reference is dropped.
Destroy ==
  /\ ~destroyed
  /\ \A c \in Clients : client[c] # "holding"
  /\ waiters' = <<>>
  /\ destroyed' = TRUE
  /\ UNCHANGED <<is_locked, promise, requests, client, req>>

-----------------------------------------------------------------------------
(* The clients.                                                            *)

\* The await of the lock promise returns, or throws.
Enter(c) ==
  /\ client[c] = "awaiting" /\ promise[req[c]] = "resolved" /\ ~destroyed
  /\ client' = [client EXCEPT ![c] = "holding"]
  /\ UNCHANGED <<is_locked, waiters, promise, requests, req, destroyed>>

Throw(c) ==
  /\ client[c] = "awaiting" /\ promise[req[c]] = "rejected"
  /\ client' = [client EXCEPT ![c] = "idle"]
  /\ req' = [req EXCEPT ![c] = NONE]
  /\ UNCHANGED <<is_locked, waiters, promise, requests, destroyed>>

\* cancel() of a lock promise that is still pending.
Cancel(r) ==
  /\ promise[r] = "pending"
  /\ promise' = [promise EXCEPT ![r] = "rejected"]
  /\ UNCHANGED <<is_locked, waiters, requests, client, req, destroyed>>

\* The client awaits timeout(mtx.lock(), ms) and the time is up: it throws
\* and the lock promise stays pending.
TimeOut(c) ==
  /\ client[c] = "awaiting" /\ promise[req[c]] = "pending"
  /\ client' = [client EXCEPT ![c] = "idle"]
  /\ req' = [req EXCEPT ![c] = NONE]
  /\ UNCHANGED <<is_locked, waiters, promise, requests, destroyed>>

Next ==
  \/ \E c \in Clients : Lock(c) \/ Unlock(c) \/ Enter(c) \/ Throw(c) \/ TimeOut(c)
  \/ \E r \in Requests : Cancel(r)
  \/ Destroy

\* The scheduler resumes a coroutine whose promise is settled, and a lock
\* block ends: its unlock is on every path out of it.
Fairness ==
  \A c \in Clients : WF_vars(Enter(c)) /\ WF_vars(Throw(c)) /\ WF_vars(Unlock(c))

Spec == Init /\ [][Next]_vars /\ Fairness
-----------------------------------------------------------------------------
(* Properties.                                                             *)

\* The types of the mutex, its queue and its clients.
TypeOK ==
  /\ is_locked \in BOOLEAN /\ destroyed \in BOOLEAN
  /\ waiters \in Seq(Requests)
  /\ requests \in 0..MaxRequests
  /\ promise \in [Requests -> {"none", "pending", "resolved", "rejected"}]
  /\ client \in [Clients -> {"idle", "awaiting", "holding"}]
  /\ req \in [Clients -> Requests \union {NONE}]

\* The client the mutex belongs to: from the moment its promise resolves,
\* whether or not it was resumed already.
Owns(c) ==
  \/ client[c] = "holding"
  \/ client[c] = "awaiting" /\ promise[req[c]] = "resolved"

\* Mutual exclusion, the grants in flight included: with the direct handoff
\* nobody slips in between an unlock and the resumption of the next owner,
\* whoever gave up in the queue.
MutualExclusion ==
  /\ \A c, d \in Clients : Owns(c) /\ Owns(d) => c = d
  /\ (\E c \in Clients : Owns(c)) => is_locked

\* First come, first served: no request is granted while an earlier one
\* is still pending.
GrantedInOrder ==
  \A r, s \in Requests :
    (r < s /\ promise[s] = "resolved") => promise[r] # "pending"

\* Somebody will unlock a locked mutex: it has an owner.
Owned == \E c \in Clients : Owns(c)
LockedHasOwner == (is_locked /\ ~destroyed) => Owned

\* An unlock loses the mutex, locked and with no owner, only by handing it
\* to a request whose client cancelled it or no longer waits for it.
GivenUp(r) == promise[r] # "pending" \/ \A c \in Clients : req[c] # r
LostOnlyToQuitters ==
  [][(Owned /\ is_locked' /\ ~Owned' /\ ~destroyed')
       => waiters # <<>> /\ GivenUp(Head(waiters))]_vars

\* Who asks for the mutex and stays gets it, unless the mutex is destroyed or
\* was lost, and it is lost only to somebody who gave up waiting.
EveryoneGetsIn ==
  /\ LostOnlyToQuitters
  /\ \A c \in Clients :
       client[c] = "awaiting" ~> client[c] # "awaiting" \/ destroyed \/ ~LockedHasOwner
=============================================================================
