-------------------------- MODULE AsyncMutexProofs --------------------------
(***************************************************************************)
(* Proofs about module AsyncMutex, for every set of clients and every      *)
(* number of requests, whoever gives up in the queue.                      *)
(***************************************************************************)
EXTENDS AsyncMutex, SequenceTheorems, TLAPS

\* The queue holds requests in the order of their lock calls, none of them
\* granted, and every pending request unless the mutex was destroyed.
QueueInv ==
  /\ \A i, j \in 1..Len(waiters) : i < j => waiters[i] < waiters[j]
  /\ \A i \in 1..Len(waiters) :
       waiters[i] <= requests /\ promise[waiters[i]] \in {"pending", "rejected"}
  /\ \A r \in Requests :
       promise[r] = "pending" => destroyed \/ \E i \in 1..Len(waiters) : waiters[i] = r
  /\ \A r \in Requests : r > requests <=> promise[r] = "none"

\* A client that awaits or holds the mutex has a request of its own, and a
\* holder's is resolved.
ClientInv ==
  /\ \A c \in Clients : client[c] # "idle" => req[c] \in Requests /\ req[c] <= requests
  /\ \A c \in Clients : client[c] = "holding" => promise[req[c]] = "resolved"
  /\ \A c, d \in Clients :
       (client[c] # "idle" /\ client[d] # "idle" /\ req[c] = req[d]) => c = d

\* A mutex that is free has neither an owner nor a queue.
FreeInv == ~is_locked => waiters = <<>>

IInv == QueueInv /\ ClientInv /\ FreeInv /\ MutualExclusion /\ GrantedInOrder

-----------------------------------------------------------------------------
\* The types, for every number of requests (sync.c).
THEOREM TypeCorrect == Spec => []TypeOK
<1>1. Init => TypeOK
  <2>1. Init => is_locked \in BOOLEAN /\ destroyed \in BOOLEAN
    BY DEF Init
  <2>2. Init => waiters \in Seq(Requests)
    BY EmptySeq DEF Init
  <2>. QED
    BY <2>1, <2>2, MaxAssumption DEF Init, TypeOK
<1>2. TypeOK /\ [Next]_vars => TypeOK'
  <2>. SUFFICES ASSUME TypeOK, [Next]_vars
                PROVE  TypeOK'
    OBVIOUS
  <2>. USE DEF TypeOK
  <2>0. is_locked \in BOOLEAN /\ destroyed \in BOOLEAN
    OBVIOUS
  <2>1. ASSUME NEW c \in Clients, Lock(c)
        PROVE  TypeOK'
    <3>1. requests + 1 \in Requests /\ requests' = requests + 1
      BY <2>1, MaxAssumption DEF Lock, Requests
    <3>2. waiters' \in Seq(Requests)
      <4>1. waiters' = waiters \/ waiters' = Append(waiters, requests + 1)
        BY <2>1 DEF Lock
      <4>. QED
        BY <3>1, <4>1, AppendProperties, SMTT(30)
    <3>3. is_locked' \in BOOLEAN /\ destroyed' \in BOOLEAN
      BY <2>0, <2>1 DEF Lock
    <3>4. promise' \in [Requests -> {"none", "pending", "resolved", "rejected"}]
      BY <2>1 DEF Lock
    <3>5. client' \in [Clients -> {"idle", "awaiting", "holding"}]
          /\ req' \in [Clients -> Requests \union {NONE}]
      BY <2>1, <3>1 DEF Lock
    <3>. QED
      BY <3>1, <3>2, <3>3, <3>4, <3>5 DEF Requests
  <2>2. ASSUME NEW c \in Clients, Unlock(c)
        PROVE  TypeOK'
    <3>1. waiters' \in Seq(Requests)
      BY <2>2, HeadTailProperties DEF Unlock
    <3>2. is_locked' \in BOOLEAN /\ destroyed' \in BOOLEAN
      BY <2>0, <2>2 DEF Unlock
    <3>3. promise' \in [Requests -> {"none", "pending", "resolved", "rejected"}]
      BY <2>2 DEF Unlock, Resolved
    <3>4. client' \in [Clients -> {"idle", "awaiting", "holding"}]
          /\ req' \in [Clients -> Requests \union {NONE}] /\ requests' = requests
      BY <2>2 DEF Unlock
    <3>. QED
      BY <3>1, <3>2, <3>3, <3>4
  <2>3. ASSUME NEW c \in Clients, Enter(c)
        PROVE  TypeOK'
    BY <2>3 DEF Enter
  <2>4. ASSUME NEW c \in Clients, Throw(c)
        PROVE  TypeOK'
    BY <2>4 DEF Throw
  <2>5. ASSUME NEW c \in Clients, TimeOut(c)
        PROVE  TypeOK'
    BY <2>5 DEF TimeOut
  <2>6. ASSUME NEW r \in Requests, Cancel(r)
        PROVE  TypeOK'
    BY <2>6 DEF Cancel
  <2>7. CASE Destroy
    <3>1. waiters' \in Seq(Requests) /\ destroyed' \in BOOLEAN
      BY <2>7, EmptySeq DEF Destroy
    <3>. QED
      BY <2>7, <3>1 DEF Destroy
  <2>8. CASE UNCHANGED vars
    BY <2>8 DEF vars
  <2>. QED
    BY <2>1, <2>2, <2>3, <2>4, <2>5, <2>6, <2>7, <2>8 DEF Next
<1>. QED
  BY <1>1, <1>2, PTL DEF Spec

-----------------------------------------------------------------------------
(* The lock call.                                                          *)

LEMMA LockKeeps ==
  ASSUME TypeOK, IInv, NEW c \in Clients, Lock(c)
  PROVE  IInv'
<1>. DEFINE r == requests + 1
<1>0. /\ r \in Requests /\ requests \in Nat /\ requests' = r /\ promise[r] = "none"
      /\ \A s \in Requests : s \in Nat /\ (s # r => (s > requests' <=> s > requests))
  BY MaxAssumption DEF TypeOK, Lock, Requests, IInv, QueueInv
<1>1. /\ client' = [client EXCEPT ![c] = "awaiting"] /\ req' = [req EXCEPT ![c] = r]
      /\ client[c] = "idle" /\ ~destroyed /\ destroyed' = destroyed
  BY DEF Lock
<1>2. Len(waiters) \in Nat /\ \A i \in 1..Len(waiters) : waiters[i] \in Requests
  BY LenProperties, ElementOfSeq DEF TypeOK
<1>. HIDE DEF r
<1>3. ClientInv'
  <2>1. \E x \in {"resolved", "pending"} : promise' = [promise EXCEPT ![r] = x]
    BY <1>0 DEF Lock, r
  <2>2. \A d \in Clients : client[d] # "idle" => req[d] # r /\ req[d] \in Requests
    BY <1>0 DEF IInv, QueueInv, ClientInv, r
  <2>. QED
    BY <1>0, <1>1, <2>1, <2>2 DEF IInv, ClientInv, TypeOK, r
<1>4. CASE ~is_locked
  <2>1. /\ is_locked' /\ promise' = [promise EXCEPT ![r] = "resolved"]
        /\ waiters' = waiters /\ waiters = <<>>
    BY <1>4 DEF Lock, IInv, FreeInv, r
  <2>2. Len(waiters) = 0 /\ Len(waiters') = 0
    BY <2>1, EmptySeq
  <2>3. \A s \in Requests : promise[s] # "pending"
    BY <1>1, <2>2 DEF IInv, QueueInv
  <2>4. QueueInv'
    BY <1>0, <2>1, <2>2, <2>3 DEF IInv, QueueInv, TypeOK
  <2>5. \A d \in Clients : ~Owns(d)
    BY <1>4 DEF IInv, MutualExclusion
  <2>6. \A d \in Clients : Owns(d)' => d = c
    <3>1. SUFFICES ASSUME NEW d \in Clients, d # c, Owns(d)'
                   PROVE  FALSE
      OBVIOUS
    <3>2. client'[d] = client[d] /\ req'[d] = req[d] /\ (client[d] # "idle" => req[d] # r)
      BY <1>0, <1>1, <3>1 DEF TypeOK, IInv, ClientInv, QueueInv, r
    <3>3. client[d] # "idle" => promise'[req[d]] = promise[req[d]]
      BY <2>1, <3>2 DEF TypeOK, IInv, ClientInv
    <3>. QED
      BY <2>5, <3>1, <3>2, <3>3 DEF Owns
  <2>7. MutualExclusion'
    BY <2>1, <2>6 DEF MutualExclusion
  <2>8. GrantedInOrder'
    BY <1>0, <2>1, <2>3 DEF GrantedInOrder, TypeOK
  <2>. QED
    BY <1>3, <2>1, <2>4, <2>7, <2>8 DEF IInv, FreeInv
<1>5. CASE is_locked
  <2>1. /\ is_locked' = is_locked /\ promise' = [promise EXCEPT ![r] = "pending"]
        /\ waiters' = Append(waiters, r)
    BY <1>5 DEF Lock, r
  <2>2. /\ Len(waiters') = Len(waiters) + 1
        /\ \A i \in 1..Len(waiters) : waiters'[i] = waiters[i]
        /\ waiters'[Len(waiters) + 1] = r
    BY <1>0, <2>1, AppendProperties DEF TypeOK
  <2>3. \A i \in 1..Len(waiters) : waiters[i] < r
    BY <1>0, <1>2 DEF IInv, QueueInv, r
  <2>4. QueueInv'
    <3>1. ASSUME NEW i \in 1..Len(waiters'), NEW j \in 1..Len(waiters'), i < j
          PROVE  waiters'[i] < waiters'[j]
      BY <1>2, <2>2, <2>3, <3>1 DEF IInv, QueueInv
    <3>2. ASSUME NEW i \in 1..Len(waiters')
          PROVE  waiters'[i] <= requests' /\ promise'[waiters'[i]] \in {"pending", "rejected"}
      <4>1. CASE i = Len(waiters) + 1
        BY <1>0, <2>1, <2>2, <4>1 DEF TypeOK
      <4>2. CASE i # Len(waiters) + 1
        <5>1. i \in 1..Len(waiters)
          BY <1>2, <2>2, <4>2
        <5>. QED
          BY <1>0, <1>2, <2>1, <2>2, <2>3, <5>1 DEF TypeOK, IInv, QueueInv
      <4>. QED
        BY <4>1, <4>2
    <3>3. ASSUME NEW s \in Requests, promise'[s] = "pending"
          PROVE  \E i \in 1..Len(waiters') : waiters'[i] = s
      <4>1. CASE s = r
        <5>1. Len(waiters) + 1 \in 1..Len(waiters')
          BY <1>2, <2>2
        <5>. QED
          BY <2>2, <4>1, <5>1
      <4>2. CASE s # r
        <5>1. PICK i \in 1..Len(waiters) : waiters[i] = s
          BY <1>1, <2>1, <3>3, <4>2 DEF TypeOK, IInv, QueueInv
        <5>2. i \in 1..Len(waiters') /\ waiters'[i] = s
          BY <1>2, <2>2, <5>1
        <5>. QED
          BY <5>2
      <4>. QED
        BY <4>1, <4>2
    <3>4. \A s \in Requests : s > requests' <=> promise'[s] = "none"
      BY <1>0, <2>1 DEF TypeOK, IInv, QueueInv
    <3>. QED
      BY <3>1, <3>2, <3>3, <3>4 DEF QueueInv
  <2>5. \A d \in Clients : Owns(d)' => Owns(d)
    <3>1. SUFFICES ASSUME NEW d \in Clients, Owns(d)'
                   PROVE  Owns(d)
      OBVIOUS
    <3>2. d # c
      BY <1>0, <1>1, <2>1, <3>1 DEF Owns, TypeOK
    <3>3. client'[d] = client[d] /\ req'[d] = req[d] /\ (client[d] # "idle" => req[d] # r)
      BY <1>0, <1>1, <3>2 DEF TypeOK, IInv, ClientInv, QueueInv, r
    <3>4. client[d] # "idle" => promise'[req[d]] = promise[req[d]]
      BY <2>1, <3>3 DEF TypeOK, IInv, ClientInv
    <3>. QED
      BY <3>1, <3>3, <3>4 DEF Owns
  <2>6. MutualExclusion'
    BY <2>1, <2>5 DEF MutualExclusion, IInv
  <2>7. GrantedInOrder'
    BY <1>0, <2>1 DEF GrantedInOrder, TypeOK, IInv, QueueInv
  <2>. QED
    BY <1>3, <1>5, <2>1, <2>4, <2>6, <2>7 DEF IInv, FreeInv
<1>. QED
  BY <1>4, <1>5

-----------------------------------------------------------------------------
(* The unlock call.                                                        *)

LEMMA UnlockKeeps ==
  ASSUME TypeOK, IInv, NEW c \in Clients, Unlock(c)
  PROVE  IInv'
<1>1. /\ client' = [client EXCEPT ![c] = "idle"] /\ req' = [req EXCEPT ![c] = NONE]
      /\ requests' = requests /\ destroyed' = destroyed
      /\ client[c] = "holding" /\ ~destroyed
  BY DEF Unlock
<1>2. Len(waiters) \in Nat /\ \A i \in 1..Len(waiters) : waiters[i] \in Requests
  BY LenProperties, ElementOfSeq DEF TypeOK
<1>3. is_locked /\ \A d \in Clients : Owns(d) => d = c
  BY <1>1 DEF Owns, IInv, MutualExclusion
<1>4. CASE waiters = <<>>
  <2>1. is_locked' = FALSE /\ promise' = promise /\ waiters' = waiters
    BY <1>4 DEF Unlock
  <2>2. \A d \in Clients : ~Owns(d)'
    BY <1>1, <1>3, <2>1 DEF Owns, TypeOK
  <2>3. MutualExclusion'
    BY <2>2 DEF MutualExclusion
  <2>4. QueueInv'
    BY <1>1, <2>1 DEF IInv, QueueInv
  <2>5. ClientInv'
    BY <1>1, <2>1 DEF IInv, ClientInv, TypeOK
  <2>6. GrantedInOrder' /\ FreeInv'
    BY <1>4, <2>1 DEF IInv, GrantedInOrder, FreeInv
  <2>. QED
    BY <2>3, <2>4, <2>5, <2>6 DEF IInv
<1>5. CASE waiters # <<>>
  <2>. DEFINE h == waiters[1]
  <2>1. /\ Head(waiters) = h /\ Len(waiters) \in Nat \ {0}
        /\ Len(Tail(waiters)) = Len(waiters) - 1
        /\ \A i \in 1..(Len(waiters) - 1) : Tail(waiters)[i] = waiters[i + 1]
    BY <1>5, EmptySeq, LenProperties, HeadTailProperties DEF TypeOK
  <2>2. /\ is_locked' = is_locked /\ waiters' = Tail(waiters)
        /\ promise' = Resolved(promise, h)
    BY <1>5, <2>1 DEF Unlock
  <2>3. /\ h \in Requests /\ promise[h] \in {"pending", "rejected"} /\ h <= requests
        /\ \A i \in 2..Len(waiters) : h < waiters[i]
    BY <1>2, <2>1 DEF IInv, QueueInv
  <2>. HIDE DEF h
  <2>4. /\ \A r \in Requests : r # h => promise'[r] = promise[r]
        /\ promise'[h] \in {"resolved", "rejected"}
    BY <2>2, <2>3 DEF Resolved, TypeOK
  <2>5. /\ Len(waiters') = Len(waiters) - 1
        /\ \A i \in 1..Len(waiters') : waiters'[i] = waiters[i + 1] /\ i + 1 \in 2..Len(waiters)
    BY <1>2, <2>1, <2>2
  <2>6. QueueInv'
    <3>1. ASSUME NEW i \in 1..Len(waiters'), NEW j \in 1..Len(waiters'), i < j
          PROVE  waiters'[i] < waiters'[j]
      <4>1. i + 1 \in 1..Len(waiters) /\ j + 1 \in 1..Len(waiters) /\ i + 1 < j + 1
        BY <1>2, <2>1, <2>5, <3>1
      <4>. QED
        BY <2>5, <4>1 DEF IInv, QueueInv
    <3>2. ASSUME NEW i \in 1..Len(waiters')
          PROVE  waiters'[i] <= requests' /\ promise'[waiters'[i]] \in {"pending", "rejected"}
      <4>1. /\ waiters'[i] = waiters[i + 1] /\ i + 1 \in 1..Len(waiters)
            /\ waiters[i + 1] \in Requests /\ h < waiters[i + 1]
        BY <1>2, <2>1, <2>3, <2>5
      <4>2. waiters[i + 1] # h
        BY <2>3, <4>1 DEF Requests
      <4>. QED
        BY <1>1, <2>4, <4>1, <4>2 DEF IInv, QueueInv
    <3>3. ASSUME NEW r \in Requests, promise'[r] = "pending"
          PROVE  \E i \in 1..Len(waiters') : waiters'[i] = r
      <4>1. r # h /\ promise[r] = "pending"
        BY <2>4, <3>3
      <4>2. PICK i \in 1..Len(waiters) : waiters[i] = r
        BY <1>1, <4>1 DEF IInv, QueueInv
      <4>3. i - 1 \in 1..Len(waiters') /\ (i - 1) + 1 = i
        BY <1>2, <2>1, <2>5, <4>1, <4>2 DEF h
      <4>4. waiters'[i - 1] = r
        BY <2>5, <4>2, <4>3
      <4>. QED
        BY <4>3, <4>4
    <3>4. \A r \in Requests : r > requests' <=> promise'[r] = "none"
      BY <1>1, <2>3, <2>4 DEF IInv, QueueInv
    <3>. QED
      BY <3>1, <3>2, <3>3, <3>4 DEF QueueInv
  <2>7. ClientInv'
    <3>1. \A d \in Clients : client'[d] # "idle" =>
             client'[d] = client[d] /\ req'[d] = req[d] /\ client[d] # "holding"
      BY <1>1, <1>3 DEF TypeOK, Owns
    <3>. QED
      BY <1>1, <3>1 DEF IInv, ClientInv
  <2>8. \A d \in Clients : Owns(d)' => client[d] # "idle" /\ req[d] = h
    <3>1. SUFFICES ASSUME NEW d \in Clients, Owns(d)'
                   PROVE  client[d] # "idle" /\ req[d] = h
      OBVIOUS
    <3>2. d # c
      BY <1>1, <3>1 DEF Owns, TypeOK
    <3>3. client'[d] = client[d] /\ req'[d] = req[d] /\ ~Owns(d)
      BY <1>1, <1>3, <3>2 DEF TypeOK
    <3>4. client[d] = "awaiting" /\ promise'[req[d]] = "resolved" /\ promise[req[d]] # "resolved"
      BY <3>1, <3>3 DEF Owns
    <3>5. req[d] \in Requests
      BY <3>4 DEF IInv, ClientInv
    <3>. QED
      BY <2>4, <3>4, <3>5
  <2>9. MutualExclusion'
    BY <1>3, <2>2, <2>8 DEF MutualExclusion, IInv, ClientInv
  <2>10. GrantedInOrder'
    <3>1. SUFFICES ASSUME NEW r \in Requests, NEW s \in Requests, r < s,
                          promise'[s] = "resolved", promise'[r] = "pending"
                   PROVE  FALSE
      BY DEF GrantedInOrder
    <3>2. r # h /\ promise[r] = "pending"
      BY <2>4, <3>1
    <3>3. s = h
      BY <2>4, <3>1, <3>2 DEF IInv, GrantedInOrder
    <3>4. PICK i \in 1..Len(waiters) : waiters[i] = r
      BY <1>1, <3>2 DEF IInv, QueueInv
    <3>5. i \in 2..Len(waiters)
      BY <1>2, <3>2, <3>4 DEF h
    <3>6. h < r
      BY <2>3, <3>4, <3>5
    <3>. QED
      BY <3>1, <3>3, <3>6 DEF Requests
  <2>11. FreeInv'
    BY <1>3, <2>2 DEF FreeInv
  <2>. QED
    BY <2>6, <2>7, <2>9, <2>10, <2>11 DEF IInv
<1>. QED
  BY <1>4, <1>5

-----------------------------------------------------------------------------
(* The clients and the destructor.                                         *)

LEMMA ClientsKeep ==
  ASSUME TypeOK, IInv, NEW c \in Clients, Enter(c) \/ Throw(c) \/ TimeOut(c)
  PROVE  IInv'
<1>1. UNCHANGED <<is_locked, waiters, promise, requests, destroyed>>
  BY DEF Enter, Throw, TimeOut
<1>2. QueueInv' /\ FreeInv' /\ GrantedInOrder'
  BY <1>1 DEF IInv, QueueInv, FreeInv, GrantedInOrder
<1>3. ClientInv'
  BY <1>1 DEF IInv, ClientInv, TypeOK, Enter, Throw, TimeOut
<1>4. \A d \in Clients : Owns(d)' => Owns(d)
  BY <1>1 DEF Owns, TypeOK, Enter, Throw, TimeOut
<1>5. MutualExclusion'
  BY <1>1, <1>4 DEF IInv, MutualExclusion
<1>. QED
  BY <1>2, <1>3, <1>5 DEF IInv

LEMMA CancelKeeps ==
  ASSUME TypeOK, IInv, NEW r \in Requests, Cancel(r)
  PROVE  IInv'
<1>1. /\ UNCHANGED <<is_locked, waiters, requests, client, req, destroyed>>
      /\ promise[r] = "pending" /\ promise' = [promise EXCEPT ![r] = "rejected"]
  BY DEF Cancel
<1>2. Len(waiters) \in Nat /\ \A i \in 1..Len(waiters) : waiters[i] \in Requests
  BY LenProperties, ElementOfSeq DEF TypeOK
<1>3. QueueInv' /\ FreeInv' /\ GrantedInOrder'
  BY <1>1, <1>2 DEF IInv, QueueInv, FreeInv, GrantedInOrder, TypeOK
<1>4. ClientInv'
  BY <1>1 DEF IInv, ClientInv, TypeOK
<1>5. \A d \in Clients : Owns(d)' => Owns(d)
  BY <1>1 DEF Owns, TypeOK, IInv, ClientInv
<1>6. MutualExclusion'
  BY <1>1, <1>5 DEF IInv, MutualExclusion
<1>. QED
  BY <1>3, <1>4, <1>6 DEF IInv

LEMMA DestroyKeeps ==
  ASSUME TypeOK, IInv, Destroy
  PROVE  IInv'
<1>1. /\ UNCHANGED <<is_locked, promise, requests, client, req>>
      /\ waiters' = <<>> /\ destroyed'
  BY DEF Destroy
<1>2. Len(waiters') = 0
  BY <1>1, EmptySeq
<1>3. QueueInv' /\ FreeInv'
  BY <1>1, <1>2 DEF IInv, QueueInv, FreeInv
<1>4. ClientInv' /\ GrantedInOrder' /\ MutualExclusion'
  BY <1>1 DEF IInv, ClientInv, GrantedInOrder, MutualExclusion, Owns
<1>. QED
  BY <1>3, <1>4 DEF IInv

LEMMA Invariance == Spec => []IInv
<1>1. Init => IInv
  <2>. SUFFICES ASSUME Init
                PROVE  IInv
    OBVIOUS
  <2>1. Len(waiters) = 0
    BY EmptySeq DEF Init
  <2>2. QueueInv
    BY <2>1 DEF Init, QueueInv, Requests
  <2>. QED
    BY <2>2 DEF Init, IInv, ClientInv, FreeInv, MutualExclusion, Owns, GrantedInOrder
<1>2. TypeOK /\ IInv /\ [Next]_vars => IInv'
  <2>. SUFFICES ASSUME TypeOK, IInv, [Next]_vars
                PROVE  IInv'
    OBVIOUS
  <2>1. CASE UNCHANGED vars
    BY <2>1 DEF vars, IInv, QueueInv, ClientInv, FreeInv, MutualExclusion, Owns, GrantedInOrder
  <2>. QED
    BY <2>1, LockKeeps, UnlockKeeps, ClientsKeep, CancelKeeps, DestroyKeeps DEF Next
<1>. QED
  BY <1>1, <1>2, TypeCorrect, PTL DEF Spec

\* For every number of clients and requests, and whoever cancels, times out
\* or drops the mutex: at most one client owns the mutex, from the grant in
\* AsyncMutex_unlock to its own unlock (sync.c).
THEOREM Exclusion == Spec => []MutualExclusion
<1>1. IInv => MutualExclusion
  BY DEF IInv
<1>. QED
  BY <1>1, Invariance, PTL

\* Requests are granted in the order of the lock calls (the waiters_head and
\* waiters_tail queue of sync.c).
THEOREM FirstComeFirstServed == Spec => []GrantedInOrder
<1>1. IInv => GrantedInOrder
  BY DEF IInv
<1>. QED
  BY <1>1, Invariance, PTL

-----------------------------------------------------------------------------
(* How the mutex can get lost.                                             *)

\* A client that does not use the mutex has no request.
IdleInv == \A c \in Clients : client[c] = "idle" => req[c] = NONE

LEMMA IdleInvariance == Spec => []IdleInv
<1>1. Init => IdleInv
  BY DEF Init, IdleInv
<1>2. TypeOK /\ IdleInv /\ [Next]_vars => IdleInv'
  BY DEF TypeOK, IdleInv, Next, Lock, Unlock, Enter, Throw, TimeOut, Cancel,
     Destroy, vars
<1>. QED
  BY <1>1, <1>2, TypeCorrect, PTL DEF Spec

\* An unlock that finds a queue makes the client at its head the owner,
\* unless that request was cancelled or abandoned.
LEMMA HandoffFindsOwner ==
  ASSUME TypeOK, IInv, IdleInv, NEW d \in Clients, Unlock(d),
         waiters # <<>>, ~GivenUp(Head(waiters))
  PROVE  Owned'
<1>. DEFINE h == Head(waiters)
<1>1. h \in Requests /\ h # NONE
  <2>1. h \in Requests
    BY HeadTailProperties DEF TypeOK
  <2>. QED
    BY <2>1, NoneAssumption, MaxAssumption DEF Requests
<1>2. promise[h] = "pending"
  BY DEF GivenUp
<1>3. PICK c \in Clients : req[c] = h
  BY DEF GivenUp
<1>. HIDE DEF h
<1>4. client[c] = "awaiting" /\ c # d
  BY <1>1, <1>2, <1>3 DEF TypeOK, IdleInv, IInv, ClientInv, Unlock
<1>5. promise' = Resolved(promise, h)
  BY DEF Unlock, h
<1>6. promise'[h] = "resolved" /\ client'[c] = "awaiting" /\ req'[c] = h
  BY <1>1, <1>2, <1>3, <1>4, <1>5 DEF Unlock, Resolved, TypeOK
<1>. QED
  BY <1>6 DEF Owned, Owns

\* Every step but an unlock leaves an owned mutex with an owner.
LEMMA OwnerStays ==
  ASSUME TypeOK, IInv, Owned, Next, ~destroyed',
         \A d \in Clients : ~Unlock(d)
  PROVE  Owned'
<1>1. PICK c \in Clients : Owns(c)
  BY DEF Owned
<1>2. ASSUME NEW d \in Clients, Lock(d)
      PROVE  Owns(c)'
  <2>1. c # d /\ req[c] \in Requests /\ req[c] # requests + 1 /\ requests \in Nat
    BY <1>1, <1>2 DEF Owns, Lock, IInv, ClientInv, TypeOK, Requests
  <2>2. promise'[req[c]] = promise[req[c]]
    BY <1>2, <2>1 DEF Lock, TypeOK
  <2>. QED
    BY <1>1, <1>2, <2>1, <2>2 DEF Owns, Lock, TypeOK
<1>3. ASSUME NEW d \in Clients, Enter(d) \/ Throw(d) \/ TimeOut(d)
      PROVE  Owns(c)'
  BY <1>1, <1>3 DEF Owns, Enter, Throw, TimeOut, TypeOK
<1>4. ASSUME NEW r \in Requests, Cancel(r)
      PROVE  Owns(c)'
  BY <1>1, <1>4 DEF Owns, Cancel, TypeOK, IInv, ClientInv
<1>5. ~Destroy
  BY DEF Destroy
<1>. QED
  BY <1>2, <1>3, <1>4, <1>5 DEF Next, Owned

\* An unlock loses the mutex only to a request whose client cancelled it or
\* no longer waits for it: on every other path it passes to an owner or is
\* free (AsyncMutex_unlock in sync.c).  The safety half of EveryoneGetsIn.
THEOREM NeverLostToAWaiter == Spec => LostOnlyToQuitters
<1>. DEFINE Lost == Owned /\ is_locked' /\ ~Owned' /\ ~destroyed'
            Quit == waiters # <<>> /\ GivenUp(Head(waiters))
<1>1. TypeOK /\ IInv /\ IdleInv /\ [Next]_vars => [Lost => Quit]_vars
  <2>. SUFFICES ASSUME TypeOK, IInv, IdleInv, Next, Lost
                PROVE  Quit
    OBVIOUS
  <2>1. PICK d \in Clients : Unlock(d)
    BY OwnerStays
  <2>2. waiters # <<>>
    BY <2>1 DEF Unlock
  <2>. QED
    BY <2>1, <2>2, HandoffFindsOwner
<1>. QED
  BY <1>1, TypeCorrect, Invariance, IdleInvariance, PTL DEF Spec, LostOnlyToQuitters
=============================================================================
