--------------------------- MODULE ChannelProofs ---------------------------
(***************************************************************************)
(* Proofs about module Channel, for every set of threads, every capacity   *)
(* of at least one and every number of calls: first the ring and its wait  *)
(* stacks, then that no value is lost, duplicated or delivered twice, and  *)
(* that the ring with its wait stacks implements the bounded queue of      *)
(* ChannelAbs.                                                             *)
(***************************************************************************)
EXTENDS Channel, SequenceTheorems, FiniteSetTheorems, TLAPS

\* A thread inside a call has a promise, and one that still has promises to
\* settle knows which: what the type of a step's effect rests on.
ControlInv ==
  \A t \in Threads :
    /\ pc[t] \in Spinning \union InCS => mine[t] \in Calls
    /\ pc[t] = "settle" => todo[t] # <<>>

\* The inductive invariant.  The ring cannot be shown to stay a ring without
\* the types of its indices, and a receive may only move head because nobody
\* waits to receive while a value is buffered.
IInv == TypeOK /\ ControlInv /\ RingInv /\ NoStarvedPair /\ ClosedLeavesNobody

-----------------------------------------------------------------------------
(* Arithmetic of the ring: no index is ever two turns ahead, so the modulus  *)
(* subtracts the capacity at most once.                                    *)

LEMMA SlotCases ==
  ASSUME NEW h \in Slots, NEW i \in 0..Capacity
  PROVE  /\ (h + i) % Capacity = IF h + i < Capacity THEN h + i
                                                    ELSE h + i - Capacity
         /\ (h + i) % Capacity \in Slots
<1>1. /\ h \in Nat /\ i \in Nat /\ h + i \in Nat
      /\ h + i < Capacity + Capacity
  BY CapacityAssumption DEF Slots
<1>. DEFINE n == h + i
<1>2. n \in Nat /\ n < Capacity + Capacity
  BY <1>1
<1>. HIDE DEF n
<1>3. n % Capacity = IF n < Capacity THEN n ELSE n - Capacity
  BY <1>2, CapacityAssumption
<1>. QED
  BY <1>1, <1>2, <1>3, CapacityAssumption DEF n, Slots

LEMMA PushCases ==
  ASSUME NEW i \in Slots
  PROVE  /\ Push(i) = IF i + 1 < Capacity THEN i + 1 ELSE 0
         /\ Push(i) \in Slots
<1>1. 1 \in 0..Capacity
  BY CapacityAssumption
<1>2. /\ (i + 1) % Capacity = IF i + 1 < Capacity THEN i + 1
                                                  ELSE i + 1 - Capacity
      /\ (i + 1) % Capacity \in Slots
  BY <1>1, SlotCases
<1>3. i + 1 < Capacity \/ i + 1 - Capacity = 0
  BY CapacityAssumption DEF Slots
<1>. QED
  BY <1>2, <1>3 DEF Push

\* The slot after the i-th is the (i+1)-th.
LEMMA PushSlot ==
  ASSUME NEW h \in Slots, NEW i \in 0..(Capacity - 1)
  PROVE  Push((h + i) % Capacity) = (h + (i + 1)) % Capacity
<1>. DEFINE m == (h + i) % Capacity
            n == (h + (i + 1)) % Capacity
<1>1. i \in 0..Capacity /\ i + 1 \in 0..Capacity
  BY CapacityAssumption
<1>2. /\ m = IF h + i < Capacity THEN h + i ELSE h + i - Capacity
      /\ m \in Slots
  BY <1>1, SlotCases
<1>3. n = IF h + (i + 1) < Capacity THEN h + (i + 1)
                                    ELSE h + (i + 1) - Capacity
  BY <1>1, SlotCases
<1>. HIDE DEF m, n
<1>4. Push(m) = IF m + 1 < Capacity THEN m + 1 ELSE 0
  BY <1>2, PushCases
<1>5. Push(m) = n
  BY <1>2, <1>3, <1>4, CapacityAssumption DEF Slots
<1>. QED
  BY <1>5 DEF m, n

\* Numbering the slots from the one after h shifts the numbers by one.
LEMMA ShiftSlot ==
  ASSUME NEW h \in Slots, NEW i \in 0..(Capacity - 1)
  PROVE  (Push(h) + i) % Capacity = (h + (i + 1)) % Capacity
<1>. DEFINE g == Push(h)
            m == (g + i) % Capacity
            n == (h + (i + 1)) % Capacity
<1>1. i \in 0..Capacity /\ i + 1 \in 0..Capacity
  BY CapacityAssumption
<1>2. /\ g = IF h + 1 < Capacity THEN h + 1 ELSE 0
      /\ g \in Slots
  BY PushCases
<1>. HIDE DEF g
<1>3. m = IF g + i < Capacity THEN g + i ELSE g + i - Capacity
  BY <1>1, <1>2, SlotCases
<1>4. n = IF h + (i + 1) < Capacity THEN h + (i + 1)
                                    ELSE h + (i + 1) - Capacity
  BY <1>1, SlotCases
<1>. HIDE DEF m, n
<1>5. m = n
  BY <1>2, <1>3, <1>4, CapacityAssumption DEF Slots
<1>. QED
  BY <1>5 DEF m, n, g

-----------------------------------------------------------------------------
(* Types of the helpers.                                                   *)

\* What the settlements are made of.
LEMMA SettlementType ==
  /\ \A p \in Calls : Reject(p) \in Settlement
  /\ \A p \in Calls : \A d \in Calls \union {NULL} : Resolve(p, d) \in Settlement
BY DEF Reject, Resolve, Settlement

\* Settling a promise keeps the promises well typed.
LEMMA SettleType ==
  ASSUME TypeOK, NEW s \in Settlement, Settle(s)
  PROVE  /\ status' \in [Calls -> Statuses]
         /\ result_data' \in [Calls -> Calls \union {NULL}]
         /\ dropped' \subseteq (Calls \X Calls)
<1>1. /\ s.handle \in Calls /\ s.to \in Statuses
      /\ s.data \in Calls \union {NULL}
  BY DEF Settlement, Statuses
<1>2. CASE status[s.handle] = "pending"
  BY <1>1, <1>2 DEF Settle, TypeOK
<1>3. CASE status[s.handle] # "pending"
  <2>1. {<<s.handle, s.data>>} \ {<<s.handle, NULL>>} \subseteq Calls \X Calls
    BY <1>1
  <2>. QED
    BY <1>3, <2>1 DEF Settle, TypeOK
<1>. QED
  BY <1>2, <1>3

-----------------------------------------------------------------------------
(* Types and control.                                                      *)

TypeInv == TypeOK /\ ControlInv

\* The critical section of a receive on a filled buffer, whose refill is the
\* longest effect of the module.
LEMMA RecvBufferedType ==
  ASSUME TypeInv, NEW t \in Threads, RecvBuffered(t)
  PROVE  TypeInv'
<1>. USE DEF TypeInv
<1>1. mine[t] \in Calls
  BY DEF RecvBuffered, ControlInv, InCS
<1>2. Resolve(mine[t], buffer[head]) \in Settlement
  BY <1>1, SettlementType DEF TypeOK
<1>3. /\ head' \in Slots /\ spin_lock' = 0 /\ UNCHANGED <<is_closed, waiting_receivers, made, mine>>
      /\ todo' \in [Threads -> Seq(Settlement)]
      /\ pc' \in [Threads -> PCs]
  BY <1>2, PushCases DEF RecvBuffered, Unlock, TypeOK, PCs
<1>4. ControlInv'
  BY <1>1, <1>2 DEF RecvBuffered, Unlock, ControlInv, TypeOK, Spinning, InCS
<1>5. CASE waiting_senders # <<>>
  <2>1. /\ Head(waiting_senders) \in Calls
        /\ Tail(waiting_senders) \in Seq(Calls)
    BY <1>5 DEF TypeOK
  <2>2. Refill
    BY <1>5 DEF RecvBuffered
  <2>3. Resolve(Head(waiting_senders), NULL) \in Settlement
    BY <2>1, SettlementType
  <2>4. /\ status' \in [Calls -> Statuses]
        /\ result_data' \in [Calls -> Calls \union {NULL}]
        /\ dropped' \subseteq (Calls \X Calls)
    BY <2>2, <2>3, SettleType DEF Refill
  <2>5. /\ waiting_senders' \in Seq(Calls)
        /\ buffer' \in [Slots -> Calls \union {NULL}]
        /\ count' \in 0..Capacity
        /\ tail' \in Slots
    BY <2>1, <2>2, PushCases, CapacityAssumption DEF Refill, TypeOK
  <2>. QED
    BY <1>3, <1>4, <2>4, <2>5 DEF TypeOK
<1>6. CASE waiting_senders = <<>>
  <2>1. /\ UNCHANGED <<buffer, tail, waiting_senders, status, result_data, dropped>>
        /\ count' = count - 1 /\ count > 0
    BY <1>6 DEF RecvBuffered, proms
  <2>2. count' \in 0..Capacity
    BY <2>1, CapacityAssumption DEF TypeOK
  <2>. QED
    BY <1>3, <1>4, <2>1, <2>2 DEF TypeOK
<1>. QED
  BY <1>5, <1>6

\* Every step keeps the types and the control invariant.
LEMMA TypeStep ==
  ASSUME TypeInv, [Next]_vars
  PROVE  TypeInv'
<1>. USE DEF TypeInv
<1>0. CASE UNCHANGED vars
  BY <1>0 DEF vars, chan, proms, TypeOK, ControlInv
<1>1. ASSUME NEW t \in Threads, Channel_recv(t) \/ Channel_send(t)
      PROVE  TypeInv'
  <2>1. PICK op \in {"recv", "send"} : Begin(t, op)
    BY <1>1 DEF Channel_recv, Channel_send
  <2>2. made + 1 \in Calls /\ made' \in 0..MaxCalls
    BY <2>1, MaxCallsAssumption DEF Begin, TypeOK, Calls
  <2>3. TypeOK'
    BY <2>1, <2>2 DEF Begin, TypeOK, chan, PCs, Spinning, Statuses
  <2>4. ControlInv'
    BY <2>1, <2>2 DEF Begin, ControlInv, TypeOK
  <2>. QED
    BY <2>3, <2>4
<1>2. ASSUME NEW t \in Threads, Channel_close(t)
      PROVE  TypeInv'
  <2>1. made + 1 \in Calls /\ made' \in 0..MaxCalls
    BY <1>2, MaxCallsAssumption DEF Channel_close, TypeOK, Calls
  <2>2. TypeOK'
    BY <1>2, <2>1 DEF Channel_close, TypeOK, chan, proms, PCs, Spinning
  <2>3. ControlInv'
    BY <1>2, <2>1 DEF Channel_close, ControlInv, TypeOK
  <2>. QED
    BY <2>2, <2>3
<1>3. ASSUME NEW t \in Threads, SpinAcquire(t)
      PROVE  TypeInv'
  <2>1. /\ pc' \in [Threads -> PCs] /\ is_closed' \in BOOLEAN
        /\ pc'[t] \in InCS /\ \A u \in Threads \ {t} : pc'[u] = pc[u]
    BY <1>3 DEF SpinAcquire, TypeOK, PCs, InCS, Spinning
  <2>2. TypeOK'
    BY <1>3, <2>1 DEF SpinAcquire, TypeOK, proms
  <2>3. ControlInv'
    BY <1>3, <2>1 DEF SpinAcquire, ControlInv, InCS
  <2>. QED
    BY <2>2, <2>3
<1>4. ASSUME NEW t \in Threads, RecvBuffered(t)
      PROVE  TypeInv'
  BY <1>4, RecvBufferedType
<1>5. ASSUME NEW t \in Threads, RecvClosed(t) \/ SendClosed(t)
      PROVE  TypeInv'
  <2>1. /\ mine[t] \in Calls /\ Unlock(t, <<Reject(mine[t])>>)
        /\ UNCHANGED chan /\ UNCHANGED proms
    BY <1>5 DEF RecvClosed, SendClosed, ControlInv, InCS
  <2>2. Reject(mine[t]) \in Settlement
    BY <2>1, SettlementType
  <2>3. TypeOK'
    BY <2>1, <2>2 DEF Unlock, TypeOK, chan, proms, PCs
  <2>4. ControlInv'
    BY <2>1, <2>2 DEF Unlock, ControlInv, TypeOK, Spinning, InCS
  <2>. QED
    BY <2>3, <2>4
<1>6. ASSUME NEW t \in Threads, RecvWait(t)
      PROVE  TypeInv'
  <2>1. mine[t] \in Calls
    BY <1>6 DEF RecvWait, ControlInv, InCS
  <2>2. TypeOK'
    BY <1>6, <2>1 DEF RecvWait, Unlock, TypeOK, proms, PCs
  <2>3. ControlInv'
    BY <1>6 DEF RecvWait, Unlock, ControlInv, TypeOK, Spinning, InCS
  <2>. QED
    BY <2>2, <2>3
<1>7. ASSUME NEW t \in Threads, SendHandoff(t)
      PROVE  TypeInv'
  <2>1. /\ mine[t] \in Calls /\ Head(waiting_receivers) \in Calls
        /\ Tail(waiting_receivers) \in Seq(Calls)
    BY <1>7 DEF SendHandoff, ControlInv, InCS, TypeOK
  <2>2. /\ Resolve(Head(waiting_receivers), mine[t]) \in Settlement
        /\ Resolve(mine[t], NULL) \in Settlement
    BY <2>1, SettlementType
  <2>. DEFINE rest == <<Resolve(Head(waiting_receivers), mine[t]), Resolve(mine[t], NULL)>>
  <2>3. rest \in Seq(Settlement) /\ rest # <<>>
    BY <2>2
  <2>4. Unlock(t, rest)
    BY <1>7 DEF SendHandoff
  <2>. HIDE DEF rest
  <2>5. TypeOK'
    BY <1>7, <2>1, <2>3, <2>4, ZenonT(60) DEF SendHandoff, PopReceiver, Unlock, TypeOK, proms, PCs
  <2>6. ControlInv'
    BY <2>3, <2>4 DEF Unlock, ControlInv, TypeOK, Spinning, InCS
  <2>. QED
    BY <2>5, <2>6
<1>8. ASSUME NEW t \in Threads, SendBuffered(t)
      PROVE  TypeInv'
  <2>1. mine[t] \in Calls
    BY <1>8 DEF SendBuffered, ControlInv, InCS
  <2>2. Resolve(mine[t], NULL) \in Settlement
    BY <2>1, SettlementType
  <2>3. tail' \in Slots /\ count' \in 0..Capacity
    BY <1>8, PushCases, CapacityAssumption DEF SendBuffered, HasRoom, TypeOK
  <2>4. TypeOK'
    BY <1>8, <2>1, <2>2, <2>3 DEF SendBuffered, Unlock, TypeOK, proms, PCs
  <2>5. ControlInv'
    BY <1>8, <2>2 DEF SendBuffered, Unlock, ControlInv, TypeOK, Spinning, InCS
  <2>. QED
    BY <2>4, <2>5
<1>9. ASSUME NEW t \in Threads, SendWait(t)
      PROVE  TypeInv'
  <2>1. mine[t] \in Calls
    BY <1>9 DEF SendWait, ControlInv, InCS
  <2>2. TypeOK'
    BY <1>9, <2>1 DEF SendWait, Unlock, TypeOK, proms, PCs
  <2>3. ControlInv'
    BY <1>9 DEF SendWait, Unlock, ControlInv, TypeOK, Spinning, InCS
  <2>. QED
    BY <2>2, <2>3
<1>10. ASSUME NEW t \in Threads, CloseReceiver(t)
       PROVE  TypeInv'
  <2>1. /\ Head(waiting_receivers) \in Calls
        /\ Tail(waiting_receivers) \in Seq(Calls)
    BY <1>10 DEF CloseReceiver, TypeOK
  <2>2. Reject(Head(waiting_receivers)) \in Settlement
    BY <2>1, SettlementType
  <2>3. /\ status' \in [Calls -> Statuses]
        /\ result_data' \in [Calls -> Calls \union {NULL}]
        /\ dropped' \subseteq (Calls \X Calls)
    BY <1>10, <2>2, SettleType DEF CloseReceiver
  <2>. QED
    BY <1>10, <2>1, <2>3 DEF CloseReceiver, PopReceiver, TypeOK, ControlInv
<1>11. ASSUME NEW t \in Threads, CloseSender(t)
       PROVE  TypeInv'
  <2>1. /\ Head(waiting_senders) \in Calls
        /\ Tail(waiting_senders) \in Seq(Calls)
    BY <1>11 DEF CloseSender, TypeOK
  <2>2. Reject(Head(waiting_senders)) \in Settlement
    BY <2>1, SettlementType
  <2>3. /\ status' \in [Calls -> Statuses]
        /\ result_data' \in [Calls -> Calls \union {NULL}]
        /\ dropped' \subseteq (Calls \X Calls)
    BY <1>11, <2>2, SettleType DEF CloseSender
  <2>. QED
    BY <1>11, <2>1, <2>3 DEF CloseSender, TypeOK, ControlInv
<1>12. ASSUME NEW t \in Threads, CloseDone(t)
       PROVE  TypeInv'
  <2>1. TypeOK'
    BY <1>12 DEF CloseDone, Unlock, TypeOK, chan, proms, PCs
  <2>2. ControlInv'
    BY <1>12 DEF CloseDone, Unlock, ControlInv, TypeOK, Spinning, InCS
  <2>. QED
    BY <2>1, <2>2
<1>13. ASSUME NEW t \in Threads, SettleNext(t)
       PROVE  TypeInv'
  <2>1. /\ Head(todo[t]) \in Settlement /\ Tail(todo[t]) \in Seq(Settlement)
        /\ Len(todo[t]) # 1 => Tail(todo[t]) # <<>>
    <3>. DEFINE s == todo[t]
    <3>1. s \in Seq(Settlement) /\ s # <<>>
      BY <1>13 DEF SettleNext, ControlInv, TypeOK
    <3>. HIDE DEF s
    <3>2. Head(s) \in Settlement /\ Tail(s) \in Seq(Settlement)
      BY <3>1
    <3>3. Len(s) # 1 => Tail(s) # <<>>
      <4>1. Len(s) \in Nat /\ Len(s) # 0 /\ Len(Tail(s)) = Len(s) - 1
        BY <3>1, EmptySeq, HeadTailProperties
      <4>2. Len(s) # 1 => Len(Tail(s)) # 0
        BY <4>1
      <4>. QED
        BY <4>2, EmptySeq, <3>2
    <3>. QED
      BY <3>2, <3>3 DEF s
  <2>2. /\ status' \in [Calls -> Statuses]
        /\ result_data' \in [Calls -> Calls \union {NULL}]
        /\ dropped' \subseteq (Calls \X Calls)
    BY <1>13, <2>1, SettleType DEF SettleNext
  <2>3. TypeOK'
    BY <1>13, <2>1, <2>2 DEF SettleNext, TypeOK, chan, PCs
  <2>4. ControlInv'
    BY <1>13, <2>1 DEF SettleNext, ControlInv, TypeOK, Spinning, InCS
  <2>. QED
    BY <2>3, <2>4
<1>14. ASSUME NEW p \in Calls, Cancel(p)
       PROVE  TypeInv'
  BY <1>14 DEF Cancel, TypeOK, ControlInv, chan, Statuses
<1>. QED
  BY <1>0, <1>1, <1>2, <1>3, <1>4, <1>5, <1>6, <1>7, <1>8, <1>9, <1>10,
     <1>11, <1>12, <1>13, <1>14 DEF Next, Step

\* Initial states have the types.
LEMMA InitType ==
  ASSUME Init
  PROVE  TypeInv
<1>1. head \in Slots /\ tail \in Slots /\ count \in 0..Capacity /\ made \in 0..MaxCalls
  BY CapacityAssumption, MaxCallsAssumption DEF Init, Slots
<1>2. TypeOK
  <2>1. <<>> \in Seq(Calls) /\ <<>> \in Seq(Settlement)
    BY EmptySeq
  <2>2. /\ waiting_receivers \in Seq(Calls) /\ waiting_senders \in Seq(Calls)
        /\ todo \in [Threads -> Seq(Settlement)]
    BY <2>1 DEF Init
  <2>3. /\ pc \in [Threads -> PCs]
        /\ status \in [Calls -> Statuses]
    BY DEF Init, Statuses, PCs
  <2>4. /\ buffer \in [Slots -> Calls \union {NULL}]
        /\ result_data \in [Calls -> Calls \union {NULL}]
        /\ mine \in [Threads -> Calls \union {NULL}]
        /\ spin_lock \in {0, 1} /\ is_closed \in BOOLEAN
        /\ dropped \subseteq (Calls \X Calls)
    BY DEF Init
  <2>. QED
    BY <1>1, <2>2, <2>3, <2>4 DEF TypeOK
<1>3. ControlInv
  BY DEF Init, ControlInv, Spinning, InCS
<1>. QED
  BY <1>2, <1>3 DEF TypeInv

\* The variables of the channel always have the types that channel.c gives
\* them: indices inside the buffer, a count no larger than the capacity.
THEOREM TypeCorrect == Spec => []TypeOK
<1>1. Init => TypeInv
  BY InitType
<1>2. TypeInv /\ [Next]_vars => TypeInv'
  BY TypeStep
<1>. QED
  BY <1>1, <1>2, PTL DEF Spec, TypeInv

-----------------------------------------------------------------------------
(* The ring and its waiters.                                               *)

\* What a critical section that leaves head alone and keeps the values, as
\* all do but RecvBuffered and SendBuffered, does to the ring: nothing.
LEMMA RingUnchanged ==
  ASSUME RingInv, UNCHANGED <<buffer, head, tail, count>>
  PROVE  RingInv'
BY DEF RingInv, SlotOf

\* Writing a value at tail keeps every buffered value a value.
LEMMA RingSend ==
  ASSUME TypeInv, RingInv, NEW t \in Threads, SendBuffered(t)
  PROVE  RingInv'
<1>1. /\ mine[t] \in Calls /\ mine[t] # NULL
      /\ head' = head /\ tail' = Push(tail) /\ count' = count + 1
      /\ buffer' = [buffer EXCEPT ![tail] = mine[t]]
      /\ head \in Slots /\ tail \in Slots /\ count \in 0..(Capacity - 1)
      /\ buffer \in [Slots -> Calls \union {NULL}]
      /\ tail = (head + count) % Capacity
  BY CapacityAssumption
     DEF SendBuffered, HasRoom, TypeInv, TypeOK, ControlInv, InCS, RingInv,
         SlotOf, NULL, Calls
<1>2. tail' = (head' + count') % Capacity
  BY <1>1, PushSlot
<1>3. ASSUME NEW i \in 0..(count' - 1)
      PROVE  buffer'[(head' + i) % Capacity] # NULL
  <2>0. i \in 0..Capacity
    BY <1>1, CapacityAssumption
  <2>1. (head + i) % Capacity \in Slots
    BY <1>1, <2>0, SlotCases
  <2>2. CASE i = count
    BY <1>1, <2>1, <2>2
  <2>3. CASE i # count
    <3>1. i \in 0..(count - 1)
      BY <1>1, <2>3
    <3>2. buffer[(head + i) % Capacity] # NULL
      BY <3>1 DEF RingInv, SlotOf
    <3>. QED
      BY <1>1, <2>1, <3>2
  <2>. QED
    BY <2>2, <2>3
<1>. QED
  BY <1>2, <1>3 DEF RingInv, SlotOf

\* A receive advances head, which renumbers the slots; a refill writes a
\* value at the slot that tail had reached.
LEMMA RingRecv ==
  ASSUME TypeInv, RingInv, NoStarvedPair, NEW t \in Threads, RecvBuffered(t)
  PROVE  RingInv'
<1>1. /\ head \in Slots /\ tail \in Slots /\ count \in 1..Capacity
      /\ buffer \in [Slots -> Calls \union {NULL}]
      /\ head' = Push(head) /\ Push(head) \in Slots
      /\ tail = (head + count) % Capacity
  BY PushCases, CapacityAssumption
     DEF RecvBuffered, TypeInv, TypeOK, RingInv, SlotOf
<1>2. ASSUME NEW i \in 0..(Capacity - 1)
      PROVE  (head' + i) % Capacity = (head + (i + 1)) % Capacity
  BY <1>1, ShiftSlot
<1>3. ASSUME NEW i \in 0..(count - 2)
      PROVE  /\ i \in 0..(Capacity - 1)
             /\ buffer[(head' + i) % Capacity] # NULL
  <2>1. i \in 0..(Capacity - 1) /\ i + 1 \in 0..(count - 1)
    BY <1>1, CapacityAssumption
  <2>2. buffer[(head + (i + 1)) % Capacity] # NULL
    BY <2>1 DEF RingInv, SlotOf
  <2>. QED
    BY <2>1, <2>2, <1>2
<1>4. (head' + (count - 1)) % Capacity = tail
  <2>1. count - 1 \in 0..(Capacity - 1) /\ (count - 1) + 1 = count
    BY <1>1, CapacityAssumption
  <2>. QED
    BY <1>1, <1>2, <2>1
<1>5. CASE waiting_senders = <<>>
  <2>1. count' = count - 1 /\ UNCHANGED <<buffer, tail>>
    BY <1>5 DEF RecvBuffered
  <2>2. \A i \in 0..(count' - 1) : i \in 0..(count - 2)
    BY <1>1, <2>1
  <2>. QED
    BY <1>3, <1>4, <2>1, <2>2 DEF RingInv, SlotOf
<1>6. CASE waiting_senders # <<>>
  <2>1. /\ count' = count /\ tail' = Push(tail)
        /\ Head(waiting_senders) \in Calls
        /\ buffer' = [buffer EXCEPT ![tail] = Head(waiting_senders)]
    BY <1>1, <1>6, CapacityAssumption DEF RecvBuffered, Refill, TypeInv, TypeOK
  <2>2. Head(waiting_senders) # NULL
    BY <2>1 DEF Calls, NULL
  <2>3. tail' = (head' + count') % Capacity
    <3>1. count - 1 \in 0..(Capacity - 1) /\ (count - 1) + 1 = count
      BY <1>1, CapacityAssumption
    <3>2. Push((head' + (count - 1)) % Capacity) = (head' + count) % Capacity
      BY <1>1, <3>1, PushSlot
    <3>. QED
      BY <1>4, <2>1, <3>2
  <2>4. ASSUME NEW i \in 0..(count' - 1)
        PROVE  buffer'[(head' + i) % Capacity] # NULL
    <3>1. CASE i = count - 1
      BY <1>1, <1>4, <2>1, <2>2, <3>1
    <3>2. CASE i # count - 1
      <4>1. i \in 0..(count - 2) /\ i \in 0..Capacity
        BY <1>1, <2>1, <3>2, CapacityAssumption
      <4>2. (head' + i) % Capacity \in Slots
        BY <1>1, <4>1, SlotCases
      <4>. QED
        BY <1>1, <1>3, <2>1, <2>2, <4>1, <4>2
    <3>. QED
      BY <3>1, <3>2
  <2>. QED
    BY <2>3, <2>4 DEF RingInv, SlotOf
<1>. QED
  BY <1>5, <1>6

\* Which critical sections touch the ring.
LEMMA RingStep ==
  ASSUME IInv, [Next]_vars
  PROVE  RingInv'
<1>. USE DEF IInv
<1>1. CASE \E t \in Threads : RecvBuffered(t)
  BY <1>1, RingRecv DEF TypeInv
<1>2. CASE \E t \in Threads : SendBuffered(t)
  BY <1>2, RingSend DEF TypeInv
<1>3. CASE ~(\E t \in Threads : RecvBuffered(t) \/ SendBuffered(t))
  <2>1. UNCHANGED <<buffer, head, tail, count>>
    BY <1>3 DEF Next, Step, vars, chan, Channel_recv, Channel_send, Begin,
       Channel_close, SpinAcquire, RecvClosed, RecvWait, SendClosed,
       SendHandoff, SendWait, CloseReceiver, CloseSender, CloseDone,
       SettleNext, Cancel
  <2>. QED
    BY <2>1, RingUnchanged
<1>. QED
  BY <1>1, <1>2, <1>3

\* A waiter is pushed only when its side of the buffer is exhausted, and the
\* buffer moves away from that state only when the waiters are gone.
LEMMA WaitersStep ==
  ASSUME IInv, [Next]_vars
  PROVE  NoStarvedPair'
<1>. USE DEF IInv
<1>1. CASE \E t \in Threads : RecvBuffered(t)
  <2>1. PICK t \in Threads : RecvBuffered(t)
    BY <1>1
  <2>2. /\ waiting_receivers' = <<>>
        /\ count \in 1..Capacity
    BY <2>1, CapacityAssumption DEF RecvBuffered, NoStarvedPair, TypeOK
  <2>3. CASE waiting_senders = <<>>
    BY <2>1, <2>2, <2>3 DEF RecvBuffered, NoStarvedPair
  <2>4. CASE waiting_senders # <<>>
    BY <2>1, <2>2, <2>4, CapacityAssumption DEF RecvBuffered, Refill, NoStarvedPair
  <2>. QED
    BY <2>3, <2>4
<1>2. CASE \E t \in Threads : SendBuffered(t)
  BY <1>2, CapacityAssumption DEF SendBuffered, HasRoom, NoStarvedPair, TypeOK
<1>3. CASE \E t \in Threads : RecvWait(t)
  BY <1>3, CapacityAssumption DEF RecvWait, NoStarvedPair, TypeOK
<1>4. CASE \E t \in Threads : SendWait(t)
  BY <1>4, CapacityAssumption DEF SendWait, HasRoom, NoStarvedPair, TypeOK
<1>5. CASE \E t \in Threads : SendHandoff(t) \/ CloseReceiver(t)
  BY <1>5 DEF SendHandoff, CloseReceiver, NoStarvedPair
<1>6. CASE \E t \in Threads : CloseSender(t)
  BY <1>6 DEF CloseSender, NoStarvedPair
<1>7. CASE ~(\E t \in Threads : \/ RecvBuffered(t) \/ SendBuffered(t) \/ RecvWait(t)
                                 \/ SendWait(t) \/ SendHandoff(t)
                                 \/ CloseReceiver(t) \/ CloseSender(t))
  <2>1. UNCHANGED <<count, waiting_receivers, waiting_senders>>
    BY <1>7 DEF Next, Step, vars, chan, Channel_recv, Channel_send, Begin,
       Channel_close, SpinAcquire, RecvClosed, SendClosed, CloseDone,
       SettleNext, Cancel
  <2>. QED
    BY <2>1 DEF NoStarvedPair
<1>. QED
  BY <1>1, <1>2, <1>3, <1>4, <1>5, <1>6, <1>7

\* A close leaves its critical section only with both stacks empty, and
\* nobody is pushed on them afterwards.
LEMMA CloseStep ==
  ASSUME IInv, [Next]_vars
  PROVE  ClosedLeavesNobody'
<1>. USE DEF IInv
<1>1. CASE \E t \in Threads : SpinAcquire(t)
  <2>1. PICK t \in Threads : SpinAcquire(t)
    BY <1>1
  <2>2. CASE pc[t] = "close"
    BY <2>1, <2>2 DEF SpinAcquire, ClosedLeavesNobody, TypeOK
  <2>3. CASE pc[t] # "close"
    <3>1. /\ is_closed' = is_closed
          /\ UNCHANGED <<waiting_receivers, waiting_senders>>
          /\ \A u \in Threads : pc[u] = "close_cs" => pc'[u] = "close_cs"
      BY <2>1, <2>3 DEF SpinAcquire, TypeOK, Spinning
    <3>. QED
      BY <3>1 DEF ClosedLeavesNobody
  <2>. QED
    BY <2>2, <2>3
<1>2. CASE \E t \in Threads : CloseDone(t)
  BY <1>2 DEF CloseDone, chan, ClosedLeavesNobody
<1>3. CASE \E t \in Threads : CloseReceiver(t) \/ CloseSender(t)
  BY <1>3 DEF CloseReceiver, CloseSender, ClosedLeavesNobody
<1>4. CASE \E t \in Threads : RecvBuffered(t)
  <2>1. PICK t \in Threads : RecvBuffered(t)
    BY <1>4
  <2>2. /\ UNCHANGED <<is_closed, waiting_receivers>>
        /\ waiting_senders = <<>> => waiting_senders' = <<>>
        /\ \A u \in Threads : pc[u] = "close_cs" => pc'[u] = "close_cs"
    BY <2>1 DEF RecvBuffered, Unlock, TypeOK
  <2>. QED
    BY <2>2 DEF ClosedLeavesNobody
<1>5. CASE \E t \in Threads : \/ RecvWait(t) \/ SendHandoff(t)
                              \/ SendBuffered(t) \/ SendWait(t)
  BY <1>5 DEF RecvWait, SendHandoff, SendBuffered, SendWait, ClosedLeavesNobody
<1>6. CASE \/ UNCHANGED vars
           \/ \E t \in Threads : \/ Channel_recv(t) \/ Channel_send(t)
                                 \/ Channel_close(t) \/ RecvClosed(t)
                                 \/ SendClosed(t) \/ SettleNext(t)
           \/ \E p \in Calls : Cancel(p)
  <2>1. /\ UNCHANGED <<is_closed, waiting_receivers, waiting_senders>>
        /\ \A u \in Threads : pc[u] = "close_cs" => pc'[u] = "close_cs"
    BY <1>6 DEF vars, chan, Channel_recv, Channel_send, Begin, Channel_close,
       RecvClosed, SendClosed, Unlock, SettleNext, Cancel, TypeOK
  <2>. QED
    BY <2>1 DEF ClosedLeavesNobody
<1>. QED
  BY <1>1, <1>2, <1>3, <1>4, <1>5, <1>6 DEF Next, Step

-----------------------------------------------------------------------------
\* IInv is an inductive invariant of the channel.
THEOREM Invariance == Spec => []IInv
<1>1. Init => IInv
  <2>. SUFFICES ASSUME Init PROVE IInv
    OBVIOUS
  <2>1. RingInv
    <3>1. 0 \in Slots /\ 0 \in 0..Capacity
      BY CapacityAssumption DEF Slots
    <3>2. (0 + 0) % Capacity = 0
      BY <3>1, SlotCases, CapacityAssumption
    <3>. QED
      BY <3>2 DEF Init, RingInv, SlotOf
  <2>2. NoStarvedPair /\ ClosedLeavesNobody
    BY DEF Init, NoStarvedPair, ClosedLeavesNobody
  <2>. QED
    BY <2>1, <2>2, InitType DEF IInv, TypeInv
<1>2. IInv /\ [Next]_vars => IInv'
  BY TypeStep, RingStep, WaitersStep, CloseStep DEF IInv, TypeInv
<1>. QED
  BY <1>1, <1>2, PTL DEF Spec

\* Whatever mix of sends, receives and refills moved head and tail, the
\* ring of channel.c stays a ring of values, for every capacity.
THEOREM RingStaysRing == Spec => []RingInv
<1>1. IInv => RingInv
  BY DEF IInv
<1>. QED
  BY <1>1, Invariance, PTL

\* No receiver waits while a value is buffered and no sender while there is
\* room: the two kinds of waiters never block each other.
THEOREM NobodyWaitsForNothing == Spec => []NoStarvedPair
<1>1. IInv => NoStarvedPair
  BY DEF IInv
<1>. QED
  BY <1>1, Invariance, PTL

\* A finished Channel_close leaves nobody on a wait stack, ever again.
THEOREM CloseIsFinal == Spec => []ClosedLeavesNobody
<1>1. IInv => ClosedLeavesNobody
  BY DEF IInv
<1>. QED
  BY <1>1, Invariance, PTL

-----------------------------------------------------------------------------
(* The hands a promise and a value pass through, as sets.                  *)

\* The promises of the receives and sends that have not been decided yet.
Calling == {"recv", "send", "recv_cs", "send_cs"}
Fresh   == {mine[t] : t \in {u \in Threads : pc[u] \in Calling}}

Receivers == Range(waiting_receivers)
Senders   == Range(waiting_senders)

\* The settlements that threads owe after their unlock.
Owed     == UNION {Range(todo[t]) : t \in Threads}
Promised == {s.handle : s \in Owed}

\* The values that sit in the ring, travel in a settlement, were delivered,
\* and were refused.
Stored    == {buffer[SlotOf(i)] : i \in 0..(count - 1)}
Travels(v)   == \E s \in Owed : s.data = v
Delivered(v) == \E c \in Calls : status[c] = "resolved" /\ result_data[c] = v
Refused(v)   == \E d \in dropped : d[2] = v
Held(v) ==
  v \in Stored \/ v \in Senders \/ Travels(v) \/ Delivered(v) \/ Refused(v)

\* No two of the five.
OneHand(v) ==
  /\ v \in Stored  => v \notin Senders /\ ~Travels(v) /\ ~Delivered(v) /\ ~Refused(v)
  /\ v \in Senders => ~Travels(v) /\ ~Delivered(v) /\ ~Refused(v)
  /\ Travels(v)    => ~Delivered(v) /\ ~Refused(v)
  /\ Delivered(v)  => ~Refused(v)

Distinct(s) == \A i, j \in DOMAIN s : s[i] = s[j] => i = j

-----------------------------------------------------------------------------
(* The inductive invariant.                                                *)

\* No two threads are in the same call, nothing is left to settle outside
\* the settling phase, and only a close that closed the channel refuses.
ThreadInv ==
  /\ \A t \in Threads : mine[t] <= made
  /\ \A t, u \in Threads : mine[t] = mine[u] /\ mine[t] # NULL => t = u
  /\ \A t \in Threads : pc[t] # "settle" => todo[t] = <<>>
  /\ \A t \in Threads : pc[t] = "close_cs" => is_closed

\* Nothing is twice in the same stack, ring or list.
DistinctInv ==
  /\ Distinct(waiting_receivers) /\ Distinct(waiting_senders)
  /\ \A i, j \in 0..(count - 1) : buffer[SlotOf(i)] = buffer[SlotOf(j)] => i = j
  /\ \A t \in Threads : Distinct(todo[t])
  /\ \A t, u \in Threads : t # u => Range(todo[t]) \cap Range(todo[u]) = {}

\* An unsettled promise is in one hand, which will settle it, and a settled
\* one in none; a promise that refused a value was cancelled and is in none.
PromiseInv ==
  /\ Fresh \cap Receivers = {} /\ Fresh \cap Senders = {} /\ Fresh \cap Promised = {}
  /\ Receivers \cap Senders = {} /\ Receivers \cap Promised = {}
  /\ Senders \cap Promised = {}
  /\ \A a, b \in Owed : a.handle = b.handle => a = b
  /\ \A p \in Calls : p > made => status[p] = "none"
  /\ \A p \in Fresh : status[p] = "pending"
  /\ \A p \in Receivers \union Senders \union Promised :
       status[p] \in {"pending", "cancelled"}
  /\ \A d \in dropped : /\ status[d[1]] = "cancelled"
                        /\ d[1] \notin Receivers \union Senders \union Promised
  /\ \A d, e \in dropped : d[1] = e[1] => d = e

\* A value is in one hand, and only the value of a send that is accepted, or
\* about to be, or still waits, is in any.
ValueInv ==
  /\ \A v \in Calls : OneHand(v)
  /\ \A a, b \in Owed : a.data = b.data /\ a.data # NULL => a = b
  /\ \A c, d \in Calls :
       /\ status[c] = "resolved" /\ status[d] = "resolved"
       /\ result_data[c] = result_data[d] /\ result_data[c] # NULL
       => c = d
  /\ \A d, e \in dropped : d[2] = e[2] => d = e
  /\ \A v \in Calls : Held(v) => /\ v \notin Fresh /\ v \notin Receivers
                                 /\ status[v] \notin {"none", "rejected"}
  /\ \A s \in Owed : Held(s.handle) <=> s.to = "resolved" /\ s.data = NULL
  /\ \A s \in Owed : s.to = "rejected" => s.data = NULL
  /\ \A v \in Calls : Accepted(v) => Held(v)

DInv == IInv /\ ThreadInv /\ DistinctInv /\ PromiseInv /\ ValueInv

-----------------------------------------------------------------------------
(* Stacks of distinct elements as sets.                                    *)

LEMMA PopStack ==
  ASSUME NEW S, NEW s \in Seq(S), s # <<>>, Distinct(s)
  PROVE  /\ Head(s) \in S /\ Tail(s) \in Seq(S)
         /\ Head(s) \in Range(s)
         /\ Range(Tail(s)) = Range(s) \ {Head(s)}
         /\ Distinct(Tail(s))
<1>1. /\ Head(s) \in S /\ Tail(s) \in Seq(S)
      /\ Len(s) \in Nat \ {0} /\ Len(Tail(s)) = Len(s) - 1
      /\ \A i \in 1..Len(Tail(s)) : Tail(s)[i] = s[i + 1]
  BY HeadTailProperties, EmptySeq
<1>2. /\ DOMAIN s = 1..Len(s) /\ DOMAIN Tail(s) = 1..Len(Tail(s))
  BY <1>1, LenProperties
<1>3. Head(s) = s[1]
  BY <1>1
<1>. DEFINE n == Len(s)
            u == Tail(s)
<1>4. /\ n \in Nat \ {0} /\ DOMAIN s = 1..n /\ DOMAIN u = 1..(n - 1)
      /\ \A i \in 1..(n - 1) : u[i] = s[i + 1]
  BY <1>1, <1>2
<1>. HIDE DEF n, u
<1>5. Range(u) = Range(s) \ {s[1]}
  <2>1. ASSUME NEW x \in Range(u)
        PROVE  x \in Range(s) /\ x # s[1]
    <3>1. PICK i \in 1..(n - 1) : x = s[i + 1]
      BY <1>4, <2>1 DEF Range
    <3>2. i + 1 \in 1..n /\ 1 \in 1..n /\ i + 1 # 1
      BY <1>4
    <3>. QED
      BY <1>4, <3>1, <3>2 DEF Range, Distinct
  <2>2. ASSUME NEW x \in Range(s), x # s[1]
        PROVE  x \in Range(u)
    <3>1. PICK i \in 1..n : x = s[i]
      BY <1>4 DEF Range
    <3>2. i - 1 \in 1..(n - 1) /\ (i - 1) + 1 = i
      BY <1>4, <2>2, <3>1
    <3>3. u[i - 1] = x
      BY <1>4, <3>1, <3>2
    <3>. QED
      BY <1>4, <3>2, <3>3 DEF Range
  <2>. QED
    BY <2>1, <2>2
<1>6. Distinct(u)
  <2>. SUFFICES ASSUME NEW i \in 1..(n - 1), NEW j \in 1..(n - 1), u[i] = u[j]
                PROVE  i = j
    BY <1>4 DEF Distinct
  <2>1. s[i + 1] = s[j + 1] /\ i + 1 \in 1..n /\ j + 1 \in 1..n
    BY <1>4
  <2>2. i + 1 = j + 1
    BY <1>4, <2>1 DEF Distinct
  <2>. QED
    BY <1>4, <2>2
<1>7. s[1] \in Range(s)
  BY <1>4 DEF Range
<1>. QED
  BY <1>1, <1>3, <1>5, <1>6, <1>7 DEF u

LEMMA PushStack ==
  ASSUME NEW S, NEW s \in Seq(S), NEW x \in S, x \notin Range(s), Distinct(s)
  PROVE  /\ <<x>> \o s \in Seq(S)
         /\ Range(<<x>> \o s) = Range(s) \union {x}
         /\ Distinct(<<x>> \o s)
<1>. DEFINE n == Len(s)
            u == <<x>> \o s
<1>1. <<x>> \in Seq(S) /\ Len(<<x>>) = 1 /\ <<x>>[1] = x
  OBVIOUS
<1>2. n \in Nat /\ DOMAIN s = 1..n
  BY LenProperties
<1>3. /\ u \in Seq(S) /\ Len(u) = 1 + n
      /\ \A i \in 1..(1 + n) : u[i] = IF i <= 1 THEN <<x>>[i] ELSE s[i - 1]
  BY <1>1, ConcatProperties
<1>4. DOMAIN u = 1..(n + 1)
  BY <1>2, <1>3, LenProperties
<1>5. u[1] = x /\ \A i \in 1..n : u[i + 1] = s[i]
  BY <1>1, <1>2, <1>3
<1>. HIDE DEF n, u
<1>6. Range(u) = Range(s) \union {x}
  <2>1. ASSUME NEW y \in Range(u)
        PROVE  y \in Range(s) \union {x}
    <3>1. PICK i \in 1..(n + 1) : y = u[i]
      BY <1>4 DEF Range
    <3>2. CASE i = 1
      BY <1>5, <3>1, <3>2
    <3>3. CASE i # 1
      <4>1. i - 1 \in 1..n /\ (i - 1) + 1 = i
        BY <1>2, <3>3
      <4>2. y = s[i - 1]
        BY <1>5, <3>1, <4>1
      <4>. QED
        BY <1>2, <4>1, <4>2 DEF Range
    <3>. QED
      BY <3>2, <3>3
  <2>2. ASSUME NEW y \in Range(s)
        PROVE  y \in Range(u)
    <3>1. PICK i \in 1..n : y = s[i]
      BY <1>2 DEF Range
    <3>2. i + 1 \in 1..(n + 1) /\ u[i + 1] = y
      BY <1>2, <1>5, <3>1
    <3>. QED
      BY <1>4, <3>2 DEF Range
  <2>3. x \in Range(u)
    <3>1. 1 \in 1..(n + 1)
      BY <1>2
    <3>. QED
      BY <1>4, <1>5, <3>1 DEF Range
  <2>. QED
    BY <2>1, <2>2, <2>3
<1>7. Distinct(u)
  <2>. SUFFICES ASSUME NEW i \in 1..(n + 1), NEW j \in 1..(n + 1), u[i] = u[j]
                PROVE  i = j
    BY <1>4 DEF Distinct
  <2>1. \A k \in 1..(n + 1) : k # 1 => k - 1 \in 1..n /\ u[k] = s[k - 1]
    <3>. SUFFICES ASSUME NEW k \in 1..(n + 1), k # 1
                  PROVE  k - 1 \in 1..n /\ u[k] = s[k - 1]
      OBVIOUS
    <3>1. k - 1 \in 1..n /\ (k - 1) + 1 = k
      BY <1>2
    <3>. QED
      BY <1>5, <3>1
  <2>2. \A k \in 1..(n + 1) : k # 1 => u[k] # x
    BY <1>2, <2>1 DEF Range
  <2>3. CASE i = 1 \/ j = 1
    BY <1>5, <2>2, <2>3
  <2>4. CASE i # 1 /\ j # 1
    <3>1. i - 1 = j - 1
      BY <1>2, <2>1, <2>4 DEF Distinct
    <3>. QED
      BY <1>2, <3>1
  <2>. QED
    BY <2>3, <2>4
<1>. QED
  BY <1>3, <1>6, <1>7 DEF u

-----------------------------------------------------------------------------
(* What the steps do to the sets.                                          *)

\* What a thread leaves to settle, when it releases the lock.
LEMMA UnlockOwes ==
  ASSUME TypeOK, ThreadInv, NEW t \in Threads, pc[t] # "settle",
         NEW rest \in Seq(Settlement), Unlock(t, rest)
  PROVE  /\ Owed' = Owed \union Range(rest)
         /\ todo'[t] = rest /\ \A u \in Threads \ {t} : todo'[u] = todo[u]
<1>1. todo[t] = <<>> /\ todo'[t] = rest /\ \A u \in Threads \ {t} : todo'[u] = todo[u]
  BY DEF ThreadInv, Unlock, TypeOK
<1>2. Range(<<>>) = {}
  BY DEF Range
<1>. QED
  BY <1>1, <1>2 DEF Owed

\* A call that decides its promise takes it out of Fresh.
LEMMA UnlockDecides ==
  ASSUME TypeOK, ControlInv, ThreadInv, NEW t \in Threads,
         pc[t] \in {"recv_cs", "send_cs"},
         NEW rest \in Seq(Settlement), Unlock(t, rest)
  PROVE  /\ Fresh' = Fresh \ {mine[t]}
         /\ mine[t] \in Fresh /\ mine[t] \in Calls
<1>1. mine[t] \in Calls /\ mine[t] # NULL
  BY DEF ControlInv, InCS, Calls, NULL
<1>2. /\ mine' = mine /\ pc'[t] \notin Calling
      /\ \A u \in Threads \ {t} : pc'[u] = pc[u]
  BY DEF Unlock, TypeOK, Calling
<1>3. \A u \in Threads \ {t} : mine[u] # mine[t]
  BY <1>1 DEF ThreadInv
<1>. QED
  BY <1>1, <1>2, <1>3 DEF Fresh, Calling

\* Releasing the lock keeps what is said about threads and lists, if the
\* settlements left are new and of different promises.
LEMMA UnlockThreads ==
  ASSUME TypeOK, ThreadInv, NEW t \in Threads, pc[t] # "settle",
         NEW rest \in Seq(Settlement), Unlock(t, rest), is_closed' = is_closed
  PROVE  ThreadInv'
BY DEF ThreadInv, Unlock, TypeOK

LEMMA UnlockLists ==
  ASSUME TypeOK, ThreadInv, DistinctInv, NEW t \in Threads, pc[t] # "settle",
         NEW rest \in Seq(Settlement), Unlock(t, rest),
         Distinct(rest), Range(rest) \cap Owed = {}
  PROVE  /\ \A u \in Threads : Distinct(todo'[u])
         /\ \A u, w \in Threads : u # w => Range(todo'[u]) \cap Range(todo'[w]) = {}
<1>1. todo'[t] = rest /\ \A u \in Threads \ {t} : todo'[u] = todo[u]
  BY UnlockOwes
<1>2. \A u \in Threads : Range(todo[u]) \subseteq Owed
  BY DEF Owed
<1>. QED
  BY <1>1, <1>2 DEF DistinctInv

\* One or two settlements as a list and as a set.
LEMMA OneLeft ==
  ASSUME NEW a \in Settlement
  PROVE  /\ <<a>> \in Seq(Settlement) /\ Range(<<a>>) = {a} /\ Distinct(<<a>>)
<1>1. <<a>> \in Seq(Settlement) /\ Len(<<a>>) = 1 /\ <<a>>[1] = a
  OBVIOUS
<1>2. DOMAIN <<a>> = {1}
  BY <1>1, LenProperties
<1>. QED
  BY <1>1, <1>2 DEF Range, Distinct

LEMMA TwoLeft ==
  ASSUME NEW a \in Settlement, NEW b \in Settlement, a # b
  PROVE  /\ <<a, b>> \in Seq(Settlement) /\ Range(<<a, b>>) = {a, b}
         /\ Distinct(<<a, b>>)
<1>1. <<a, b>> \in Seq(Settlement) /\ Len(<<a, b>>) = 2
      /\ <<a, b>>[1] = a /\ <<a, b>>[2] = b
  OBVIOUS
<1>2. DOMAIN <<a, b>> = {1, 2}
  <2>1. DOMAIN <<a, b>> = 1..2
    BY <1>1, LenProperties
  <2>. QED
    BY <2>1
<1>. QED
  BY <1>1, <1>2 DEF Range, Distinct

\* The types of the sets.
LEMMA SetTypes ==
  ASSUME TypeOK
  PROVE  /\ Receivers \subseteq Calls /\ Senders \subseteq Calls
         /\ Owed \subseteq Settlement /\ Promised \subseteq Calls
         /\ Fresh \subseteq Calls \union {NULL}
<1>1. Receivers \subseteq Calls /\ Senders \subseteq Calls
  BY RangeOfSeq DEF TypeOK, Receivers, Senders
<1>2. \A t \in Threads : Range(todo[t]) \subseteq Settlement
  <2>. SUFFICES ASSUME NEW t \in Threads
                PROVE  Range(todo[t]) \subseteq Settlement
    OBVIOUS
  <2>1. todo[t] \in Seq(Settlement)
    BY DEF TypeOK
  <2>. QED
    BY <2>1, RangeOfSeq
<1>3. Owed \subseteq Settlement
  BY <1>2 DEF Owed
<1>4. Promised \subseteq Calls
  BY <1>3 DEF Promised, Settlement
<1>5. Fresh \subseteq Calls \union {NULL}
  BY DEF Fresh, TypeOK
<1>. QED
  BY <1>1, <1>3, <1>4, <1>5

-----------------------------------------------------------------------------
(* Steps that decide nothing.                                              *)

\* A thread that enters recv or send has a promise nobody ever saw.
LEMMA BeginKeeps ==
  ASSUME DInv, NEW t \in Threads, NEW op \in {"recv", "send"}, Begin(t, op)
  PROVE  ThreadInv' /\ DistinctInv' /\ PromiseInv' /\ ValueInv'
<1>. DEFINE n == made + 1
<1>1. /\ TypeOK /\ ThreadInv /\ DistinctInv /\ PromiseInv /\ ValueInv
      /\ pc[t] = "idle" /\ made \in Nat /\ n \in Calls
  BY MaxCallsAssumption DEF DInv, IInv, Begin, TypeOK, Calls
<1>2. /\ made' = n /\ status' = [status EXCEPT ![n] = "pending"]
      /\ mine' = [mine EXCEPT ![t] = n] /\ pc' = [pc EXCEPT ![t] = op]
      /\ UNCHANGED <<chan, result_data, dropped, todo>>
  BY DEF Begin
<1>3. /\ Receivers' = Receivers /\ Senders' = Senders /\ Owed' = Owed
      /\ Promised' = Promised /\ Stored' = Stored
  BY <1>2 DEF chan, Receivers, Senders, Owed, Promised, Stored, SlotOf
<1>4. status[n] = "none" /\ \A p \in Calls : p # n => status'[p] = status[p]
  BY <1>1, <1>2 DEF PromiseInv, TypeOK, Calls
<1>5. Fresh' = Fresh \union {n}
  BY <1>1, <1>2 DEF Fresh, Calling, TypeOK
<1>. HIDE DEF n
<1>6. ThreadInv'
  <2>1. mine \in [Threads -> Calls \union {NULL}] /\ pc \in [Threads -> PCs]
    BY <1>1 DEF TypeOK
  <2>2. \A u \in Threads : mine[u] <= made /\ mine[u] # n /\ mine[u] \in Nat
    BY <1>1, <2>1 DEF ThreadInv, n, Calls, NULL
  <2>. QED
    BY <1>1, <1>2, <2>1, <2>2 DEF ThreadInv, chan, n
<1>7. DistinctInv'
  BY <1>1, <1>2 DEF DistinctInv, chan, SlotOf
<1>8. PromiseInv'
  <2>1. /\ n \notin Receivers /\ n \notin Senders /\ n \notin Promised /\ n \notin Fresh
        /\ \A d \in dropped : d[1] # n
    BY <1>1, <1>4 DEF PromiseInv
  <2>2. /\ Receivers \subseteq Calls /\ Senders \subseteq Calls
        /\ Promised \subseteq Calls /\ Fresh \subseteq Calls \union {NULL}
        /\ \A d \in dropped : d[1] \in Calls
    BY <1>1, SetTypes DEF TypeOK
  <2>3. \A p \in Fresh' : status'[p] = "pending"
    <3>1. NULL \notin Fresh
      BY <1>1 DEF DInv, IInv, ControlInv, Fresh, Calling, Spinning, InCS, Calls, NULL
    <3>. QED
      BY <1>1, <1>2, <1>4, <1>5, <2>1, <2>2, <3>1 DEF PromiseInv, TypeOK
  <2>4. \A p \in Calls : p > made' => status'[p] = "none"
    BY <1>1, <1>2, <1>4 DEF PromiseInv, n, Calls
  <2>. QED
    BY <1>1, <1>2, <1>3, <1>4, <1>5, <2>1, <2>2, <2>3, <2>4 DEF PromiseInv
<1>9. ValueInv'
  <2>1. \A v \in Calls : /\ Delivered(v)' <=> Delivered(v)
                         /\ Refused(v)' <=> Refused(v)
                         /\ Travels(v)' <=> Travels(v)
    BY <1>1, <1>2, <1>3, <1>4 DEF Delivered, Refused, Travels, TypeOK
  <2>2. \A v \in Calls : /\ Held(v)' <=> Held(v)
                         /\ OneHand(v)' <=> OneHand(v)
    BY <1>3, <2>1 DEF Held, OneHand
  <2>3. ~Held(n)
    BY <1>1, <1>4 DEF ValueInv
  <2>4. \A c \in Calls : status'[c] = "resolved" <=> status[c] = "resolved"
    BY <1>1, <1>2, <1>4 DEF TypeOK
  <2>5. \A v \in Calls : Accepted(v)' => Accepted(v)
    BY <1>2, <2>4 DEF Accepted
  <2>6. \A s \in Owed : s.handle \in Calls
    BY <1>1, SetTypes DEF Settlement
  <2>7. \A v \in Calls : Held(v)' => /\ v \notin Fresh' /\ v \notin Receivers'
                                     /\ status'[v] \notin {"none", "rejected"}
    BY <1>1, <1>3, <1>4, <1>5, <2>2, <2>3 DEF ValueInv
  <2>. QED
    BY <1>1, <1>2, <1>3, <2>2, <2>4, <2>5, <2>6, <2>7 DEF ValueInv
<1>. QED
  BY <1>6, <1>7, <1>8, <1>9

\* Steps that move no promise and no value.
LEMMA QuietKeeps ==
  ASSUME DInv, Fresh' = Fresh, made' \in {made, made + 1},
         UNCHANGED <<buffer, head, count, waiting_receivers, waiting_senders,
                     todo, status, result_data, dropped>>
  PROVE  DistinctInv' /\ PromiseInv' /\ ValueInv'
<1>1. TypeOK /\ DistinctInv /\ PromiseInv /\ ValueInv
  BY DEF DInv, IInv
<1>2. /\ Receivers' = Receivers /\ Senders' = Senders /\ Owed' = Owed
      /\ Promised' = Promised /\ Stored' = Stored
  BY DEF Receivers, Senders, Owed, Promised, Stored, SlotOf
<1>3. DistinctInv'
  BY <1>1 DEF DistinctInv, SlotOf
<1>4. PromiseInv'
  <2>1. \A p \in Calls : p > made' => p > made
    BY <1>1 DEF TypeOK, Calls
  <2>. QED
    BY <1>1, <1>2, <2>1 DEF PromiseInv
<1>5. ValueInv'
  <2>1. \A v : /\ Delivered(v)' <=> Delivered(v)
               /\ Refused(v)' <=> Refused(v)
               /\ Travels(v)' <=> Travels(v)
               /\ Accepted(v)' <=> Accepted(v)
    BY <1>2 DEF Delivered, Refused, Travels, Accepted
  <2>2. \A v : /\ Held(v)' <=> Held(v)
               /\ OneHand(v)' <=> OneHand(v)
    BY <1>2, <2>1 DEF Held, OneHand
  <2>. QED
    BY <1>1, <1>2, <2>1, <2>2 DEF ValueInv
<1>. QED
  BY <1>3, <1>4, <1>5

LEMMA CloseKeeps ==
  ASSUME DInv, NEW t \in Threads, Channel_close(t) \/ SpinAcquire(t) \/ CloseDone(t)
  PROVE  ThreadInv' /\ DistinctInv' /\ PromiseInv' /\ ValueInv'
<1>0. TypeOK /\ ThreadInv
  BY DEF DInv, IInv
<1>1. CASE Channel_close(t)
  <2>1. made \in Nat /\ \A u \in Threads : mine[u] <= made /\ mine[u] # made + 1 /\ mine[u] \in Nat
    BY <1>0 DEF TypeOK, ThreadInv, Calls, NULL
  <2>2. ThreadInv'
    BY <1>0, <1>1, <2>1 DEF Channel_close, ThreadInv, TypeOK, chan
  <2>3. Fresh' = Fresh
    BY <1>0, <1>1 DEF Channel_close, Fresh, Calling, TypeOK
  <2>. QED
    BY <1>1, <2>2, <2>3, QuietKeeps DEF Channel_close, chan, proms
<1>2. CASE SpinAcquire(t)
  <2>1. /\ \A u \in Threads \ {t} : pc'[u] = pc[u]
        /\ pc[t] = "recv" => pc'[t] = "recv_cs"
        /\ pc[t] = "send" => pc'[t] = "send_cs"
        /\ pc[t] = "close" => pc'[t] = "close_cs" /\ is_closed'
        /\ pc[t] \in {"recv", "send", "close"} /\ mine' = mine
        /\ made' = made /\ todo' = todo /\ (is_closed => is_closed')
    BY <1>0, <1>2 DEF SpinAcquire, TypeOK, Spinning
  <2>2. ThreadInv'
    BY <1>0, <2>1 DEF ThreadInv
  <2>3. Fresh' = Fresh
    BY <2>1 DEF Fresh, Calling
  <2>. QED
    BY <1>2, <2>1, <2>2, <2>3, QuietKeeps DEF SpinAcquire, proms
<1>3. CASE CloseDone(t)
  <2>1. /\ pc[t] = "close_cs" /\ todo[t] = <<>> /\ Unlock(t, <<>>)
        /\ UNCHANGED <<chan, proms>>
    BY <1>0, <1>3 DEF CloseDone, ThreadInv
  <2>2. todo' = todo /\ mine' = mine /\ made' = made
    BY <1>0, <2>1 DEF Unlock, TypeOK
  <2>3. <<>> \in Seq(Settlement) /\ is_closed' = is_closed
    BY <2>1, EmptySeq DEF chan
  <2>4. ThreadInv'
    BY <1>0, <2>1, <2>3, UnlockThreads
  <2>5. Fresh' = Fresh
    BY <1>0, <2>1, <2>2 DEF Unlock, Fresh, Calling, TypeOK
  <2>. QED
    BY <2>1, <2>2, <2>4, <2>5, QuietKeeps DEF chan, proms
<1>. QED
  BY <1>1, <1>2, <1>3

\* A cancel touches only a pending promise that its call has returned.
LEMMA CancelKeeps ==
  ASSUME DInv, NEW p \in Calls, Cancel(p)
  PROVE  ThreadInv' /\ DistinctInv' /\ PromiseInv' /\ ValueInv'
<1>1. TypeOK /\ ThreadInv /\ DistinctInv /\ PromiseInv /\ ValueInv
  BY DEF DInv, IInv
<1>2. /\ status[p] = "pending" /\ status' = [status EXCEPT ![p] = "cancelled"]
      /\ UNCHANGED <<chan, made, result_data, dropped, pc, mine, todo>>
      /\ p \notin Fresh
  BY DEF Cancel, Fresh, Calling
<1>3. /\ Receivers' = Receivers /\ Senders' = Senders /\ Owed' = Owed
      /\ Promised' = Promised /\ Stored' = Stored /\ Fresh' = Fresh
  BY <1>2 DEF chan, Receivers, Senders, Owed, Promised, Stored, SlotOf, Fresh
<1>4. /\ \A q \in Calls : q # p => status'[q] = status[q]
      /\ status'[p] = "cancelled"
  BY <1>1, <1>2 DEF TypeOK
<1>5. ThreadInv' /\ DistinctInv'
  BY <1>1, <1>2 DEF ThreadInv, DistinctInv, chan, SlotOf
<1>6. PromiseInv'
  <2>1. /\ Receivers \subseteq Calls /\ Senders \subseteq Calls
        /\ Promised \subseteq Calls
        /\ \A d \in dropped : d[1] \in Calls
        /\ \A q \in Fresh : q \in Calls
    BY <1>1, SetTypes DEF TypeOK, DInv, IInv, ControlInv, Fresh, Calling, Spinning, InCS
  <2>. QED
    BY <1>1, <1>2, <1>3, <1>4, <2>1 DEF PromiseInv
<1>7. ValueInv'
  <2>1. \A c \in Calls : status'[c] = "resolved" <=> status[c] = "resolved"
    BY <1>2, <1>4
  <2>2. \A v \in Calls : /\ Delivered(v)' <=> Delivered(v)
                         /\ Refused(v)' <=> Refused(v)
                         /\ Travels(v)' <=> Travels(v)
                         /\ Accepted(v)' => Accepted(v)
    BY <1>2, <1>3, <2>1 DEF Delivered, Refused, Travels, Accepted
  <2>3. \A v \in Calls : /\ Held(v)' <=> Held(v)
                         /\ OneHand(v)' <=> OneHand(v)
    BY <1>3, <2>2 DEF Held, OneHand
  <2>4. \A s \in Owed : s.handle \in Calls
    BY <1>1, SetTypes DEF Settlement
  <2>. QED
    BY <1>1, <1>2, <1>3, <1>4, <2>1, <2>2, <2>3, <2>4 DEF ValueInv
<1>. QED
  BY <1>5, <1>6, <1>7

-----------------------------------------------------------------------------
(* The contents of the ring.                                               *)

\* The i-th buffered value, oldest first, i from 0.
Nth(i) == buffer[SlotOf(i)]

\* Less than a turn apart, two numbers have different slots.
LEMMA SlotsDiffer ==
  ASSUME NEW h \in Slots, NEW i \in 0..Capacity, NEW j \in 0..Capacity,
         i < j, j - i < Capacity
  PROVE  (h + i) % Capacity # (h + j) % Capacity
<1>. DEFINE m == (h + i) % Capacity
            n == (h + j) % Capacity
<1>1. /\ m = IF h + i < Capacity THEN h + i ELSE h + i - Capacity
      /\ n = IF h + j < Capacity THEN h + j ELSE h + j - Capacity
  BY SlotCases
<1>. HIDE DEF m, n
<1>2. m # n
  BY <1>1, CapacityAssumption DEF Slots
<1>. QED
  BY <1>2 DEF m, n

\* A send into the ring appends a value.
LEMMA SendContents ==
  ASSUME TypeInv, RingInv, NEW t \in Threads, SendBuffered(t)
  PROVE  /\ count \in 0..(Capacity - 1) /\ count' = count + 1
         /\ \A i \in 0..(count - 1) : Nth(i)' = Nth(i)
         /\ \A i \in Nat : i = count => Nth(i)' = mine[t]
<1>1. /\ head' = head /\ count' = count + 1
      /\ buffer' = [buffer EXCEPT ![tail] = mine[t]]
      /\ head \in Slots /\ tail \in Slots /\ count \in 0..(Capacity - 1)
      /\ buffer \in [Slots -> Calls \union {NULL}]
      /\ tail = (head + count) % Capacity
  BY CapacityAssumption DEF SendBuffered, HasRoom, TypeInv, TypeOK, RingInv, SlotOf
<1>2. ASSUME NEW i \in 0..(count - 1)
      PROVE  Nth(i)' = Nth(i)
  <2>1. i \in 0..Capacity /\ count \in 0..Capacity /\ i < count /\ count - i < Capacity
    BY <1>1, CapacityAssumption
  <2>2. (head + i) % Capacity # tail /\ (head + i) % Capacity \in Slots
    BY <1>1, <2>1, SlotsDiffer, SlotCases
  <2>. QED
    BY <1>1, <2>2 DEF Nth, SlotOf
<1>3. \A i \in Nat : i = count => Nth(i)' = mine[t]
  BY <1>1 DEF Nth, SlotOf
<1>. QED
  BY <1>1, <1>2, <1>3

\* A receive takes the oldest value, and a waiting sender's is appended.
LEMMA RecvContents ==
  ASSUME TypeInv, RingInv, NEW t \in Threads, RecvBuffered(t)
  PROVE  /\ count \in 1..Capacity /\ buffer[head] = Nth(0)
         /\ \A i \in 0..(count - 2) : Nth(i)' = Nth(i + 1)
         /\ waiting_senders = <<>> => count' = count - 1
         /\ waiting_senders # <<>> => /\ count' = count
                                      /\ \A i \in Nat : i = count - 1
                                           => Nth(i)' = Head(waiting_senders)
<1>1. /\ head \in Slots /\ tail \in Slots /\ count \in 1..Capacity
      /\ buffer \in [Slots -> Calls \union {NULL}]
      /\ head' = Push(head) /\ Push(head) \in Slots
      /\ tail = (head + count) % Capacity
  BY PushCases, CapacityAssumption
     DEF RecvBuffered, TypeInv, TypeOK, RingInv, SlotOf
<1>2. ASSUME NEW i \in 0..(Capacity - 1)
      PROVE  (head' + i) % Capacity = (head + (i + 1)) % Capacity
  BY <1>1, ShiftSlot
<1>3. (head' + (count - 1)) % Capacity = tail
  <2>1. count - 1 \in 0..(Capacity - 1) /\ (count - 1) + 1 = count
    BY <1>1, CapacityAssumption
  <2>. QED
    BY <1>1, <1>2, <2>1
<1>4. buffer[head] = Nth(0)
  <2>1. head + 0 = head /\ 0 \in 0..Capacity
    BY <1>1, CapacityAssumption DEF Slots
  <2>2. (head + 0) % Capacity = IF head + 0 < Capacity THEN head + 0
                                                     ELSE head + 0 - Capacity
    BY <1>1, <2>1, SlotCases
  <2>3. head < Capacity
    BY <1>1, CapacityAssumption DEF Slots
  <2>. QED
    BY <2>1, <2>2, <2>3 DEF Nth, SlotOf
<1>5. CASE waiting_senders = <<>>
  <2>1. count' = count - 1 /\ UNCHANGED <<buffer, tail>>
    BY <1>5 DEF RecvBuffered
  <2>2. ASSUME NEW i \in 0..(count - 2)
        PROVE  Nth(i)' = Nth(i + 1)
    <3>1. i \in 0..(Capacity - 1)
      BY <1>1, CapacityAssumption
    <3>. QED
      BY <1>2, <2>1, <3>1 DEF Nth, SlotOf
  <2>. QED
    BY <1>1, <1>4, <1>5, <2>1, <2>2
<1>6. CASE waiting_senders # <<>>
  <2>1. /\ count' = count
        /\ buffer' = [buffer EXCEPT ![tail] = Head(waiting_senders)]
    BY <1>1, <1>6, CapacityAssumption DEF RecvBuffered, Refill
  <2>2. ASSUME NEW i \in 0..(count - 2)
        PROVE  Nth(i)' = Nth(i + 1)
    <3>1. /\ i \in 0..(Capacity - 1) /\ i + 1 \in 0..Capacity /\ count \in 0..Capacity
          /\ i + 1 < count /\ count - (i + 1) < Capacity
      BY <1>1, CapacityAssumption
    <3>2. (head + (i + 1)) % Capacity # tail /\ (head + (i + 1)) % Capacity \in Slots
      BY <1>1, <3>1, SlotsDiffer, SlotCases
    <3>3. (head' + i) % Capacity = (head + (i + 1)) % Capacity
      BY <1>2, <3>1
    <3>. QED
      BY <1>1, <2>1, <3>2, <3>3 DEF Nth, SlotOf
  <2>3. \A i \in Nat : i = count - 1 => Nth(i)' = Head(waiting_senders)
    BY <1>1, <1>3, <2>1 DEF Nth, SlotOf
  <2>. QED
    BY <1>1, <1>4, <1>6, <2>1, <2>2, <2>3
<1>. QED
  BY <1>5, <1>6

\* The same as sets.
LEMMA SendStores ==
  ASSUME TypeInv, RingInv, DistinctInv, NEW t \in Threads, SendBuffered(t),
         mine[t] \notin Stored
  PROVE  /\ Stored' = Stored \union {mine[t]}
         /\ \A i, j \in 0..(count' - 1) : Nth(i)' = Nth(j)' => i = j
<1>1. /\ count \in Nat /\ count' = count + 1
      /\ \A i \in 0..(count - 1) : Nth(i)' = Nth(i)
      /\ \A i \in Nat : i = count => Nth(i)' = mine[t]
  BY SendContents
<1>2. /\ \A x : x \in Stored <=> \E i \in 0..(count - 1) : x = Nth(i)
      /\ \A x : x \in Stored' <=> \E i \in 0..(count' - 1) : x = Nth(i)'
  BY DEF Stored, Nth
<1>3. \A i \in 0..(count' - 1) : i = count \/ i \in 0..(count - 1)
  BY <1>1
<1>4. 0..(count - 1) \subseteq 0..(count' - 1) /\ count \in 0..(count' - 1)
  BY <1>1
<1>5. \A i, j \in 0..(count - 1) : Nth(i) = Nth(j) => i = j
  BY DEF DistinctInv, Nth
<1>. QED
  BY <1>1, <1>2, <1>3, <1>4, <1>5

LEMMA RecvStores ==
  ASSUME TypeInv, RingInv, DistinctInv, NEW t \in Threads, RecvBuffered(t),
         waiting_senders # <<>> => Head(waiting_senders) \notin Stored
  PROVE  /\ buffer[head] \in Stored /\ buffer[head] \in Calls
         /\ Stored' = (Stored \ {buffer[head]}) \union
                      (IF waiting_senders = <<>> THEN {} ELSE {Head(waiting_senders)})
         /\ \A i, j \in 0..(count' - 1) : Nth(i)' = Nth(j)' => i = j
<1>. DEFINE s == Head(waiting_senders)
<1>1. /\ count \in Nat \ {0} /\ buffer[head] = Nth(0)
      /\ \A i \in 0..(count - 2) : Nth(i)' = Nth(i + 1)
      /\ waiting_senders = <<>> => count' = count - 1
      /\ waiting_senders # <<>> =>
           count' = count /\ \A i \in Nat : i = count - 1 => Nth(i)' = s
  BY RecvContents, CapacityAssumption
<1>2. /\ \A x : x \in Stored <=> \E i \in 0..(count - 1) : x = Nth(i)
      /\ \A x : x \in Stored' <=> \E i \in 0..(count' - 1) : x = Nth(i)'
  BY DEF Stored, Nth
<1>3. \A i, j \in 0..(count - 1) : Nth(i) = Nth(j) => i = j
  BY DEF DistinctInv, Nth
<1>4. \A i \in 0..(count - 2) : /\ i + 1 \in 0..(count - 1) /\ i + 1 # 0
                                /\ Nth(i)' = Nth(i + 1)
                                /\ Nth(i)' \in Stored /\ Nth(i)' # Nth(0)
  BY <1>1, <1>2, <1>3
<1>5. \A x \in Stored : x # Nth(0) => \E i \in 0..(count - 2) : x = Nth(i)'
  <2>. SUFFICES ASSUME NEW x \in Stored, x # Nth(0)
                PROVE  \E i \in 0..(count - 2) : x = Nth(i)'
    OBVIOUS
  <2>1. PICK j \in 0..(count - 1) : x = Nth(j)
    BY <1>2
  <2>2. j - 1 \in 0..(count - 2) /\ (j - 1) + 1 = j
    BY <1>1, <2>1
  <2>. QED
    BY <1>1, <2>1, <2>2
<1>6. \A i, j \in 0..(count - 2) : Nth(i)' = Nth(j)' => i = j
  <2>. SUFFICES ASSUME NEW i \in 0..(count - 2), NEW j \in 0..(count - 2),
                       Nth(i)' = Nth(j)'
                PROVE  i = j
    OBVIOUS
  <2>1. i + 1 = j + 1
    BY <1>3, <1>4
  <2>. QED
    BY <1>1, <2>1
<1>7. Nth(0) \in Stored /\ Nth(0) \in Calls
  <2>1. 0 \in 0..(count - 1)
    BY <1>1
  <2>2. Nth(0) # NULL
    BY <2>1 DEF RingInv, Nth
  <2>3. buffer[head] \in Calls \union {NULL}
    BY DEF TypeInv, TypeOK
  <2>. QED
    BY <1>1, <1>2, <2>1, <2>2, <2>3
<1>8. CASE waiting_senders = <<>>
  <2>1. 0..(count' - 1) = 0..(count - 2)
    BY <1>1, <1>8
  <2>. QED
    BY <1>1, <1>2, <1>4, <1>5, <1>6, <1>7, <1>8, <2>1
<1>9. CASE waiting_senders # <<>>
  <2>. HIDE DEF s
  <2>1. /\ count - 1 \in 0..(count' - 1)
        /\ \A i \in 0..(count' - 1) : i = count - 1 \/ i \in 0..(count - 2)
        /\ 0..(count - 2) \subseteq 0..(count' - 1)
        /\ count - 1 \in Nat /\ \A i \in Nat : i = count - 1 => Nth(i)' = s
    BY <1>1, <1>9
  <2>2. \A i \in 0..(count - 2) : Nth(i)' # s
    BY <1>4, <1>9 DEF s
  <2>3. Stored' = (Stored \ {Nth(0)}) \union {s}
    BY <1>2, <1>4, <1>5, <2>1
  <2>4. \A i, j \in 0..(count' - 1) : Nth(i)' = Nth(j)' => i = j
    BY <1>6, <2>1, <2>2
  <2>. QED
    BY <1>1, <1>7, <1>9, <2>3, <2>4 DEF s
<1>. QED
  BY <1>8, <1>9

-----------------------------------------------------------------------------
(* Critical sections that settle nothing themselves.                       *)

\* A decided promise moves from its call to a wait stack or into a
\* settlement, and may bring a waiting receiver along.
LEMMA PromiseMoves ==
  ASSUME TypeOK, PromiseInv, NEW p \in Calls, p \in Fresh,
         Fresh' = Fresh \ {p},
         Receivers' \subseteq Receivers \union {p},
         Senders' \subseteq Senders \union {p},
         Promised' \subseteq Promised \union {p} \union (Receivers \ Receivers'),
         p \notin Receivers' \cap Senders', p \notin Receivers' \cap Promised',
         p \notin Senders' \cap Promised',
         \A a, b \in Owed' : a.handle = b.handle => a = b,
         UNCHANGED <<status, dropped, made>>
  PROVE  PromiseInv'
<1>1. status[p] = "pending" /\ p \notin Receivers /\ p \notin Senders /\ p \notin Promised
  BY DEF PromiseInv
<1>2. /\ Fresh' \cap Receivers' = {} /\ Fresh' \cap Senders' = {}
      /\ Fresh' \cap Promised' = {} /\ Receivers' \cap Senders' = {}
      /\ Receivers' \cap Promised' = {} /\ Senders' \cap Promised' = {}
  BY <1>1 DEF PromiseInv
<1>3. \A q \in Receivers' \union Senders' \union Promised' :
        status'[q] \in {"pending", "cancelled"}
  BY <1>1 DEF PromiseInv
<1>4. \A d \in dropped' : /\ status'[d[1]] = "cancelled"
                          /\ d[1] \notin Receivers' \union Senders' \union Promised'
  BY <1>1 DEF PromiseInv
<1>. QED
  BY <1>2, <1>3, <1>4 DEF PromiseInv

\* What is left to show about values: where they are, and what the new
\* settlements carry.
LEMMA ValueMoves ==
  ASSUME TypeOK, PromiseInv, ValueInv, NEW p \in Calls, p \in Fresh,
         Fresh' = Fresh \ {p},
         Receivers' \subseteq Receivers \union {p},
         \A v \in Calls : OneHand(v)',
         \A v \in Calls \ {p} : Held(v)' <=> Held(v),
         p \in Receivers' => ~Held(p)',
         \A a, b \in Owed' : a.data = b.data /\ a.data # NULL => a = b,
         \A a \in Owed' \ Owed : a.to = "rejected" => a.data = NULL,
         \A a \in Owed' \ Owed : Held(a.handle)' <=> a.to = "resolved" /\ a.data = NULL,
         UNCHANGED <<status, dropped, result_data>>
  PROVE  ValueInv'
<1>1. p \notin Promised /\ ~Held(p) /\ status[p] = "pending" /\ p \notin Receivers
  BY DEF PromiseInv, ValueInv
<1>2. \A s \in Owed : s.handle \in Calls /\ s.handle # p
  BY <1>1, SetTypes DEF Settlement, Promised
<1>3. \A s \in Owed' : Held(s.handle)' <=> s.to = "resolved" /\ s.data = NULL
  BY <1>2 DEF ValueInv
<1>4. \A s \in Owed' : s.to = "rejected" => s.data = NULL
  BY DEF ValueInv
<1>5. \A v \in Calls : Held(v)' => /\ v \notin Fresh' /\ v \notin Receivers'
                                   /\ status'[v] \notin {"none", "rejected"}
  BY <1>1 DEF ValueInv
<1>6. \A v \in Calls : Accepted(v)' => Held(v)'
  BY <1>1 DEF ValueInv, Accepted
<1>7. /\ \A c, d \in Calls :
           /\ status'[c] = "resolved" /\ status'[d] = "resolved"
           /\ result_data'[c] = result_data'[d] /\ result_data'[c] # NULL
           => c = d
      /\ \A d, e \in dropped' : d[2] = e[2] => d = e
  BY DEF ValueInv
<1>. QED
  BY <1>3, <1>4, <1>5, <1>6, <1>7 DEF ValueInv

\* The call finds the channel closed.
LEMMA ClosedKeeps ==
  ASSUME DInv, NEW t \in Threads, RecvClosed(t) \/ SendClosed(t)
  PROVE  ThreadInv' /\ DistinctInv' /\ PromiseInv' /\ ValueInv'
<1>1. /\ TypeOK /\ ControlInv /\ ThreadInv /\ DistinctInv /\ PromiseInv /\ ValueInv
      /\ pc[t] \in {"recv_cs", "send_cs"} /\ Unlock(t, <<Reject(mine[t])>>)
      /\ UNCHANGED <<chan, proms>>
  BY DEF DInv, IInv, RecvClosed, SendClosed
<1>2. mine[t] \in Calls
  BY <1>1 DEF ControlInv, InCS
<1>3. PICK p \in Calls : p = mine[t]
  BY <1>2
<1>4. PICK a \in Settlement : a = Reject(p)
  BY SettlementType
<1>5. a.handle = p /\ a.data = NULL /\ a.to = "rejected"
  BY <1>4 DEF Reject
<1>6. <<a>> \in Seq(Settlement) /\ Range(<<a>>) = {a} /\ Distinct(<<a>>)
  BY OneLeft
<1>7. p \in Fresh /\ Fresh' = Fresh \ {p} /\ Owed' = Owed \union {a}
  BY <1>1, <1>3, <1>4, <1>6, UnlockDecides, UnlockOwes
<1>8. /\ Receivers' = Receivers /\ Senders' = Senders /\ Stored' = Stored
      /\ UNCHANGED <<status, dropped, made, result_data, is_closed>>
  BY <1>1 DEF chan, proms, Unlock, Receivers, Senders, Stored, SlotOf
<1>9. p \notin Promised /\ a \notin Owed /\ ~Held(p) /\ p \notin Receivers /\ p \notin Senders
  BY <1>1, <1>5, <1>7 DEF PromiseInv, Promised, ValueInv
<1>10. ThreadInv'
  BY <1>1, <1>3, <1>4, <1>6, <1>8, UnlockThreads
<1>11. DistinctInv'
  <2>1. /\ \A u \in Threads : Distinct(todo'[u])
        /\ \A u, w \in Threads : u # w => Range(todo'[u]) \cap Range(todo'[w]) = {}
    BY <1>1, <1>3, <1>4, <1>6, <1>9, UnlockLists
  <2>. QED
    BY <1>1, <2>1 DEF DistinctInv, chan, SlotOf
<1>12. PromiseInv'
  <2>1. Promised' = Promised \union {p}
    BY <1>5, <1>7 DEF Promised
  <2>2. \A b, c \in Owed' : b.handle = c.handle => b = c
    BY <1>1, <1>5, <1>7, <1>9 DEF PromiseInv, Promised
  <2>. QED
    BY <1>1, <1>7, <1>8, <1>9, <2>1, <2>2, PromiseMoves
<1>13. ValueInv'
  <2>1. \A v \in Calls : Travels(v)' <=> Travels(v)
    BY <1>5, <1>7 DEF Travels, Calls, NULL
  <2>2. \A v \in Calls : /\ Held(v)' <=> Held(v)
                         /\ OneHand(v)' <=> OneHand(v)
    BY <1>8, <2>1 DEF Held, OneHand, Delivered, Refused
  <2>3. \A b, c \in Owed' : b.data = c.data /\ b.data # NULL => b = c
    BY <1>1, <1>5, <1>7 DEF ValueInv
  <2>4. \A v \in Calls : OneHand(v)'
    BY <1>1, <2>2 DEF ValueInv
  <2>5. ~Held(p)'
    BY <1>9, <2>2
  <2>. QED
    BY <1>1, <1>5, <1>7, <1>8, <2>2, <2>3, <2>4, <2>5, ValueMoves
<1>. QED
  BY <1>10, <1>11, <1>12, <1>13

\* A receive that finds nothing is pushed on the receivers' stack.
LEMMA RecvWaitKeeps ==
  ASSUME DInv, NEW t \in Threads, RecvWait(t)
  PROVE  ThreadInv' /\ DistinctInv' /\ PromiseInv' /\ ValueInv'
<1>1. /\ TypeOK /\ ControlInv /\ ThreadInv /\ DistinctInv /\ PromiseInv /\ ValueInv
      /\ pc[t] = "recv_cs" /\ Unlock(t, <<>>)
      /\ waiting_receivers' = <<mine[t]>> \o waiting_receivers
      /\ UNCHANGED <<is_closed, buffer, head, tail, count, waiting_senders, proms>>
  BY DEF DInv, IInv, RecvWait
<1>2. PICK p \in Calls : p = mine[t]
  BY <1>1 DEF ControlInv, InCS
<1>3. <<>> \in Seq(Settlement) /\ Range(<<>>) = {} /\ Distinct(<<>>)
  BY EmptySeq DEF Range, Distinct
<1>4. p \in Fresh /\ Fresh' = Fresh \ {p} /\ Owed' = Owed
  BY <1>1, <1>2, <1>3, UnlockDecides, UnlockOwes
<1>5. p \notin Promised /\ ~Held(p) /\ p \notin Receivers /\ p \notin Senders
  BY <1>1, <1>4 DEF PromiseInv, ValueInv
<1>6. /\ Receivers' = Receivers \union {p} /\ Distinct(waiting_receivers')
  BY <1>1, <1>2, <1>5, PushStack DEF TypeOK, Receivers, DistinctInv
<1>7. /\ Senders' = Senders /\ Stored' = Stored /\ Promised' = Promised
      /\ UNCHANGED <<status, dropped, made, result_data>>
  BY <1>1, <1>4 DEF proms, Unlock, Senders, Stored, SlotOf, Promised
<1>8. ThreadInv'
  BY <1>1, <1>3, UnlockThreads
<1>9. DistinctInv'
  <2>1. /\ \A u \in Threads : Distinct(todo'[u])
        /\ \A u, w \in Threads : u # w => Range(todo'[u]) \cap Range(todo'[w]) = {}
    BY <1>1, <1>3, UnlockLists
  <2>. QED
    BY <1>1, <1>6, <2>1 DEF DistinctInv, SlotOf
<1>10. PromiseInv'
  <2>1. \A b, c \in Owed' : b.handle = c.handle => b = c
    BY <1>1, <1>4 DEF PromiseInv
  <2>. QED
    BY <1>1, <1>4, <1>5, <1>6, <1>7, <2>1, PromiseMoves
<1>11. ValueInv'
  <2>1. \A v \in Calls : /\ Held(v)' <=> Held(v)
                         /\ OneHand(v)' <=> OneHand(v)
    BY <1>4, <1>7 DEF Held, OneHand, Travels, Delivered, Refused
  <2>2. /\ \A v \in Calls : OneHand(v)'
        /\ \A b, c \in Owed' : b.data = c.data /\ b.data # NULL => b = c
        /\ ~Held(p)'
    BY <1>1, <1>4, <1>5, <2>1 DEF ValueInv
  <2>. QED
    BY <1>1, <1>4, <1>6, <1>7, <2>1, <2>2, ValueMoves
<1>. QED
  BY <1>8, <1>9, <1>10, <1>11

\* A send that finds no room is pushed on the senders' stack, its value with
\* it.
LEMMA SendWaitKeeps ==
  ASSUME DInv, NEW t \in Threads, SendWait(t)
  PROVE  ThreadInv' /\ DistinctInv' /\ PromiseInv' /\ ValueInv'
<1>1. /\ TypeOK /\ ControlInv /\ ThreadInv /\ DistinctInv /\ PromiseInv /\ ValueInv
      /\ pc[t] = "send_cs" /\ Unlock(t, <<>>)
      /\ waiting_senders' = <<mine[t]>> \o waiting_senders
      /\ UNCHANGED <<is_closed, buffer, head, tail, count, waiting_receivers, proms>>
  BY DEF DInv, IInv, SendWait
<1>2. PICK p \in Calls : p = mine[t]
  BY <1>1 DEF ControlInv, InCS
<1>3. <<>> \in Seq(Settlement) /\ Range(<<>>) = {} /\ Distinct(<<>>)
  BY EmptySeq DEF Range, Distinct
<1>4. p \in Fresh /\ Fresh' = Fresh \ {p} /\ Owed' = Owed
  BY <1>1, <1>2, <1>3, UnlockDecides, UnlockOwes
<1>5. p \notin Promised /\ ~Held(p) /\ p \notin Receivers /\ p \notin Senders
  BY <1>1, <1>4 DEF PromiseInv, ValueInv
<1>6. /\ Senders' = Senders \union {p} /\ Distinct(waiting_senders')
  BY <1>1, <1>2, <1>5, PushStack DEF TypeOK, Senders, DistinctInv
<1>7. /\ Receivers' = Receivers /\ Stored' = Stored /\ Promised' = Promised
      /\ UNCHANGED <<status, dropped, made, result_data>>
  BY <1>1, <1>4 DEF proms, Unlock, Receivers, Stored, SlotOf, Promised
<1>8. ThreadInv'
  BY <1>1, <1>3, UnlockThreads
<1>9. DistinctInv'
  <2>1. /\ \A u \in Threads : Distinct(todo'[u])
        /\ \A u, w \in Threads : u # w => Range(todo'[u]) \cap Range(todo'[w]) = {}
    BY <1>1, <1>3, UnlockLists
  <2>. QED
    BY <1>1, <1>6, <2>1 DEF DistinctInv, SlotOf
<1>10. PromiseInv'
  <2>1. \A b, c \in Owed' : b.handle = c.handle => b = c
    BY <1>1, <1>4 DEF PromiseInv
  <2>. QED
    BY <1>1, <1>4, <1>5, <1>6, <1>7, <2>1, PromiseMoves
<1>11. ValueInv'
  <2>1. \A v : /\ Travels(v)' <=> Travels(v)
               /\ Delivered(v)' <=> Delivered(v)
               /\ Refused(v)' <=> Refused(v)
    BY <1>4, <1>7 DEF Travels, Delivered, Refused
  <2>2. \A v \in Calls \ {p} : Held(v)' <=> Held(v)
    BY <1>6, <1>7, <2>1 DEF Held
  <2>3. \A v \in Calls : OneHand(v)'
    BY <1>1, <1>5, <1>6, <1>7, <2>1 DEF Held, OneHand, ValueInv
  <2>4. \A b, c \in Owed' : b.data = c.data /\ b.data # NULL => b = c
    BY <1>1, <1>4 DEF ValueInv
  <2>. QED
    BY <1>1, <1>4, <1>5, <1>7, <2>2, <2>3, <2>4, ValueMoves
<1>. QED
  BY <1>8, <1>9, <1>10, <1>11

\* A send into the ring.
LEMMA SendBufferedKeeps ==
  ASSUME DInv, NEW t \in Threads, SendBuffered(t)
  PROVE  ThreadInv' /\ DistinctInv' /\ PromiseInv' /\ ValueInv'
<1>1. /\ TypeOK /\ ControlInv /\ ThreadInv /\ DistinctInv /\ PromiseInv /\ ValueInv
      /\ TypeInv /\ RingInv
      /\ pc[t] = "send_cs" /\ Unlock(t, <<Resolve(mine[t], NULL)>>)
      /\ UNCHANGED <<is_closed, waiting_receivers, waiting_senders, proms>>
  BY DEF DInv, IInv, TypeInv, SendBuffered
<1>2. PICK p \in Calls : p = mine[t]
  BY <1>1 DEF ControlInv, InCS
<1>3. PICK a \in Settlement : a = Resolve(p, NULL)
  BY SettlementType
<1>4. a.handle = p /\ a.data = NULL /\ a.to = "resolved"
  BY <1>3 DEF Resolve
<1>5. <<a>> \in Seq(Settlement) /\ Range(<<a>>) = {a} /\ Distinct(<<a>>)
  BY OneLeft
<1>6. p \in Fresh /\ Fresh' = Fresh \ {p} /\ Owed' = Owed \union {a}
  BY <1>1, <1>2, <1>3, <1>5, UnlockDecides, UnlockOwes
<1>7. /\ p \notin Promised /\ a \notin Owed /\ ~Held(p)
      /\ p \notin Receivers /\ p \notin Senders /\ p \notin Stored
  BY <1>1, <1>4, <1>6 DEF PromiseInv, Promised, ValueInv, Held
<1>8. /\ Receivers' = Receivers /\ Senders' = Senders
      /\ UNCHANGED <<status, dropped, made, result_data, is_closed>>
  BY <1>1 DEF proms, Unlock, Receivers, Senders
<1>9. /\ Stored' = Stored \union {p}
      /\ \A i, j \in 0..(count' - 1) : Nth(i)' = Nth(j)' => i = j
  BY <1>1, <1>2, <1>7, SendStores
<1>10. ThreadInv'
  BY <1>1, <1>2, <1>3, <1>5, <1>8, UnlockThreads
<1>11. DistinctInv'
  <2>1. /\ \A u \in Threads : Distinct(todo'[u])
        /\ \A u, w \in Threads : u # w => Range(todo'[u]) \cap Range(todo'[w]) = {}
    BY <1>1, <1>2, <1>3, <1>5, <1>7, UnlockLists
  <2>. QED
    BY <1>1, <1>9, <2>1 DEF DistinctInv, Nth
<1>12. PromiseInv'
  <2>1. Promised' = Promised \union {p}
    BY <1>4, <1>6 DEF Promised
  <2>2. \A b, c \in Owed' : b.handle = c.handle => b = c
    BY <1>1, <1>4, <1>6, <1>7 DEF PromiseInv, Promised
  <2>. QED
    BY <1>1, <1>6, <1>7, <1>8, <2>1, <2>2, PromiseMoves
<1>13. ValueInv'
  <2>1. \A v \in Calls : /\ Travels(v)' <=> Travels(v)
                         /\ Delivered(v)' <=> Delivered(v)
                         /\ Refused(v)' <=> Refused(v)
    BY <1>4, <1>6, <1>8 DEF Travels, Delivered, Refused, Calls, NULL
  <2>2. \A v \in Calls \ {p} : Held(v)' <=> Held(v)
    BY <1>8, <1>9, <2>1 DEF Held
  <2>3. \A v \in Calls : OneHand(v)'
    BY <1>1, <1>7, <1>8, <1>9, <2>1 DEF Held, OneHand, ValueInv
  <2>4. \A b, c \in Owed' : b.data = c.data /\ b.data # NULL => b = c
    BY <1>1, <1>4, <1>6 DEF ValueInv
  <2>5. Held(p)' /\ p \notin Receivers'
    BY <1>7, <1>8, <1>9 DEF Held
  <2>6. \A b \in Owed' \ Owed : b = a
    BY <1>6
  <2>. QED
    BY <1>1, <1>4, <1>6, <1>8, <2>2, <2>3, <2>4, <2>5, <2>6, ValueMoves
<1>. QED
  BY <1>10, <1>11, <1>12, <1>13

\* A send that hands its value to the newest waiting receiver.
LEMMA HandoffKeeps ==
  ASSUME DInv, NEW t \in Threads, SendHandoff(t)
  PROVE  ThreadInv' /\ DistinctInv' /\ PromiseInv' /\ ValueInv'
<1>1. /\ TypeOK /\ ControlInv /\ ThreadInv /\ DistinctInv /\ PromiseInv /\ ValueInv
      /\ pc[t] = "send_cs" /\ waiting_receivers # <<>>
      /\ waiting_receivers' = Tail(waiting_receivers)
      /\ Unlock(t, <<Resolve(Head(waiting_receivers), mine[t]), Resolve(mine[t], NULL)>>)
      /\ UNCHANGED <<is_closed, buffer, head, tail, count, waiting_senders, proms>>
  BY DEF DInv, IInv, SendHandoff, PopReceiver
<1>2. PICK p \in Calls : p = mine[t]
  BY <1>1 DEF ControlInv, InCS
<1>3. /\ Head(waiting_receivers) \in Calls /\ Head(waiting_receivers) \in Receivers
      /\ Receivers' = Receivers \ {Head(waiting_receivers)}
      /\ Distinct(waiting_receivers')
  BY <1>1, PopStack DEF TypeOK, DistinctInv, Receivers
<1>4. PICK r \in Calls : r = Head(waiting_receivers)
  BY <1>3
<1>5. PICK a \in Settlement : a = Resolve(r, p)
  BY SettlementType
<1>6. PICK b \in Settlement : b = Resolve(p, NULL)
  BY SettlementType
<1>7. /\ a.handle = r /\ a.data = p /\ a.to = "resolved"
      /\ b.handle = p /\ b.data = NULL /\ b.to = "resolved"
      /\ p # NULL
  BY <1>5, <1>6 DEF Resolve, Calls, NULL
<1>8. <<a, b>> \in Seq(Settlement) /\ Range(<<a, b>>) = {a, b} /\ Distinct(<<a, b>>)
  BY <1>7, TwoLeft
<1>9. p \in Fresh /\ Fresh' = Fresh \ {p} /\ Owed' = Owed \union {a, b}
  BY <1>1, <1>2, <1>4, <1>5, <1>6, <1>8, UnlockDecides, UnlockOwes
<1>10. /\ p \notin Promised /\ ~Held(p) /\ p \notin Receivers /\ p \notin Senders
       /\ r \in Receivers /\ r \notin Promised /\ ~Held(r) /\ r # p
       /\ a \notin Owed /\ b \notin Owed
  BY <1>1, <1>3, <1>4, <1>7, <1>9 DEF PromiseInv, Promised, ValueInv
<1>11. /\ Receivers' = Receivers \ {r} /\ Senders' = Senders /\ Stored' = Stored
       /\ UNCHANGED <<status, dropped, made, result_data>>
  BY <1>1, <1>3, <1>4 DEF proms, Unlock, Senders, Stored, SlotOf
<1>12. ThreadInv'
  BY <1>1, <1>2, <1>4, <1>5, <1>6, <1>8, UnlockThreads
<1>13. DistinctInv'
  <2>1. /\ \A u \in Threads : Distinct(todo'[u])
        /\ \A u, w \in Threads : u # w => Range(todo'[u]) \cap Range(todo'[w]) = {}
    <3>1. Range(<<a, b>>) \cap Owed = {}
      BY <1>8, <1>10
    <3>. QED
      BY <1>1, <1>2, <1>4, <1>5, <1>6, <1>8, <3>1, UnlockLists
  <2>. QED
    BY <1>1, <1>3, <2>1 DEF DistinctInv, SlotOf
<1>14. PromiseInv'
  <2>1. Promised' = Promised \union {p, r}
    BY <1>7, <1>9 DEF Promised
  <2>2. \A c, d \in Owed' : c.handle = d.handle => c = d
    BY <1>1, <1>7, <1>9, <1>10 DEF PromiseInv, Promised
  <2>. QED
    BY <1>1, <1>9, <1>10, <1>11, <2>1, <2>2, PromiseMoves
<1>15. ValueInv'
  <2>1. \A v \in Calls : /\ Travels(v)' <=> Travels(v) \/ v = p
                         /\ Delivered(v)' <=> Delivered(v)
                         /\ Refused(v)' <=> Refused(v)
    <3>1. \A v \in Calls : v # NULL
      BY DEF Calls, NULL
    <3>. QED
      BY <1>7, <1>9, <1>11, <3>1 DEF Travels, Delivered, Refused
  <2>2. \A v \in Calls \ {p} : Held(v)' <=> Held(v)
    BY <1>11, <2>1 DEF Held
  <2>3. \A v \in Calls : OneHand(v)'
    BY <1>1, <1>10, <1>11, <2>1 DEF Held, OneHand, ValueInv
  <2>4. \A c, d \in Owed' : c.data = d.data /\ c.data # NULL => c = d
    BY <1>1, <1>7, <1>9, <1>10 DEF ValueInv, Held, Travels
  <2>5. Held(p)' /\ ~Held(r)' /\ p \notin Receivers'
    BY <1>10, <1>11, <2>1, <2>2 DEF Held
  <2>6. \A c \in Owed' \ Owed : c = a \/ c = b
    BY <1>9
  <2>. QED
    BY <1>1, <1>7, <1>9, <1>11, <2>2, <2>3, <2>4, <2>5, <2>6, ValueMoves
<1>. QED
  BY <1>12, <1>13, <1>14, <1>15

-----------------------------------------------------------------------------
(* Settling.                                                               *)

\* What a settlement of a promise that is in somebody's hand does: it takes
\* effect on a pending promise, and a cancelled one refuses the value.
LEMMA SettleEffect ==
  ASSUME TypeOK, NEW s \in Settlement, Settle(s),
         status[s.handle] \in {"pending", "cancelled"}
  PROVE  /\ s.handle \in Calls
         /\ \A q \in Calls \ {s.handle} : status'[q] = status[q] /\ result_data'[q] = result_data[q]
         /\ \/ /\ status[s.handle] = "pending" /\ status'[s.handle] = s.to
               /\ result_data'[s.handle] = s.data /\ dropped' = dropped
            \/ /\ status[s.handle] = "cancelled" /\ status' = status
               /\ result_data' = result_data
               /\ dropped' = IF s.data = NULL THEN dropped
                                              ELSE dropped \union {<<s.handle, s.data>>}
<1>1. s.handle \in Calls
  BY DEF Settlement
<1>2. CASE status[s.handle] = "pending"
  BY <1>1, <1>2 DEF Settle, TypeOK
<1>3. CASE status[s.handle] = "cancelled"
  <2>1. {<<s.handle, s.data>>} \ {<<s.handle, NULL>>}
          = IF s.data = NULL THEN {} ELSE {<<s.handle, s.data>>}
    OBVIOUS
  <2>. QED
    BY <1>1, <1>3, <2>1 DEF Settle
<1>. QED
  BY <1>1, <1>2, <1>3

\* A settlement that is not of a thread's list, made while the lock is held,
\* carries no value: the promise leaves its stack for good.
LEMMA PromiseSettled ==
  ASSUME TypeOK, PromiseInv, NEW s \in Settlement, Settle(s),
         s.handle \in Receivers \union Senders \union Promised,
         s.handle \notin Receivers' \union Senders' \union Promised',
         Fresh' = Fresh, made' = made, Owed' \subseteq Owed,
         Receivers' \subseteq Receivers, Senders' \subseteq Senders,
         Promised' \subseteq Promised,
         \A q \in Fresh : q \in Calls
  PROVE  PromiseInv'
<1>1. status[s.handle] \in {"pending", "cancelled"}
  BY DEF PromiseInv
<1>. DEFINE h == s.handle
<1>2. /\ h \in Calls /\ h \notin Fresh /\ h <= made
      /\ \A d \in dropped : d[1] # h /\ d[1] \in Calls
  BY <1>1, SettleEffect DEF PromiseInv, TypeOK, Calls
<1>3. /\ \A q \in Calls \ {h} : status'[q] = status[q]
      /\ status[h] = "cancelled" => status'[h] = "cancelled"
      /\ \/ dropped' = dropped
         \/ status[h] = "cancelled" /\ dropped' = dropped \union {<<h, s.data>>}
  BY <1>1, SettleEffect
<1>4. /\ Receivers \subseteq Calls /\ Senders \subseteq Calls /\ Promised \subseteq Calls
  BY SetTypes
<1>. HIDE DEF h
<1>5. \A q \in Receivers' \union Senders' \union Promised' :
        status'[q] \in {"pending", "cancelled"}
  BY <1>3, <1>4 DEF PromiseInv, h
<1>6. \A d \in dropped' : /\ status'[d[1]] = "cancelled"
                          /\ d[1] \notin Receivers' \union Senders' \union Promised'
  BY <1>2, <1>3 DEF PromiseInv, h
<1>7. \A d, e \in dropped' : d[1] = e[1] => d = e
  BY <1>2, <1>3 DEF PromiseInv
<1>8. \A q \in Calls : q > made' => status'[q] = "none"
  BY <1>2, <1>3 DEF PromiseInv, TypeOK, Calls
<1>9. \A q \in Fresh' : status'[q] = "pending"
  BY <1>2, <1>3 DEF PromiseInv
<1>. QED
  BY <1>5, <1>6, <1>7, <1>8, <1>9 DEF PromiseInv

\* A close refuses a waiter; the value of a refused sender goes with it.
LEMMA RefuseKeeps ==
  ASSUME DInv, NEW t \in Threads, CloseReceiver(t) \/ CloseSender(t)
  PROVE  ThreadInv' /\ DistinctInv' /\ PromiseInv' /\ ValueInv'
<1>1. /\ TypeOK /\ ControlInv /\ ThreadInv /\ DistinctInv /\ PromiseInv /\ ValueInv
      /\ UNCHANGED <<is_closed, buffer, head, tail, count, made, pc, mine, todo>>
  BY DEF DInv, IInv, CloseReceiver, CloseSender
<1>2. \E h \in Calls : /\ Settle(Reject(h)) /\ h \in Receivers \union Senders
                       /\ Receivers' = Receivers \ {h} /\ Senders' = Senders \ {h}
                       /\ Distinct(waiting_receivers') /\ Distinct(waiting_senders')
  <2>1. CASE CloseReceiver(t)
    <3>1. /\ waiting_receivers # <<>> /\ waiting_receivers' = Tail(waiting_receivers)
          /\ waiting_senders' = waiting_senders /\ Settle(Reject(Head(waiting_receivers)))
      BY <2>1 DEF CloseReceiver, PopReceiver
    <3>2. /\ Head(waiting_receivers) \in Calls /\ Head(waiting_receivers) \in Receivers
          /\ Receivers' = Receivers \ {Head(waiting_receivers)}
          /\ Distinct(waiting_receivers')
      BY <1>1, <3>1, PopStack DEF TypeOK, DistinctInv, Receivers
    <3>3. Senders' = Senders \ {Head(waiting_receivers)} /\ Distinct(waiting_senders')
      BY <1>1, <3>1, <3>2 DEF PromiseInv, Senders, DistinctInv
    <3>. QED
      BY <3>1, <3>2, <3>3
  <2>2. CASE CloseSender(t)
    <3>1. /\ waiting_senders # <<>> /\ waiting_senders' = Tail(waiting_senders)
          /\ waiting_receivers' = waiting_receivers /\ Settle(Reject(Head(waiting_senders)))
      BY <2>2 DEF CloseSender
    <3>2. /\ Head(waiting_senders) \in Calls /\ Head(waiting_senders) \in Senders
          /\ Senders' = Senders \ {Head(waiting_senders)}
          /\ Distinct(waiting_senders')
      BY <1>1, <3>1, PopStack DEF TypeOK, DistinctInv, Senders
    <3>3. Receivers' = Receivers \ {Head(waiting_senders)} /\ Distinct(waiting_receivers')
      BY <1>1, <3>1, <3>2 DEF PromiseInv, Receivers, DistinctInv
    <3>. QED
      BY <3>1, <3>2, <3>3
  <2>. QED
    BY <2>1, <2>2
<1>3. PICK h \in Calls : /\ Settle(Reject(h)) /\ h \in Receivers \union Senders
                         /\ Receivers' = Receivers \ {h} /\ Senders' = Senders \ {h}
                         /\ Distinct(waiting_receivers') /\ Distinct(waiting_senders')
  BY <1>2
<1>4. PICK s \in Settlement : s = Reject(h)
  BY SettlementType
<1>5. s.handle = h /\ s.data = NULL /\ s.to = "rejected" /\ Settle(s)
  BY <1>3, <1>4 DEF Reject
<1>6. status[h] \in {"pending", "cancelled"} /\ h \notin Promised /\ h \notin Fresh
  BY <1>1, <1>3 DEF PromiseInv
<1>7. /\ \A q \in Calls \ {h} : status'[q] = status[q] /\ result_data'[q] = result_data[q]
      /\ status'[h] \in {"rejected", "cancelled"} /\ dropped' = dropped
  BY <1>1, <1>5, <1>6, SettleEffect
<1>8. Owed' = Owed /\ Promised' = Promised /\ Stored' = Stored /\ Fresh' = Fresh
  BY <1>1 DEF Owed, Promised, Stored, SlotOf, Fresh
<1>9. ThreadInv' /\ DistinctInv'
  BY <1>1, <1>3 DEF ThreadInv, DistinctInv, SlotOf
<1>10. PromiseInv'
  <2>1. \A q \in Fresh : q \in Calls
    BY <1>1 DEF ControlInv, Fresh, Calling, Spinning, InCS
  <2>. QED
    BY <1>1, <1>3, <1>5, <1>6, <1>8, <2>1, PromiseSettled
<1>11. ValueInv'
  <2>1. \A c \in Calls : status'[c] = "resolved" <=> c # h /\ status[c] = "resolved"
    BY <1>6, <1>7
  <2>2. \A v \in Calls : /\ Travels(v)' <=> Travels(v)
                         /\ Delivered(v)' <=> Delivered(v)
                         /\ Refused(v)' <=> Refused(v)
    BY <1>6, <1>7, <1>8, <2>1 DEF Travels, Delivered, Refused
  <2>3. \A v \in Calls \ {h} : Held(v)' <=> Held(v)
    BY <1>3, <1>8, <2>2 DEF Held
  <2>4. ~Held(h)'
    BY <1>1, <1>3, <1>8, <2>2 DEF Held, OneHand, ValueInv
  <2>5. \A v \in Calls : OneHand(v)'
    BY <1>1, <1>3, <1>8, <2>2 DEF OneHand, ValueInv
  <2>6. \A c, d \in Calls :
           /\ status'[c] = "resolved" /\ status'[d] = "resolved"
           /\ result_data'[c] = result_data'[d] /\ result_data'[c] # NULL
           => c = d
    BY <1>1, <1>7, <2>1 DEF ValueInv
  <2>7. \A v \in Calls : Held(v)' => /\ v \notin Fresh' /\ v \notin Receivers'
                                     /\ status'[v] \notin {"none", "rejected"}
    BY <1>1, <1>3, <1>7, <1>8, <2>3, <2>4 DEF ValueInv
  <2>8. \A b \in Owed : b.handle \in Calls \ {h}
    BY <1>1, <1>6, SetTypes DEF Promised, Settlement
  <2>9. \A v \in Calls : Accepted(v)' => Held(v)'
    BY <1>1, <1>7, <2>1, <2>3 DEF Accepted, ValueInv
  <2>10. \A b \in Owed' : Held(b.handle)' <=> b.to = "resolved" /\ b.data = NULL
    BY <1>1, <1>8, <2>3, <2>8 DEF ValueInv
  <2>. QED
    BY <1>1, <1>7, <1>8, <2>5, <2>6, <2>7, <2>9, <2>10 DEF ValueInv
<1>. QED
  BY <1>9, <1>10, <1>11

\* A thread settles the next promise on its list.
LEMMA SettleNextKeeps ==
  ASSUME DInv, NEW t \in Threads, SettleNext(t)
  PROVE  ThreadInv' /\ DistinctInv' /\ PromiseInv' /\ ValueInv'
<1>1. /\ TypeOK /\ ControlInv /\ ThreadInv /\ DistinctInv /\ PromiseInv /\ ValueInv
      /\ pc[t] = "settle" /\ Settle(Head(todo[t]))
      /\ todo' = [todo EXCEPT ![t] = Tail(@)]
      /\ pc' = [pc EXCEPT ![t] = IF Len(todo[t]) = 1 THEN "idle" ELSE "settle"]
      /\ UNCHANGED <<chan, made, mine>>
  BY DEF DInv, IInv, SettleNext
<1>2. todo[t] \in Seq(Settlement) /\ todo[t] # <<>> /\ Distinct(todo[t])
  BY <1>1 DEF TypeOK, ControlInv, DistinctInv
<1>3. /\ Head(todo[t]) \in Settlement /\ Head(todo[t]) \in Range(todo[t])
      /\ Range(Tail(todo[t])) = Range(todo[t]) \ {Head(todo[t])}
      /\ Distinct(Tail(todo[t]))
  BY <1>2, PopStack
<1>4. PICK s \in Settlement : s = Head(todo[t])
  BY <1>3
<1>5. /\ \A u \in Threads \ {t} : todo'[u] = todo[u]
      /\ todo'[t] = Tail(todo[t])
  BY <1>1 DEF TypeOK
<1>6. s \in Owed /\ Owed' = Owed \ {s}
  <2>1. s \in Range(todo[t]) /\ \A u \in Threads \ {t} : s \notin Range(todo[u])
    BY <1>1, <1>3, <1>4 DEF DistinctInv
  <2>. QED
    BY <1>3, <1>4, <1>5, <2>1 DEF Owed
<1>7. PICK h \in Calls : h = s.handle
  BY DEF Settlement
<1>8. h \in Promised /\ Promised' = Promised \ {h}
  BY <1>1, <1>6, <1>7 DEF Promised, PromiseInv
<1>9. /\ Receivers' = Receivers /\ Senders' = Senders /\ Stored' = Stored
      /\ Fresh' = Fresh /\ is_closed' = is_closed
  BY <1>1 DEF chan, Receivers, Senders, Stored, SlotOf, Fresh, Calling, TypeOK
<1>10. /\ status[h] \in {"pending", "cancelled"} /\ h \notin Fresh
       /\ h \notin Receivers /\ h \notin Senders
  BY <1>1, <1>8 DEF PromiseInv
<1>11. ThreadInv'
  <2>1. Len(todo[t]) = 1 => Tail(todo[t]) = <<>>
    <3>1. Tail(todo[t]) \in Seq(Settlement) /\ Len(Tail(todo[t])) = Len(todo[t]) - 1
      BY <1>2, HeadTailProperties
    <3>2. Tail(todo[t]) # <<>> => Len(Tail(todo[t])) \in Nat \ {0}
      BY <3>1, EmptySeq
    <3>. QED
      BY <3>1, <3>2
  <2>2. /\ \A u \in Threads \ {t} : pc'[u] = pc[u]
        /\ pc'[t] = IF Len(todo[t]) = 1 THEN "idle" ELSE "settle"
    BY <1>1 DEF TypeOK
  <2>. QED
    <3>1. ASSUME NEW u \in Threads, pc'[u] # "settle"
          PROVE  todo'[u] = <<>>
      <4>1. CASE u = t
        BY <1>5, <2>1, <2>2, <3>1, <4>1
      <4>2. CASE u # t
        BY <1>1, <1>5, <2>2, <3>1, <4>2 DEF ThreadInv
      <4>. QED
        BY <4>1, <4>2
    <3>2. ASSUME NEW u \in Threads, pc'[u] = "close_cs"
          PROVE  is_closed'
      BY <1>1, <1>9, <2>2, <3>2 DEF ThreadInv
    <3>. QED
      BY <1>1, <3>1, <3>2 DEF ThreadInv
<1>12. DistinctInv'
  <2>1. \A u \in Threads : Distinct(todo'[u]) /\ Range(todo'[u]) \subseteq Range(todo[u])
    BY <1>1, <1>3, <1>5 DEF DistinctInv
  <2>. QED
    BY <1>1, <2>1 DEF DistinctInv, chan, SlotOf
<1>13. PromiseInv'
  <2>1. \A q \in Fresh : q \in Calls
    BY <1>1 DEF ControlInv, Fresh, Calling, Spinning, InCS
  <2>. QED
    BY <1>1, <1>4, <1>6, <1>7, <1>8, <1>9, <1>10, <2>1, PromiseSettled
<1>14. ValueInv'
  <2>1. /\ \A q \in Calls \ {h} : status'[q] = status[q] /\ result_data'[q] = result_data[q]
        /\ \/ /\ status[h] = "pending" /\ status'[h] = s.to
              /\ result_data'[h] = s.data /\ dropped' = dropped
           \/ /\ status[h] = "cancelled" /\ status' = status /\ result_data' = result_data
              /\ dropped' = IF s.data = NULL THEN dropped
                                             ELSE dropped \union {<<h, s.data>>}
    BY <1>1, <1>4, <1>7, <1>10, SettleEffect
  <2>2. \A b \in Owed' : b \in Owed /\ b # s /\ (s.data # NULL => b.data # s.data)
    BY <1>1, <1>6 DEF ValueInv
  <2>3. s.to \in {"resolved", "rejected"} /\ (s.data # NULL => s.to = "resolved")
        /\ s.data \in Calls \union {NULL} /\ \A v \in Calls : v # NULL
    BY <1>1, <1>6 DEF ValueInv, Settlement, Calls, NULL
  <2>4. \A v \in Calls : Travels(v)' <=> Travels(v) /\ v # s.data
    BY <1>6, <2>2, <2>3 DEF Travels
  <2>5. \A v \in Calls : v # s.data => /\ Delivered(v)' <=> Delivered(v)
                                       /\ Refused(v)' <=> Refused(v)
    BY <1>10, <2>1, <2>3 DEF Delivered, Refused
  <2>6. \A v \in Calls : v = s.data =>
          /\ Travels(v) /\ ~Delivered(v) /\ ~Refused(v)
          /\ v \notin Stored /\ v \notin Senders
          /\ \/ Delivered(v)' /\ ~Refused(v)'
             \/ ~Delivered(v)' /\ Refused(v)'
    <3>. SUFFICES ASSUME NEW v \in Calls, v = s.data
                  PROVE  /\ Travels(v) /\ ~Delivered(v) /\ ~Refused(v)
                         /\ v \notin Stored /\ v \notin Senders
                         /\ \/ Delivered(v)' /\ ~Refused(v)'
                            \/ ~Delivered(v)' /\ Refused(v)'
      OBVIOUS
    <3>1. Travels(v)
      BY <1>6 DEF Travels
    <3>2. ~Delivered(v) /\ ~Refused(v) /\ v \notin Stored /\ v \notin Senders
      BY <1>1, <3>1 DEF ValueInv, OneHand
    <3>3. CASE status[h] = "pending"
      <4>1. Delivered(v)'
        BY <2>1, <2>3, <3>3 DEF Delivered
      <4>2. ~Refused(v)'
        BY <2>1, <3>2, <3>3 DEF Refused
      <4>. QED
        BY <3>1, <3>2, <4>1, <4>2
    <3>4. CASE status[h] = "cancelled"
      <4>1. ~Delivered(v)'
        BY <2>1, <3>2, <3>4 DEF Delivered
      <4>2. Refused(v)'
        <5>1. <<h, v>> \in dropped' /\ <<h, v>>[2] = v
          BY <2>1, <2>3, <3>4
        <5>. QED
          BY <5>1 DEF Refused
      <4>. QED
        BY <3>1, <3>2, <4>1, <4>2
    <3>. QED
      BY <1>10, <3>3, <3>4
  <2>7. \A v \in Calls : Held(v)' <=> Held(v)
    BY <1>9, <2>4, <2>5, <2>6 DEF Held
  <2>8. \A v \in Calls : OneHand(v)'
    BY <1>1, <1>9, <2>4, <2>5, <2>6 DEF OneHand, ValueInv
  <2>9. \A c, d \in Calls :
           /\ status'[c] = "resolved" /\ status'[d] = "resolved"
           /\ result_data'[c] = result_data'[d] /\ result_data'[c] # NULL
           => c = d
    <3>1. s.data # NULL => \A c \in Calls : ~(status[c] = "resolved" /\ result_data[c] = s.data)
      BY <2>3, <2>6 DEF Delivered
    <3>. QED
      BY <1>1, <1>10, <2>1, <3>1 DEF ValueInv
  <2>10. \A d, e \in dropped' : d[2] = e[2] => d = e
    <3>1. s.data # NULL => \A d \in dropped : d[2] # s.data
      BY <2>3, <2>6 DEF Refused
    <3>. QED
      BY <1>1, <2>1, <3>1 DEF ValueInv
  <2>11. Held(h) <=> s.to = "resolved" /\ s.data = NULL
    BY <1>1, <1>6, <1>7 DEF ValueInv
  <2>12. \A v \in Calls : Held(v)' => /\ v \notin Fresh' /\ v \notin Receivers'
                                      /\ status'[v] \notin {"none", "rejected"}
    BY <1>1, <1>9, <2>1, <2>3, <2>7, <2>11 DEF ValueInv
  <2>13. \A v \in Calls : Accepted(v)' => Held(v)'
    BY <1>1, <2>1, <2>3, <2>7, <2>11 DEF ValueInv, Accepted
  <2>14. \A b \in Owed' : /\ Held(b.handle)' <=> b.to = "resolved" /\ b.data = NULL
                          /\ b.to = "rejected" => b.data = NULL
    <3>1. \A b \in Owed : b.handle \in Calls
      BY <1>1, SetTypes DEF Settlement
    <3>. QED
      BY <1>1, <1>6, <2>7, <3>1 DEF ValueInv
  <2>15. \A b, c \in Owed' : b.data = c.data /\ b.data # NULL => b = c
    BY <1>1, <1>6 DEF ValueInv
  <2>. QED
    BY <2>8, <2>9, <2>10, <2>12, <2>13, <2>14, <2>15 DEF ValueInv
<1>. QED
  BY <1>11, <1>12, <1>13, <1>14

-----------------------------------------------------------------------------
(* A receive from the ring.                                                *)

\* Nobody waits to send: the oldest value leaves the ring for the settlement
\* of the receive.
LEMMA TakeKeeps ==
  ASSUME DInv, NEW t \in Threads, RecvBuffered(t), waiting_senders = <<>>
  PROVE  ThreadInv' /\ DistinctInv' /\ PromiseInv' /\ ValueInv'
<1>1. /\ TypeOK /\ ControlInv /\ ThreadInv /\ DistinctInv /\ PromiseInv /\ ValueInv
      /\ TypeInv /\ RingInv
      /\ pc[t] = "recv_cs" /\ Unlock(t, <<Resolve(mine[t], buffer[head])>>)
      /\ UNCHANGED <<is_closed, waiting_receivers, waiting_senders, proms>>
  BY DEF DInv, IInv, TypeInv, RecvBuffered
<1>2. PICK p \in Calls : p = mine[t]
  BY <1>1 DEF ControlInv, InCS
<1>3. /\ buffer[head] \in Stored /\ buffer[head] \in Calls
      /\ Stored' = Stored \ {buffer[head]}
      /\ \A i, j \in 0..(count' - 1) : Nth(i)' = Nth(j)' => i = j
  BY <1>1, RecvStores
<1>4. PICK x \in Calls : x = buffer[head]
  BY <1>3
<1>5. PICK a \in Settlement : a = Resolve(p, x)
  BY SettlementType
<1>6. a.handle = p /\ a.data = x /\ a.to = "resolved" /\ x # NULL
  BY <1>5 DEF Resolve, Calls, NULL
<1>7. <<a>> \in Seq(Settlement) /\ Range(<<a>>) = {a} /\ Distinct(<<a>>)
  BY OneLeft
<1>8. p \in Fresh /\ Fresh' = Fresh \ {p} /\ Owed' = Owed \union {a}
  BY <1>1, <1>2, <1>4, <1>5, <1>7, UnlockDecides, UnlockOwes
<1>9. /\ p \notin Promised /\ a \notin Owed /\ ~Held(p)
      /\ p \notin Receivers /\ p \notin Senders /\ p \notin Stored
  BY <1>1, <1>6, <1>8 DEF PromiseInv, Promised, ValueInv, Held
<1>10. /\ Receivers' = Receivers /\ Senders' = Senders
       /\ x \in Stored /\ Stored' = Stored \ {x}
       /\ UNCHANGED <<status, dropped, made, result_data, is_closed>>
  BY <1>1, <1>3, <1>4 DEF proms, Unlock, Receivers, Senders
<1>11. x \notin Senders /\ ~Travels(x) /\ ~Delivered(x) /\ ~Refused(x) /\ x # p
  BY <1>1, <1>9, <1>10 DEF ValueInv, OneHand
<1>12. ThreadInv'
  BY <1>1, <1>2, <1>4, <1>5, <1>7, <1>10, UnlockThreads
<1>13. DistinctInv'
  <2>1. /\ \A u \in Threads : Distinct(todo'[u])
        /\ \A u, w \in Threads : u # w => Range(todo'[u]) \cap Range(todo'[w]) = {}
    BY <1>1, <1>2, <1>4, <1>5, <1>7, <1>9, UnlockLists
  <2>. QED
    BY <1>1, <1>3, <2>1 DEF DistinctInv, Nth
<1>14. PromiseInv'
  <2>1. Promised' = Promised \union {p}
    BY <1>6, <1>8 DEF Promised
  <2>2. \A b, c \in Owed' : b.handle = c.handle => b = c
    BY <1>1, <1>6, <1>8, <1>9 DEF PromiseInv, Promised
  <2>. QED
    BY <1>1, <1>8, <1>9, <1>10, <2>1, <2>2, PromiseMoves
<1>15. ValueInv'
  <2>1. \A v \in Calls : /\ Travels(v)' <=> Travels(v) \/ v = x
                         /\ Delivered(v)' <=> Delivered(v)
                         /\ Refused(v)' <=> Refused(v)
    BY <1>6, <1>8, <1>10 DEF Travels, Delivered, Refused
  <2>2. \A v \in Calls : Held(v)' <=> Held(v)
    BY <1>10, <2>1 DEF Held
  <2>3. \A v \in Calls : OneHand(v)'
    BY <1>1, <1>10, <1>11, <2>1 DEF OneHand, ValueInv
  <2>4. \A b, c \in Owed' : b.data = c.data /\ b.data # NULL => b = c
    BY <1>1, <1>6, <1>8, <1>11 DEF ValueInv, Travels
  <2>5. ~Held(p)' /\ \A b \in Owed' \ Owed : b = a
    BY <1>8, <1>9, <2>2
  <2>. QED
    BY <1>1, <1>6, <1>8, <1>10, <2>2, <2>3, <2>4, <2>5, ValueMoves
<1>. QED
  BY <1>12, <1>13, <1>14, <1>15

\* The newest waiting sender refills the slot: its value goes from the stack
\* into the ring and its promise is settled under the lock.
LEMMA TakeRefillKeeps ==
  ASSUME DInv, NEW t \in Threads, RecvBuffered(t), waiting_senders # <<>>
  PROVE  ThreadInv' /\ DistinctInv' /\ PromiseInv' /\ ValueInv'
<1>1. /\ TypeOK /\ ControlInv /\ ThreadInv /\ DistinctInv /\ PromiseInv /\ ValueInv
      /\ TypeInv /\ RingInv
      /\ pc[t] = "recv_cs" /\ Unlock(t, <<Resolve(mine[t], buffer[head])>>)
      /\ waiting_senders' = Tail(waiting_senders)
      /\ Settle(Resolve(Head(waiting_senders), NULL))
      /\ UNCHANGED <<is_closed, waiting_receivers, made>>
  BY DEF DInv, IInv, TypeInv, RecvBuffered, Refill, Unlock
<1>2. PICK p \in Calls : p = mine[t]
  BY <1>1 DEF ControlInv, InCS
<1>3. /\ Head(waiting_senders) \in Calls /\ Head(waiting_senders) \in Senders
      /\ Senders' = Senders \ {Head(waiting_senders)}
      /\ Distinct(waiting_senders')
  BY <1>1, PopStack DEF TypeOK, DistinctInv, Senders
<1>4. PICK s \in Calls : s = Head(waiting_senders)
  BY <1>3
<1>5. /\ s \in Senders /\ Senders' = Senders \ {s} /\ s \notin Stored
      /\ ~Travels(s) /\ ~Delivered(s) /\ ~Refused(s)
  BY <1>1, <1>3, <1>4 DEF ValueInv, OneHand
<1>6. /\ buffer[head] \in Stored /\ buffer[head] \in Calls
      /\ Stored' = (Stored \ {buffer[head]}) \union {s}
      /\ \A i, j \in 0..(count' - 1) : Nth(i)' = Nth(j)' => i = j
  BY <1>1, <1>4, <1>5, RecvStores
<1>7. PICK x \in Calls : x = buffer[head]
  BY <1>6
<1>8. PICK a \in Settlement : a = Resolve(p, x)
  BY SettlementType
<1>9. PICK b \in Settlement : b = Resolve(s, NULL)
  BY SettlementType
<1>10. /\ a.handle = p /\ a.data = x /\ a.to = "resolved" /\ x # NULL
       /\ b.handle = s /\ b.data = NULL /\ b.to = "resolved" /\ Settle(b)
  BY <1>1, <1>4, <1>8, <1>9 DEF Resolve, Calls, NULL
<1>11. <<a>> \in Seq(Settlement) /\ Range(<<a>>) = {a} /\ Distinct(<<a>>)
  BY OneLeft
<1>12. p \in Fresh /\ Fresh' = Fresh \ {p} /\ Owed' = Owed \union {a}
  BY <1>1, <1>2, <1>7, <1>8, <1>11, UnlockDecides, UnlockOwes
<1>13. /\ p \notin Promised /\ a \notin Owed /\ ~Held(p)
       /\ p \notin Receivers /\ p \notin Senders /\ p # s
       /\ s \notin Fresh /\ s \notin Receivers /\ s \notin Promised
       /\ status[p] = "pending" /\ status[s] \in {"pending", "cancelled"}
  BY <1>1, <1>5, <1>10, <1>12 DEF PromiseInv, Promised, ValueInv
<1>14. /\ \A q \in Calls \ {s} : status'[q] = status[q] /\ result_data'[q] = result_data[q]
       /\ dropped' = dropped
       /\ \/ status[s] = "pending" /\ status'[s] = "resolved" /\ result_data'[s] = NULL
          \/ status[s] = "cancelled" /\ status' = status /\ result_data' = result_data
  BY <1>1, <1>10, <1>13, SettleEffect
<1>15. /\ Receivers' = Receivers /\ Senders' = Senders \ {s} /\ made' = made
       /\ x \in Stored /\ Stored' = (Stored \ {x}) \union {s}
  BY <1>1, <1>5, <1>6, <1>7 DEF Receivers
<1>16. x \notin Senders /\ ~Travels(x) /\ ~Delivered(x) /\ ~Refused(x) /\ x # s
  BY <1>1, <1>5, <1>15 DEF ValueInv, OneHand
<1>17. ThreadInv'
  BY <1>1, <1>2, <1>7, <1>8, <1>11, UnlockThreads
<1>18. DistinctInv'
  <2>1. /\ \A u \in Threads : Distinct(todo'[u])
        /\ \A u, w \in Threads : u # w => Range(todo'[u]) \cap Range(todo'[w]) = {}
    BY <1>1, <1>2, <1>7, <1>8, <1>11, <1>13, UnlockLists
  <2>. QED
    BY <1>1, <1>3, <1>6, <2>1 DEF DistinctInv, Nth
<1>19. Promised' = Promised \union {p}
  BY <1>10, <1>12 DEF Promised
<1>20. /\ Receivers \subseteq Calls /\ Senders \subseteq Calls /\ Promised \subseteq Calls
       /\ \A q \in Fresh : q \in Calls
       /\ \A d \in dropped : d[1] \in Calls /\ d[1] # s /\ d[1] # p
  <2>1. Receivers \subseteq Calls /\ Senders \subseteq Calls /\ Promised \subseteq Calls
    BY <1>1, SetTypes
  <2>2. \A q \in Fresh : q \in Calls
    BY <1>1 DEF ControlInv, Fresh, Calling, Spinning, InCS
  <2>3. \A d \in dropped : d[1] \in Calls /\ d[1] # s /\ d[1] # p
    BY <1>1, <1>5, <1>13 DEF PromiseInv, TypeOK
  <2>. QED
    BY <2>1, <2>2, <2>3
<1>21. PromiseInv'
  <2>1. /\ Fresh' \cap Receivers' = {} /\ Fresh' \cap Senders' = {}
        /\ Fresh' \cap Promised' = {} /\ Receivers' \cap Senders' = {}
        /\ Receivers' \cap Promised' = {} /\ Senders' \cap Promised' = {}
    BY <1>1, <1>12, <1>13, <1>15, <1>19 DEF PromiseInv
  <2>2. \A c, d \in Owed' : c.handle = d.handle => c = d
    BY <1>1, <1>10, <1>12, <1>13 DEF PromiseInv, Promised
  <2>3. \A q \in Calls : q > made' => status'[q] = "none"
    <3>1. ~(s > made)
      BY <1>1, <1>13 DEF PromiseInv
    <3>. QED
      BY <1>1, <1>14, <1>15, <3>1 DEF PromiseInv
  <2>4. \A q \in Fresh' : status'[q] = "pending"
    BY <1>1, <1>12, <1>13, <1>14, <1>20 DEF PromiseInv
  <2>5. \A q \in Receivers' \union Senders' \union Promised' :
          status'[q] \in {"pending", "cancelled"}
    BY <1>1, <1>13, <1>14, <1>15, <1>19, <1>20 DEF PromiseInv
  <2>6. \A d \in dropped' : /\ status'[d[1]] = "cancelled"
                            /\ d[1] \notin Receivers' \union Senders' \union Promised'
    BY <1>1, <1>14, <1>15, <1>19, <1>20 DEF PromiseInv
  <2>7. \A d, e \in dropped' : d[1] = e[1] => d = e
    BY <1>1, <1>14 DEF PromiseInv
  <2>. QED
    BY <2>1, <2>2, <2>3, <2>4, <2>5, <2>6, <2>7 DEF PromiseInv
<1>22. ValueInv'
  <2>1. \A v \in Calls : v # NULL
    BY DEF Calls, NULL
  <2>2. \A v \in Calls : /\ Travels(v)' <=> Travels(v) \/ v = x
                         /\ Delivered(v)' <=> Delivered(v)
                         /\ Refused(v)' <=> Refused(v)
    <3>1. \A v \in Calls : Delivered(v)' <=> Delivered(v)
      BY <1>13, <1>14, <2>1 DEF Delivered
    <3>. QED
      BY <1>10, <1>12, <1>14, <3>1 DEF Travels, Refused
  <2>3. \A v \in Calls : Held(v)' <=> Held(v)
    BY <1>5, <1>15, <2>2 DEF Held
  <2>4. \A v \in Calls : OneHand(v)'
    BY <1>1, <1>5, <1>15, <1>16, <2>2 DEF OneHand, ValueInv
  <2>5. \A c, d \in Owed' : c.data = d.data /\ c.data # NULL => c = d
    BY <1>1, <1>10, <1>12, <1>16 DEF ValueInv, Travels
  <2>6. \A c, d \in Calls :
           /\ status'[c] = "resolved" /\ status'[d] = "resolved"
           /\ result_data'[c] = result_data'[d] /\ result_data'[c] # NULL
           => c = d
    BY <1>1, <1>13, <1>14 DEF ValueInv
  <2>7. \A v \in Calls : Held(v)' => /\ v \notin Fresh' /\ v \notin Receivers'
                                     /\ status'[v] \notin {"none", "rejected"}
    BY <1>1, <1>12, <1>13, <1>14, <1>15, <2>3 DEF ValueInv
  <2>8. \A c \in Owed' : Held(c.handle)' <=> c.to = "resolved" /\ c.data = NULL
    <3>1. \A c \in Owed : c.handle \in Calls
      BY <1>1, SetTypes DEF Settlement
    <3>. QED
      BY <1>1, <1>10, <1>12, <1>13, <2>3, <3>1 DEF ValueInv
  <2>9. \A c \in Owed' : c.to = "rejected" => c.data = NULL
    BY <1>1, <1>10, <1>12 DEF ValueInv
  <2>10. \A v \in Calls : Accepted(v)' => Held(v)'
    <3>1. Held(s)
      BY <1>5 DEF Held
    <3>. QED
      BY <1>1, <1>14, <2>3, <3>1 DEF ValueInv, Accepted
  <2>11. \A d, e \in dropped' : d[2] = e[2] => d = e
    BY <1>1, <1>14 DEF ValueInv
  <2>. QED
    BY <2>4, <2>5, <2>6, <2>7, <2>8, <2>9, <2>10, <2>11 DEF ValueInv
<1>. QED
  BY <1>17, <1>18, <1>21, <1>22

-----------------------------------------------------------------------------
(* The invariant, and what it says about values.                           *)

LEMMA DInvInit ==
  ASSUME Init
  PROVE  ThreadInv /\ DistinctInv /\ PromiseInv /\ ValueInv
<1>1. Range(<<>>) = {} /\ Distinct(<<>>)
  BY DEF Range, Distinct
<1>2. /\ Receivers = {} /\ Senders = {} /\ Owed = {} /\ Promised = {}
      /\ Fresh = {} /\ Stored = {}
  BY <1>1 DEF Init, Receivers, Senders, Owed, Promised, Fresh, Calling, Stored
<1>3. ThreadInv /\ DistinctInv
  BY <1>1 DEF Init, ThreadInv, DistinctInv, NULL
<1>4. PromiseInv
  BY <1>2 DEF Init, PromiseInv
<1>5. \A v : ~Held(v)
  BY <1>2 DEF Init, Held, Travels, Delivered, Refused
<1>6. \A v : OneHand(v)
  BY <1>5 DEF Held, OneHand
<1>7. ValueInv
  BY <1>2, <1>5, <1>6 DEF Init, ValueInv, Accepted
<1>. QED
  BY <1>3, <1>4, <1>7

LEMMA DInvStep ==
  ASSUME DInv, [Next]_vars
  PROVE  DInv'
<1>1. IInv'
  BY TypeStep, RingStep, WaitersStep, CloseStep DEF DInv, IInv, TypeInv
<1>2. CASE UNCHANGED vars
  <2>1. Fresh' = Fresh /\ ThreadInv'
    BY <1>2 DEF DInv, vars, chan, Fresh, ThreadInv
  <2>. QED
    BY <1>1, <1>2, <2>1, QuietKeeps DEF DInv, vars, chan, proms
<1>3. ASSUME NEW t \in Threads, Channel_recv(t) \/ Channel_send(t) \/ Channel_close(t)
      PROVE  DInv'
  BY <1>1, <1>3, BeginKeeps, CloseKeeps DEF DInv, Channel_recv, Channel_send
<1>4. ASSUME NEW t \in Threads, Step(t)
      PROVE  DInv'
  <2>1. CASE RecvBuffered(t)
    BY <1>1, <2>1, TakeKeeps, TakeRefillKeeps DEF DInv
  <2>2. CASE SpinAcquire(t) \/ CloseDone(t)
    BY <1>1, <2>2, CloseKeeps DEF DInv
  <2>3. CASE RecvClosed(t) \/ SendClosed(t)
    BY <1>1, <2>3, ClosedKeeps DEF DInv
  <2>4. CASE RecvWait(t)
    BY <1>1, <2>4, RecvWaitKeeps DEF DInv
  <2>5. CASE SendWait(t)
    BY <1>1, <2>5, SendWaitKeeps DEF DInv
  <2>6. CASE SendHandoff(t)
    BY <1>1, <2>6, HandoffKeeps DEF DInv
  <2>7. CASE SendBuffered(t)
    BY <1>1, <2>7, SendBufferedKeeps DEF DInv
  <2>8. CASE CloseReceiver(t) \/ CloseSender(t)
    BY <1>1, <2>8, RefuseKeeps DEF DInv
  <2>9. CASE SettleNext(t)
    BY <1>1, <2>9, SettleNextKeeps DEF DInv
  <2>. QED
    BY <1>4, <2>1, <2>2, <2>3, <2>4, <2>5, <2>6, <2>7, <2>8, <2>9 DEF Step
<1>5. ASSUME NEW p \in Calls, Cancel(p)
      PROVE  DInv'
  BY <1>1, <1>5, CancelKeeps DEF DInv
<1>. QED
  BY <1>2, <1>3, <1>4, <1>5 DEF Next

\* DInv is an inductive invariant of the channel.
THEOREM DeliveryInvariance == Spec => []DInv
<1>1. Init => DInv
  <2>1. Init => IInv
    <3>. SUFFICES ASSUME Init PROVE IInv
      OBVIOUS
    <3>1. RingInv
      <4>1. 0 \in Slots /\ 0 \in 0..Capacity
        BY CapacityAssumption DEF Slots
      <4>2. (0 + 0) % Capacity = 0
        BY <4>1, SlotCases, CapacityAssumption
      <4>. QED
        BY <4>2 DEF Init, RingInv, SlotOf
    <3>. QED
      BY <3>1, InitType DEF Init, IInv, TypeInv, NoStarvedPair, ClosedLeavesNobody
  <2>. QED
    BY <2>1, DInvInit DEF DInv
<1>2. DInv /\ [Next]_vars => DInv'
  BY DInvStep
<1>. QED
  BY <1>1, <1>2, PTL DEF Spec

\* Each kind of place, and when there is one.
LEMMA PlaceKinds ==
  ASSUME TypeOK, NEW v \in Calls, NEW y
  PROVE  y \in Places(v) <=>
           \/ \E i \in 0..(count - 1) : y = <<"buffer", i>> /\ Nth(i) = v
           \/ \E i \in DOMAIN waiting_senders :
                y = <<"waiting", i>> /\ waiting_senders[i] = v
           \/ \E t \in Threads : \E i \in DOMAIN todo[t] :
                y = <<"todo", t, i>> /\ todo[t][i].data = v
           \/ \E c \in Calls : /\ y = <<"result", c>>
                               /\ status[c] = "resolved" /\ result_data[c] = v
           \/ \E d \in dropped : y = <<"dropped", d[1]>> /\ d[2] = v
<1>. DEFINE B == {<<"buffer", i>> : i \in {j \in 0..(count - 1) : buffer[SlotOf(j)] = v}}
            W == {<<"waiting", i>> :
                    i \in {j \in DOMAIN waiting_senders : waiting_senders[j] = v}}
            T == UNION {{<<"todo", t, i>> :
                    i \in {j \in DOMAIN todo[t] : todo[t][j].data = v}} : t \in Threads}
            R == {<<"result", p>> :
                    p \in {c \in Calls : status[c] = "resolved" /\ result_data[c] = v}}
            D == {<<"dropped", d[1]>> : d \in {e \in dropped : e[2] = v}}
<1>1. y \in B <=> \E i \in 0..(count - 1) : y = <<"buffer", i>> /\ Nth(i) = v
  BY DEF Nth
<1>2. y \in W <=> \E i \in DOMAIN waiting_senders :
                    y = <<"waiting", i>> /\ waiting_senders[i] = v
  OBVIOUS
<1>3. y \in T <=> \E t \in Threads : \E i \in DOMAIN todo[t] :
                    y = <<"todo", t, i>> /\ todo[t][i].data = v
  OBVIOUS
<1>4. y \in R <=> \E c \in Calls : /\ y = <<"result", c>>
                                   /\ status[c] = "resolved" /\ result_data[c] = v
  OBVIOUS
<1>5. y \in D <=> \E d \in dropped : y = <<"dropped", d[1]>> /\ d[2] = v
  OBVIOUS
<1>6. Places(v) = B \union W \union T \union R \union D
  BY Zenon DEF Places
<1>. HIDE DEF B, W, T, R, D
<1>7. y \in Places(v) <=> y \in B \/ y \in W \/ y \in T \/ y \in R \/ y \in D
  BY <1>6
<1>. QED
  BY <1>1, <1>2, <1>3, <1>4, <1>5, <1>7, Zenon

\* A value has a place if and only if it is held.
LEMMA PlaceIsHeld ==
  ASSUME TypeOK, NEW v \in Calls
  PROVE  Places(v) # {} <=> Held(v)
<1>1. v \in Stored <=> \E i \in 0..(count - 1) : Nth(i) = v
  BY DEF Stored, Nth
<1>2. v \in Senders <=> \E i \in DOMAIN waiting_senders : waiting_senders[i] = v
  BY DEF Senders, Range
<1>3. Travels(v) <=> \E t \in Threads : \E i \in DOMAIN todo[t] : todo[t][i].data = v
  BY DEF Travels, Owed, Range
<1>4. Held(v) <=> \E y : y \in Places(v)
  BY <1>1, <1>2, <1>3, PlaceKinds DEF Held, Delivered, Refused
<1>. QED
  BY <1>4

\* Two places of a value are the same.
LEMMA PlaceIsOne ==
  ASSUME DInv, NEW v \in Calls, NEW y \in Places(v), NEW z \in Places(v)
  PROVE  y = z
<1>1. TypeOK /\ DistinctInv /\ ValueInv /\ OneHand(v) /\ v # NULL
  BY DEF DInv, IInv, ValueInv, Calls, NULL
<1>. DEFINE InRing(x) == \E i \in 0..(count - 1) : x = <<"buffer", i>> /\ Nth(i) = v
            Waits(x)  == \E i \in DOMAIN waiting_senders :
                           x = <<"waiting", i>> /\ waiting_senders[i] = v
            OnWay(x)  == \E t \in Threads : \E i \in DOMAIN todo[t] :
                           x = <<"todo", t, i>> /\ todo[t][i].data = v
            Got(x)    == \E c \in Calls : /\ x = <<"result", c>>
                                          /\ status[c] = "resolved" /\ result_data[c] = v
            Gone(x)   == \E d \in dropped : x = <<"dropped", d[1]>> /\ d[2] = v
<1>2. \A x \in Places(v) : InRing(x) \/ Waits(x) \/ OnWay(x) \/ Got(x) \/ Gone(x)
  BY <1>1, PlaceKinds
<1>3. \A x : /\ InRing(x) => v \in Stored
             /\ Waits(x) => v \in Senders
             /\ OnWay(x) => Travels(v)
             /\ Got(x) => Delivered(v)
             /\ Gone(x) => Refused(v)
  BY DEF Stored, Nth, Senders, Range, Travels, Owed, Delivered, Refused
<1>4. InRing(y) /\ InRing(z) => y = z
  BY <1>1 DEF DistinctInv, Nth
<1>5. Waits(y) /\ Waits(z) => y = z
  BY <1>1 DEF DistinctInv, Distinct
<1>6. OnWay(y) /\ OnWay(z) => y = z
  <2>. SUFFICES ASSUME OnWay(y), OnWay(z)
                PROVE  y = z
    OBVIOUS
  <2>1. PICK t \in Threads : \E i \in DOMAIN todo[t] :
                 y = <<"todo", t, i>> /\ todo[t][i].data = v
    OBVIOUS
  <2>2. PICK i \in DOMAIN todo[t] : y = <<"todo", t, i>> /\ todo[t][i].data = v
    BY <2>1
  <2>3. PICK u \in Threads : \E j \in DOMAIN todo[u] :
                 z = <<"todo", u, j>> /\ todo[u][j].data = v
    OBVIOUS
  <2>4. PICK j \in DOMAIN todo[u] : z = <<"todo", u, j>> /\ todo[u][j].data = v
    BY <2>3
  <2>5. todo[t][i] \in Range(todo[t]) /\ todo[u][j] \in Range(todo[u])
    BY DEF Range
  <2>6. todo[t][i] = todo[u][j]
    BY <1>1, <2>2, <2>4, <2>5 DEF ValueInv, Owed
  <2>7. t = u
    BY <1>1, <2>5, <2>6 DEF DistinctInv
  <2>8. i = j
    BY <1>1, <2>6, <2>7 DEF DistinctInv, Distinct
  <2>. QED
    BY <2>2, <2>4, <2>7, <2>8
<1>7. Got(y) /\ Got(z) => y = z
  BY <1>1 DEF ValueInv
<1>8. Gone(y) /\ Gone(z) => y = z
  BY <1>1 DEF ValueInv
<1>. HIDE DEF InRing, Waits, OnWay, Got, Gone
<1>. QED
  BY <1>1, <1>2, <1>3, <1>4, <1>5, <1>6, <1>7, <1>8 DEF OneHand

LEMMA AtMostOne ==
  ASSUME NEW S, \A y, z \in S : y = z
  PROVE  Cardinality(S) <= 1
<1>1. CASE S = {}
  BY <1>1, FS_EmptySet
<1>2. CASE S # {}
  <2>1. PICK y : S = {y}
    BY <1>2
  <2>2. Cardinality(S) = 1
    BY <2>1, FS_Singleton
  <2>. QED
    BY <2>2
<1>. QED
  BY <1>1, <1>2

\* Sends and receives of any number of threads, over both wait stacks, with
\* cancels and a close in between, neither lose nor duplicate a value: it is
\* never in two places, an accepted one is always in one, a rejected send
\* leaves its value nowhere, and only a cancelled receive swallows a value,
\* one at most.
THEOREM DeliveredOnce == Spec => []ExactlyOnce
<1>1. DInv => ExactlyOnce
  <2>. SUFFICES ASSUME DInv PROVE ExactlyOnce
    OBVIOUS
  <2>1. TypeOK /\ PromiseInv /\ ValueInv
    BY DEF DInv, IInv
  <2>2. ASSUME NEW v \in Calls
        PROVE  /\ Cardinality(Places(v)) <= 1
               /\ Accepted(v) => Places(v) # {}
               /\ status[v] = "rejected" => Places(v) = {}
    <3>1. Cardinality(Places(v)) <= 1
      BY PlaceIsOne, AtMostOne
    <3>2. Places(v) # {} <=> Held(v)
      BY <2>1, PlaceIsHeld
    <3>. QED
      BY <2>1, <3>1, <3>2 DEF ValueInv
  <2>3. \A d, e \in dropped : status[d[1]] = "cancelled" /\ (d[1] = e[1] => d = e)
    BY <2>1 DEF PromiseInv
  <2>. QED
    BY <2>2, <2>3 DEF ExactlyOnce
<1>. QED
  BY <1>1, DeliveryInvariance, PTL

-----------------------------------------------------------------------------
(* The bounded queue.                                                      *)

\* The contents of the ring are a sequence of values, one for each count.
LEMMA ContentsSeq ==
  ASSUME TypeOK, RingInv
  PROVE  /\ Contents \in Seq(Calls) /\ Len(Contents) = count /\ count \in Nat
         /\ \A i \in 1..count : Contents[i] = Nth(i - 1)
<1>1. count \in Nat /\ count \in 0..Capacity /\ head \in Slots
      /\ buffer \in [Slots -> Calls \union {NULL}]
  BY CapacityAssumption DEF TypeOK
<1>2. \A i \in 1..count : Contents[i] = Nth(i - 1)
  BY DEF Contents, Nth
<1>3. \A i \in 1..count : Nth(i - 1) \in Calls
  <2>. SUFFICES ASSUME NEW i \in 1..count
                PROVE  Nth(i - 1) \in Calls
    OBVIOUS
  <2>1. i - 1 \in 0..(count - 1) /\ i - 1 \in 0..Capacity
    BY <1>1, CapacityAssumption
  <2>2. SlotOf(i - 1) \in Slots
    BY <1>1, <2>1, SlotCases DEF SlotOf
  <2>. QED
    BY <1>1, <2>1, <2>2 DEF RingInv, Nth
<1>4. Contents \in [1..count -> Calls]
  BY <1>2, <1>3 DEF Contents
<1>5. Contents \in Seq(Calls)
  BY <1>1, <1>4, SeqDef
<1>6. Len(Contents) = count
  <2>1. Len(Contents) \in Nat /\ DOMAIN Contents = 1..Len(Contents)
    BY <1>5, LenProperties
  <2>2. 1..Len(Contents) = 1..count
    BY <1>4, <2>1
  <2>3. \A m, n \in Nat : 1..m = 1..n => m <= n
    <3>. SUFFICES ASSUME NEW m \in Nat, NEW n \in Nat, 1..m = 1..n, ~(m <= n)
                  PROVE  FALSE
      OBVIOUS
    <3>1. m \in 1..m
      OBVIOUS
    <3>2. m \notin 1..n
      OBVIOUS
    <3>. QED
      BY <3>1, <3>2
  <2>4. Len(Contents) <= count
    BY <1>1, <2>1, <2>2, <2>3, Zenon
  <2>5. count <= Len(Contents)
    BY <1>1, <2>1, <2>2, <2>3, Zenon
  <2>6. count \in Int /\ Len(Contents) \in Int
    BY <1>1, <2>1
  <2>. QED
    BY <2>4, <2>5, <2>6
<1>. QED
  BY <1>1, <1>2, <1>5, <1>6

\* A stack without elements is the empty one.
LEMMA EmptyStack ==
  ASSUME NEW S, NEW s \in Seq(S)
  PROVE  Range(s) = {} <=> s = <<>>
<1>1. Range(<<>>) = {}
  BY DEF Range
<1>2. ASSUME s # <<>>
      PROVE  Range(s) # {}
  <2>1. Len(s) \in Nat \ {0} /\ DOMAIN s = 1..Len(s)
    BY <1>2, EmptySeq, LenProperties
  <2>2. 1 \in DOMAIN s
    BY <2>1
  <2>. QED
    BY <2>2 DEF Range
<1>. QED
  BY <1>1, <1>2

\* What DInv says of the abstract state.
AbsState ==
  /\ Contents \in Seq(Calls) /\ Len(Contents) = count
  /\ count \in Nat /\ (Contents = <<>> <=> count = 0)
  /\ Receivers = {} <=> waiting_receivers = <<>>
  /\ Senders = {} <=> waiting_senders = <<>>
  /\ \A i \in 1..count : Contents[i] = Nth(i - 1)

LEMMA AbsStateNow ==
  ASSUME DInv
  PROVE  AbsState
<1>1. /\ Contents \in Seq(Calls) /\ Len(Contents) = count /\ count \in Nat
      /\ \A i \in 1..count : Contents[i] = Nth(i - 1)
  BY ContentsSeq DEF DInv, IInv
<1>2. Contents = <<>> <=> count = 0
  BY <1>1, EmptySeq
<1>3. /\ Receivers = {} <=> waiting_receivers = <<>>
      /\ Senders = {} <=> waiting_senders = <<>>
  BY EmptyStack DEF DInv, IInv, TypeOK, Receivers, Senders
<1>. QED
  BY <1>1, <1>2, <1>3 DEF AbsState

LEMMA AbsStateNext == DInv' => AbsState'
<1>1. DInv => AbsState
  BY AbsStateNow
<1>. QED
  BY <1>1, PTL

LEMMA SameContents ==
  ASSUME UNCHANGED <<buffer, head, count>>
  PROVE  Contents' = Contents
BY DEF Contents, SlotOf

\* A send into the ring is Put.
LEMMA PutStep ==
  ASSUME DInv, DInv', NEW t \in Threads, SendBuffered(t)
  PROVE  \E p \in Calls : Bounded!Put(p)
<1>1. /\ TypeInv /\ RingInv /\ pc[t] = "send_cs"
      /\ ~is_closed /\ waiting_receivers = <<>> /\ count < Capacity
      /\ UNCHANGED <<is_closed, waiting_receivers, waiting_senders>>
  BY DEF DInv, IInv, TypeInv, SendBuffered, HasRoom
<1>2. PICK p \in Calls : p = mine[t]
  BY <1>1 DEF TypeInv, ControlInv, InCS
<1>3. /\ count' = count + 1
      /\ \A i \in 0..(count - 1) : Nth(i)' = Nth(i)
      /\ \A i \in Nat : i = count => Nth(i)' = p
  BY <1>1, <1>2, SendContents
<1>4. /\ Contents \in Seq(Calls) /\ Len(Contents) = count /\ count \in Nat
      /\ \A i \in 1..count : Contents[i] = Nth(i - 1)
      /\ Receivers = {}
  BY <1>1, AbsStateNow DEF AbsState
<1>5. /\ Contents' \in Seq(Calls) /\ Len(Contents') = count'
      /\ \A i \in 1..count' : Contents'[i] = Nth(i - 1)'
  BY AbsStateNext DEF AbsState
<1>6. /\ Append(Contents, p) \in Seq(Calls) /\ Len(Append(Contents, p)) = count + 1
      /\ \A i \in 1..count : Append(Contents, p)[i] = Contents[i]
      /\ Append(Contents, p)[count + 1] = p
  BY <1>4, AppendProperties
<1>7. \A i \in 1..(count + 1) : Contents'[i] = Append(Contents, p)[i]
  <2>. SUFFICES ASSUME NEW i \in 1..(count + 1)
                PROVE  Contents'[i] = Append(Contents, p)[i]
    OBVIOUS
  <2>1. CASE i = count + 1
    <3>1. i - 1 = count /\ i - 1 \in Nat
      BY <1>4, <2>1
    <3>. QED
      BY <1>3, <1>5, <1>6, <2>1, <3>1
  <2>2. CASE i # count + 1
    <3>1. i \in 1..count /\ i - 1 \in 0..(count - 1)
      BY <1>4, <2>2
    <3>. QED
      BY <1>3, <1>4, <1>5, <1>6, <3>1
  <2>. QED
    BY <2>1, <2>2
<1>8. Contents' = Append(Contents, p)
  BY <1>3, <1>5, <1>6, <1>7, SeqEqual
<1>9. /\ Receivers' = Receivers /\ Senders' = Senders
  BY <1>1 DEF Receivers, Senders
<1>10. Bounded!Put(p)
  BY <1>1, <1>4, <1>8, <1>9 DEF Bounded!Put, Receivers, Senders, Range
<1>. QED
  BY <1>10

\* A receive from the ring is Take, or TakeRefill if a sender waits.
LEMMA TakeStep ==
  ASSUME DInv, DInv', NEW t \in Threads, RecvBuffered(t)
  PROVE  Bounded!Take \/ \E p \in Calls : Bounded!TakeRefill(p)
<1>1. /\ TypeInv /\ RingInv /\ TypeOK /\ DistinctInv
      /\ UNCHANGED <<is_closed, waiting_receivers>>
  BY DEF DInv, IInv, TypeInv, RecvBuffered
<1>2. /\ count \in 1..Capacity
      /\ \A i \in 0..(count - 2) : Nth(i)' = Nth(i + 1)
      /\ waiting_senders = <<>> => count' = count - 1
      /\ waiting_senders # <<>> => /\ count' = count
                                   /\ \A i \in Nat : i = count - 1
                                        => Nth(i)' = Head(waiting_senders)
  BY <1>1, RecvContents
<1>3. /\ Contents \in Seq(Calls) /\ Len(Contents) = count /\ count \in Nat /\ count # 0
      /\ \A i \in 1..count : Contents[i] = Nth(i - 1)
      /\ Contents # <<>> /\ (Senders = {} <=> waiting_senders = <<>>)
  BY <1>2, AbsStateNow DEF AbsState
<1>4. /\ Contents' \in Seq(Calls) /\ Len(Contents') = count'
      /\ \A i \in 1..count' : Contents'[i] = Nth(i - 1)'
  BY AbsStateNext DEF AbsState
<1>5. /\ Tail(Contents) \in Seq(Calls) /\ Len(Tail(Contents)) = count - 1
      /\ \A i \in 1..(count - 1) : Tail(Contents)[i] = Contents[i + 1]
  BY <1>3, HeadTailProperties
<1>6. \A i \in 1..(count - 1) : i \in 1..count' => Contents'[i] = Tail(Contents)[i]
  <2>. SUFFICES ASSUME NEW i \in 1..(count - 1), i \in 1..count'
                PROVE  Contents'[i] = Tail(Contents)[i]
    OBVIOUS
  <2>1. i - 1 \in 0..(count - 2) /\ i + 1 \in 1..count /\ (i - 1) + 1 = i /\ (i + 1) - 1 = i
    BY <1>3
  <2>2. Contents'[i] = Nth(i - 1)' /\ Nth(i - 1)' = Nth((i - 1) + 1)
    BY <1>2, <1>4, <2>1
  <2>3. Contents[i + 1] = Nth((i + 1) - 1)
    BY <1>3, <2>1
  <2>. QED
    BY <1>5, <2>1, <2>2, <2>3
<1>7. Receivers' = Receivers
  BY <1>1 DEF Receivers
<1>8. CASE waiting_senders = <<>>
  <2>1. count' = count - 1 /\ waiting_senders' = waiting_senders
    BY <1>2, <1>8 DEF RecvBuffered
  <2>2. Contents' = Tail(Contents)
    BY <1>3, <1>4, <1>5, <1>6, <2>1, SeqEqual
  <2>3. Senders = {} /\ Senders' = Senders
    BY <1>3, <1>8, <2>1 DEF Senders
  <2>. QED
    BY <1>1, <1>3, <1>7, <2>2, <2>3 DEF Bounded!Take, Receivers, Senders, Range
<1>9. CASE waiting_senders # <<>>
  <2>1. waiting_senders' = Tail(waiting_senders)
    BY <1>9 DEF RecvBuffered, Refill
  <2>2. /\ Head(waiting_senders) \in Calls /\ Head(waiting_senders) \in Senders
        /\ Senders' = Senders \ {Head(waiting_senders)}
    BY <1>1, <1>9, <2>1, PopStack DEF TypeOK, DistinctInv, Senders
  <2>3. PICK s \in Calls : s = Head(waiting_senders)
    BY <2>2
  <2>4. count' = count /\ \A i \in Nat : i = count - 1 => Nth(i)' = s
    BY <1>2, <1>9, <2>3
  <2>5. /\ Append(Tail(Contents), s) \in Seq(Calls)
        /\ Len(Append(Tail(Contents), s)) = (count - 1) + 1
        /\ \A i \in 1..(count - 1) : Append(Tail(Contents), s)[i] = Tail(Contents)[i]
        /\ Append(Tail(Contents), s)[(count - 1) + 1] = s
    BY <1>5, AppendProperties
  <2>6. \A i \in 1..count : Contents'[i] = Append(Tail(Contents), s)[i]
    <3>. SUFFICES ASSUME NEW i \in 1..count
                  PROVE  Contents'[i] = Append(Tail(Contents), s)[i]
      OBVIOUS
    <3>1. CASE i = count
      <4>1. i - 1 = count - 1 /\ i - 1 \in Nat /\ (count - 1) + 1 = count /\ i \in 1..count'
        BY <1>3, <2>4, <3>1
      <4>2. Contents'[i] = Nth(i - 1)' /\ Nth(i - 1)' = s
        BY <1>4, <2>4, <4>1
      <4>. QED
        BY <2>5, <3>1, <4>1, <4>2
    <3>2. CASE i # count
      <4>1. i \in 1..(count - 1) /\ i \in 1..count'
        BY <1>3, <2>4, <3>2
      <4>. QED
        BY <1>6, <2>5, <4>1
    <3>. QED
      BY <3>1, <3>2
  <2>7. Contents' = Append(Tail(Contents), s)
    <3>1. (count - 1) + 1 = count
      BY <1>3
    <3>. QED
      BY <1>4, <2>4, <2>5, <2>6, <3>1, SeqEqual
  <2>8. s \in Senders /\ Senders' = Senders \ {s}
    BY <2>2, <2>3
  <2>9. Bounded!TakeRefill(s)
    BY <1>1, <1>3, <1>7, <2>7, <2>8 DEF Bounded!TakeRefill, Receivers, Senders, Range
  <2>. QED
    BY <2>9
<1>. QED
  BY <1>8, <1>9

\* A call that is decided without the ring is a step of the waiters.
LEMMA WaitStep ==
  ASSUME DInv, NEW t \in Threads, RecvWait(t) \/ SendWait(t) \/ SendHandoff(t)
  PROVE  \E p \in Calls : \/ Bounded!WaitToReceive(p) \/ Bounded!WaitToSend(p)
                          \/ Bounded!Hand(p)
<1>1. /\ TypeOK /\ ControlInv /\ DistinctInv /\ PromiseInv /\ ~is_closed
      /\ UNCHANGED <<is_closed, buffer, head, count>>
      /\ pc[t] \in {"recv_cs", "send_cs"}
  BY DEF DInv, IInv, RecvWait, SendWait, SendHandoff
<1>2. PICK p \in Calls : p = mine[t]
  BY <1>1 DEF ControlInv, InCS
<1>3. p \in Fresh /\ p \notin Receivers /\ p \notin Senders
  BY <1>1, <1>2 DEF PromiseInv, Fresh, Calling
<1>4. /\ Len(Contents) = count /\ (Contents = <<>> <=> count = 0) /\ count \in Nat
      /\ Receivers = {} <=> waiting_receivers = <<>>
      /\ Contents' = Contents
  BY <1>1, AbsStateNow, SameContents DEF AbsState
<1>5. CASE RecvWait(t)
  <2>1. /\ count = 0 /\ waiting_senders' = waiting_senders
        /\ waiting_receivers' = <<p>> \o waiting_receivers
    BY <1>2, <1>5 DEF RecvWait
  <2>2. Receivers' = Receivers \union {p} /\ Senders' = Senders
    BY <1>1, <1>3, <2>1, PushStack DEF TypeOK, Receivers, Senders, DistinctInv
  <2>3. Bounded!WaitToReceive(p)
    BY <1>1, <1>3, <1>4, <2>1, <2>2 DEF Bounded!WaitToReceive, Receivers, Senders, Range
  <2>. QED
    BY <2>3
<1>6. CASE SendWait(t)
  <2>1. /\ count = Capacity /\ waiting_receivers' = waiting_receivers
        /\ waiting_receivers = <<>>
        /\ waiting_senders' = <<p>> \o waiting_senders
    BY <1>1, <1>2, <1>6, CapacityAssumption DEF SendWait, HasRoom, TypeOK
  <2>2. Receivers = {} /\ Receivers' = Receivers /\ Senders' = Senders \union {p}
    BY <1>1, <1>3, <1>4, <2>1, PushStack DEF TypeOK, Receivers, Senders, DistinctInv
  <2>3. Bounded!WaitToSend(p)
    BY <1>1, <1>3, <1>4, <2>1, <2>2 DEF Bounded!WaitToSend, Receivers, Senders, Range
  <2>. QED
    BY <2>3
<1>7. CASE SendHandoff(t)
  <2>1. /\ waiting_receivers # <<>> /\ waiting_receivers' = Tail(waiting_receivers)
        /\ waiting_senders' = waiting_senders
    BY <1>7 DEF SendHandoff, PopReceiver
  <2>2. /\ Head(waiting_receivers) \in Calls /\ Head(waiting_receivers) \in Receivers
        /\ Receivers' = Receivers \ {Head(waiting_receivers)}
        /\ Senders' = Senders
    BY <1>1, <2>1, PopStack DEF TypeOK, DistinctInv, Receivers, Senders
  <2>3. PICK r \in Calls : r = Head(waiting_receivers)
    BY <2>2
  <2>4. r \in Receivers /\ Receivers' = Receivers \ {r} /\ Senders' = Senders
    BY <2>2, <2>3
  <2>5. Bounded!Hand(r)
    BY <1>1, <1>4, <2>4 DEF Bounded!Hand, Receivers, Senders, Range
  <2>. QED
    BY <2>5
<1>. QED
  BY <1>5, <1>6, <1>7

\* What a close refuses was waiting, and receivers go first.
LEMMA RefuseStep ==
  ASSUME DInv, NEW t \in Threads, CloseReceiver(t) \/ CloseSender(t)
  PROVE  \E p \in Calls : Bounded!Refuse(p)
<1>1. /\ TypeOK /\ DistinctInv /\ is_closed /\ Contents' = Contents
      /\ UNCHANGED <<is_closed, buffer, head, count>>
  BY SameContents DEF DInv, IInv, ThreadInv, CloseReceiver, CloseSender
<1>2. CASE CloseReceiver(t)
  <2>1. /\ waiting_receivers # <<>> /\ waiting_receivers' = Tail(waiting_receivers)
        /\ waiting_senders' = waiting_senders
    BY <1>2 DEF CloseReceiver, PopReceiver
  <2>2. /\ Head(waiting_receivers) \in Calls /\ Head(waiting_receivers) \in Receivers
        /\ Receivers' = Receivers \ {Head(waiting_receivers)}
        /\ Senders' = Senders
    BY <1>1, <2>1, PopStack DEF TypeOK, DistinctInv, Receivers, Senders
  <2>3. PICK r \in Calls : r = Head(waiting_receivers)
    BY <2>2
  <2>4. r \in Receivers /\ Receivers' = Receivers \ {r} /\ Senders' = Senders
    BY <2>2, <2>3
  <2>5. Bounded!Refuse(r)
    BY <1>1, <2>4 DEF Bounded!Refuse, Receivers, Senders, Range
  <2>. QED
    BY <2>5
<1>3. CASE CloseSender(t)
  <2>1. /\ waiting_senders # <<>> /\ waiting_senders' = Tail(waiting_senders)
        /\ waiting_receivers' = waiting_receivers /\ waiting_receivers = <<>>
    BY <1>3 DEF CloseSender
  <2>2. /\ Head(waiting_senders) \in Calls /\ Head(waiting_senders) \in Senders
        /\ Senders' = Senders \ {Head(waiting_senders)}
        /\ Receivers' = Receivers /\ Receivers = {}
    BY <1>1, <2>1, PopStack, AbsStateNow
       DEF AbsState, TypeOK, DistinctInv, Receivers, Senders
  <2>3. PICK s \in Calls : s = Head(waiting_senders)
    BY <2>2
  <2>4. /\ s \in Senders /\ Senders' = Senders \ {s}
        /\ Receivers' = Receivers /\ Receivers = {}
    BY <2>2, <2>3
  <2>5. Bounded!Refuse(s)
    BY <1>1, <2>4 DEF Bounded!Refuse, Receivers, Senders, Range
  <2>. QED
    BY <2>5
<1>. QED
  BY <1>2, <1>3

\* Every other step is invisible, or it is the close.
LEMMA HiddenStep ==
  ASSUME DInv,
         UNCHANGED <<buffer, head, count, waiting_receivers, waiting_senders>>,
         is_closed' = is_closed \/ is_closed' = TRUE
  PROVE  UNCHANGED Bounded!vars \/ Bounded!Close
<1>1. Contents' = Contents /\ Receivers' = Receivers /\ Senders' = Senders
  BY SameContents DEF Receivers, Senders
<1>. QED
  BY <1>1 DEF Bounded!vars, Bounded!Close, Receivers, Senders, Range

LEMMA BoundedStep ==
  ASSUME DInv, DInv', [Next]_vars
  PROVE  [Bounded!Next]_(Bounded!vars)
<1>1. ASSUME NEW t \in Threads, Step(t)
      PROVE  [Bounded!Next]_(Bounded!vars)
  <2>1. CASE SendBuffered(t)
    BY <2>1, PutStep DEF Bounded!Next
  <2>2. CASE RecvBuffered(t)
    BY <2>2, TakeStep DEF Bounded!Next
  <2>3. CASE RecvWait(t) \/ SendWait(t) \/ SendHandoff(t)
    BY <2>3, WaitStep DEF Bounded!Next
  <2>4. CASE CloseReceiver(t) \/ CloseSender(t)
    BY <2>4, RefuseStep DEF Bounded!Next
  <2>5. CASE SpinAcquire(t)
    <3>1. /\ UNCHANGED <<buffer, head, count, waiting_receivers, waiting_senders>>
          /\ is_closed' = is_closed \/ is_closed' = TRUE
      BY <2>5 DEF SpinAcquire, DInv, IInv, TypeOK
    <3>. QED
      BY <3>1, HiddenStep DEF Bounded!Next
  <2>6. CASE RecvClosed(t) \/ SendClosed(t) \/ CloseDone(t) \/ SettleNext(t)
    <3>1. UNCHANGED chan
      BY <2>6 DEF RecvClosed, SendClosed, CloseDone, SettleNext
    <3>. QED
      BY <3>1, HiddenStep DEF Bounded!Next, chan
  <2>. QED
    BY <1>1, <2>1, <2>2, <2>3, <2>4, <2>5, <2>6 DEF Step
<1>2. CASE \/ UNCHANGED vars
           \/ \E t \in Threads : Channel_recv(t) \/ Channel_send(t) \/ Channel_close(t)
           \/ \E p \in Calls : Cancel(p)
  <2>1. UNCHANGED chan
    BY <1>2 DEF vars, Channel_recv, Channel_send, Begin, Channel_close, Cancel
  <2>. QED
    BY <2>1, HiddenStep DEF Bounded!Next, chan
<1>. QED
  BY <1>1, <1>2 DEF Next

\* Ring, wait stacks and spin lock together implement a bounded FIFO queue
\* with sets of waiters: values leave in the order they entered, and a waiter
\* leaves its set only to be served or, after a close, refused.
THEOREM RingIsQueue == Spec => ImplementsBounded
<1>1. Init => Bounded!Init
  <2>. SUFFICES ASSUME Init PROVE Bounded!Init
    OBVIOUS
  <2>1. Contents = <<>>
    <3>1. Contents = [i \in {} |-> buffer[SlotOf(i - 1)]]
      BY DEF Init, Contents
    <3>. QED
      BY <3>1
  <2>. QED
    BY <2>1 DEF Init, Bounded!Init
<1>2. DInv /\ DInv' /\ [Next]_vars => [Bounded!Next]_(Bounded!vars)
  BY BoundedStep
<1>. QED
  BY <1>1, <1>2, DeliveryInvariance, PTL DEF Spec, ImplementsBounded, Bounded!Spec
=============================================================================
