----------------------------- MODULE ArcProofs -----------------------------
(***************************************************************************)
(* Proofs about module Arc, for every finite set of threads, of handles    *)
(* and of weak slots.                                                      *)
(***************************************************************************)
EXTENDS Arc, FiniteSetTheorems, TLAPS

\* Threads that end an object's life, and weak stores that own a count.
Ending  == At({"dtor", "release_weak"})
Storing == At({"store_obj", "store_drop"})
SlotPCs == {"store_obj", "store_other", "store_drop", "load_slot", "load_count", "load_cas"}

\* A weak operation in flight has a slot.
SlotInv == \A t \in Threads : pc[t] \in SlotPCs => at[t] \in Slots

\* One thread ends the object's life, once, and in the order destructor,
\* weak count, free.
LifeInv ==
  /\ \A t, u \in Ending : t = u
  /\ \A t \in Threads : pc[t] = "dtor" => mem = "live"
  /\ \A t \in Threads : pc[t] = "release_weak" => mem = "dead"
  /\ \A t \in Threads : pc[t] = "free" => mem = "dead" /\ weak_count = 0
  /\ \A t, u \in Threads : pc[t] = "free" /\ pc[u] = "free" => t = u
  /\ (mem = "live" /\ Held = {}) => \E t \in Threads : pc[t] = "dtor"
  /\ (mem = "dead" /\ weak_count = 0) => \E t \in Threads : pc[t] = "free"
  /\ mem = "freed" => weak_count = 0
  /\ \A t \in Threads : pc[t] = "load_cas" => count[t] > 0

IInv == CountsExact /\ HandlesLive /\ SlotInv /\ LifeInv

-----------------------------------------------------------------------------
(* The sets that are counted.                                              *)

LEMMA Finite ==
  ASSUME TypeOK
  PROVE  /\ IsFiniteSet(Held) /\ IsFiniteSet(Weakly) /\ IsFiniteSet(Storing)
         /\ Cardinality(Held) \in Nat /\ Cardinality(Weakly) \in Nat
         /\ Cardinality(Storing) \in Nat
<1>1. Held \subseteq Handles /\ Weakly \subseteq Slots /\ Storing \subseteq Threads
  BY DEF Held, Weakly, Storing, At
<1>. QED
  BY <1>1, FiniteAssumption, FS_Subset, FS_CardinalityType

LEMMA AddOne ==
  ASSUME NEW S, IsFiniteSet(S), NEW x, x \notin S
  PROVE  Cardinality(S \union {x}) = Cardinality(S) + 1
BY FS_AddElement

LEMMA RemoveOne ==
  ASSUME NEW S, IsFiniteSet(S), NEW x \in S
  PROVE  Cardinality(S \ {x}) = Cardinality(S) - 1 /\ Cardinality(S) > 0
<1>1. IsFiniteSet(S \ {x}) /\ Cardinality(S \ {x}) = Cardinality(S) - 1
  BY FS_RemoveElement
<1>2. Cardinality(S) \in Nat /\ Cardinality(S \ {x}) \in Nat
  BY <1>1, FS_CardinalityType
<1>. QED
  BY <1>1, <1>2

LEMMA EmptyCount ==
  ASSUME NEW S, IsFiniteSet(S)
  PROVE  Cardinality(S) = 0 <=> S = {}
BY FS_EmptySet

-----------------------------------------------------------------------------
(* What the invariant implies.                                             *)

\* While the weak count is positive or the object is referred to, nobody
\* frees it.
LEMMA Safe == TypeOK /\ IInv => OnlyOvertakenLoadsDangle /\ NoLeak
<1>. SUFFICES ASSUME TypeOK, IInv
              PROVE  OnlyOvertakenLoadsDangle /\ NoLeak
  OBVIOUS
<1>. DEFINE loading == {"load_count", "load_cas"}
<1>1. ASSUME weak_count = 0
      PROVE  Weakly = {} /\ Storing = {} /\ Implicit = 0
  BY <1>1, Finite, EmptyCount DEF IInv, CountsExact, Storing, Implicit
<1>2. ASSUME weak_count = 0
      PROVE  /\ mem # "live" /\ Ending = {} /\ Held = {}
             /\ \A t \in Threads : pc[t] \in loading => ~slot[at[t]]
  BY <1>1, <1>2 DEF Implicit, Ending, IInv, HandlesLive, SlotInv, SlotPCs, Weakly
<1>3. OnlyOvertakenLoadsDangle
  <2>1. ASSUME mem = "freed"
        PROVE  Held = {} /\ Weakly = {} /\ At(PCs \ (Outside \union loading)) = {}
    <3>1. weak_count = 0
      BY <2>1 DEF IInv, LifeInv
    <3>2. \A t \in Threads : pc[t] # "free"
      BY <2>1 DEF IInv, LifeInv
    <3>. QED
      BY <1>1, <1>2, <3>1, <3>2 DEF At, Ending, Storing, PCs, Outside
  <2>2. \A t, u \in At({"free"}) : t = u
    BY DEF At, IInv, LifeInv
  <2>3. At({"free"}) # {} => mem = "dead"
    BY DEF At, IInv, LifeInv
  <2>4. ASSUME NEW t \in At(loading), slot[at[t]]
        PROVE  mem # "freed" /\ At({"free"}) = {}
    <3>1. weak_count # 0
      BY <1>2, <2>4 DEF At
    <3>. QED
      BY <3>1 DEF At, IInv, LifeInv
  <2>. QED
    BY <2>1, <2>2, <2>3, <2>4 DEF OnlyOvertakenLoadsDangle
<1>4. NoLeak
  <2>. SUFFICES ASSUME Held = {}, Weakly = {}, At(PCs \ (Outside \union loading)) = {},
                       mem # "freed"
                PROVE  FALSE
    BY DEF NoLeak
  <2>1. \A t \in Threads : pc[t] \in Outside \union loading
    BY DEF At, TypeOK
  <2>2. mem = "dead"
    BY <2>1 DEF IInv, LifeInv, TypeOK, Outside
  <2>3. Storing = {} /\ At({"dtor", "release_weak"}) = {}
    BY <2>1 DEF Storing, At, Outside
  <2>4. Implicit = 0
    BY <2>2, <2>3 DEF Implicit
  <2>5. weak_count = 0
    BY <2>3, <2>4, Finite, EmptyCount DEF IInv, CountsExact, Storing
  <2>. QED
    BY <2>1, <2>2, <2>5 DEF IInv, LifeInv, Outside
<1>. QED
  BY <1>3, <1>4

-----------------------------------------------------------------------------
(* Strong handles.                                                         *)

\* Steps that leave the counts and the sets they count alone.
LEMMA SameCounts ==
  ASSUME CountsExact, UNCHANGED <<ref_count, weak_count>>,
         Held' = Held, Weakly' = Weakly, Storing' = Storing, Implicit' = Implicit
  PROVE  CountsExact'
BY DEF CountsExact, Storing

LEMMA RetainKeeps ==
  ASSUME TypeOK, IInv, NEW t \in Threads, NEW h \in Handles, Retain(t, h)
  PROVE  TypeOK' /\ IInv'
<1>1. TypeOK'
  BY DEF Retain, TypeOK
<1>2. Held' = Held \union {h} /\ h \notin Held /\ Held # {}
  BY NoneAssumption DEF Retain, Holds, Held, TypeOK
<1>3. /\ Cardinality(Held') = Cardinality(Held) + 1 /\ ref_count' = ref_count + 1
      /\ UNCHANGED <<mem, weak_count, slot, pc, at, count, wild>>
  BY <1>2, Finite, AddOne DEF Retain
<1>4. Weakly' = Weakly /\ Storing' = Storing /\ Implicit' = Implicit
  BY <1>3 DEF Weakly, Storing, Implicit, At
<1>5. CountsExact'
  BY <1>3, <1>4 DEF IInv, CountsExact, Storing
<1>6. mem = "live" /\ At({"dtor", "release_weak"}) = {}
  BY <1>2 DEF IInv, HandlesLive
<1>7. HandlesLive'
  BY <1>3, <1>6 DEF HandlesLive, At
<1>8. SlotInv'
  BY <1>3 DEF IInv, SlotInv
<1>9. LifeInv'
  BY <1>2, <1>3 DEF IInv, LifeInv, Ending, At
<1>. QED
  BY <1>1, <1>5, <1>7, <1>8, <1>9 DEF IInv

LEMMA MoveKeeps ==
  ASSUME TypeOK, IInv, NEW t \in Threads, NEW u \in Threads, NEW h \in Handles, Move(t, h, u)
  PROVE  TypeOK' /\ IInv'
<1>1. TypeOK'
  BY DEF Move, TypeOK
<1>2. /\ Held' = Held
      /\ UNCHANGED <<mem, ref_count, weak_count, slot, pc, at, count, wild>>
  BY NoneAssumption DEF Move, Held, TypeOK
<1>3. Weakly' = Weakly /\ Storing' = Storing /\ Implicit' = Implicit
  BY <1>2 DEF Weakly, Storing, Implicit, At
<1>4. CountsExact'
  BY <1>2, <1>3, SameCounts DEF IInv
<1>5. HandlesLive' /\ SlotInv' /\ LifeInv'
  BY <1>2 DEF IInv, HandlesLive, SlotInv, LifeInv, Ending, At
<1>. QED
  BY <1>1, <1>4, <1>5 DEF IInv

LEMMA ReleaseKeeps ==
  ASSUME TypeOK, IInv, NEW t \in Threads, NEW h \in Handles, Release(t, h)
  PROVE  TypeOK' /\ IInv'
<1>1. Held' = Held \ {h} /\ h \in Held
  BY NoneAssumption DEF Release, Held, TypeOK
<1>2. /\ Cardinality(Held') = Cardinality(Held) - 1 /\ Cardinality(Held) > 0
      /\ Cardinality(Held) \in Nat /\ IsFiniteSet(Held')
  BY <1>1, Finite, RemoveOne, FS_RemoveElement
<1>3. /\ ref_count = Cardinality(Held) /\ ref_count' = ref_count - 1 /\ pc[t] = "idle"
      /\ pc' = [pc EXCEPT ![t] = IF ref_count' = 0 THEN "dtor" ELSE "idle"]
      /\ UNCHANGED <<mem, weak_count, slot, at, count, wild>>
  BY DEF Release, Goto, Idle, IInv, CountsExact
<1>4. TypeOK'
  <2>1. ref_count' \in Nat
    BY <1>2, <1>3
  <2>2. pc' \in [Threads -> PCs]
    BY <1>3 DEF TypeOK, PCs
  <2>3. holder' \in [Handles -> Threads \union {NONE}]
    BY DEF Release, TypeOK
  <2>. QED
    BY <1>3, <2>1, <2>2, <2>3 DEF TypeOK
<1>5. mem = "live" /\ \A u \in Threads : pc[u] \notin {"dtor", "release_weak"}
  BY <1>1 DEF IInv, HandlesLive, At
<1>6. Weakly' = Weakly /\ Storing' = Storing /\ Implicit = 1 /\ Implicit' = 1
  BY <1>3, <1>5 DEF Weakly, Storing, Implicit, At, TypeOK
<1>7. CountsExact'
  BY <1>2, <1>3, <1>6 DEF IInv, CountsExact, Storing
<1>8. Held' = {} <=> ref_count' = 0
  BY <1>2, <1>3, EmptyCount
<1>9. HandlesLive'
  BY <1>3, <1>5, <1>8 DEF HandlesLive, At, TypeOK
<1>10. SlotInv'
  BY <1>3 DEF IInv, SlotInv, SlotPCs, TypeOK
<1>11. LifeInv'
  BY <1>3, <1>5, <1>8 DEF IInv, LifeInv, Ending, At, TypeOK
<1>. QED
  BY <1>4, <1>7, <1>9, <1>10, <1>11 DEF IInv

LEMMA DestructKeeps ==
  ASSUME TypeOK, IInv, NEW t \in Threads, Destruct(t)
  PROVE  TypeOK' /\ IInv'
<1>1. /\ pc[t] = "dtor" /\ pc' = [pc EXCEPT ![t] = "release_weak"] /\ mem' = "dead"
      /\ UNCHANGED <<ref_count, weak_count, holder, slot, at, count, wild>>
  BY DEF Destruct, Goto
<1>2. TypeOK'
  BY <1>1 DEF TypeOK, PCs
<1>3. /\ mem = "live" /\ Held = {} /\ Held' = {}
      /\ \A u \in Threads : pc[u] \in {"dtor", "release_weak"} => u = t
  BY <1>1 DEF IInv, LifeInv, HandlesLive, Ending, At, Held
<1>4. Weakly' = Weakly /\ Storing' = Storing /\ Implicit = 1 /\ Implicit' = 1
  BY <1>1, <1>3 DEF Weakly, Storing, Implicit, At, TypeOK
<1>5. CountsExact' /\ weak_count > 0
  BY <1>1, <1>3, <1>4, Finite, SameCounts DEF IInv, CountsExact, Storing
<1>6. HandlesLive'
  BY <1>3 DEF HandlesLive
<1>7. SlotInv'
  BY <1>1 DEF IInv, SlotInv, SlotPCs, TypeOK
<1>8. LifeInv'
  BY <1>1, <1>3, <1>5 DEF IInv, LifeInv, Ending, At, TypeOK
<1>. QED
  BY <1>2, <1>5, <1>6, <1>7, <1>8 DEF IInv

LEMMA ReleaseWeakKeeps ==
  ASSUME TypeOK, IInv, NEW t \in Threads, ReleaseWeak(t)
  PROVE  TypeOK' /\ IInv'
<1>1. /\ pc[t] = "release_weak" /\ weak_count' = weak_count - 1
      /\ pc' = [pc EXCEPT ![t] = IF weak_count' = 0 THEN "free" ELSE "idle"]
      /\ UNCHANGED <<mem, ref_count, holder, slot, at, count, wild>>
  BY DEF ReleaseWeak, Goto
<1>2. /\ mem = "dead" /\ Held = {} /\ Held' = Held
      /\ \A u \in Threads : pc[u] \in {"dtor", "release_weak"} => u = t
  BY <1>1 DEF IInv, LifeInv, HandlesLive, Ending, At, Held
<1>3. Weakly' = Weakly /\ Storing' = Storing /\ Implicit = 1 /\ Implicit' = 0
  BY <1>1, <1>2 DEF Weakly, Storing, Implicit, At, TypeOK
<1>4. weak_count > 0 /\ weak_count' \in Nat
  <2>1. weak_count = Cardinality(Weakly) + Cardinality(Storing) + 1
    BY <1>3 DEF IInv, CountsExact, Storing
  <2>. QED
    BY <1>1, <2>1, Finite
<1>5. TypeOK'
  BY <1>1, <1>4 DEF TypeOK, PCs
<1>6. CountsExact'
  BY <1>1, <1>2, <1>3, Finite DEF IInv, CountsExact, Storing
<1>7. HandlesLive'
  BY <1>2 DEF HandlesLive
<1>8. SlotInv'
  BY <1>1 DEF IInv, SlotInv, SlotPCs, TypeOK
<1>9. LifeInv'
  BY <1>1, <1>2, <1>4 DEF IInv, LifeInv, Ending, At, TypeOK
<1>. QED
  BY <1>5, <1>6, <1>7, <1>8, <1>9 DEF IInv

LEMMA FreeKeeps ==
  ASSUME TypeOK, IInv, NEW t \in Threads, Free(t)
  PROVE  TypeOK' /\ IInv'
<1>1. /\ pc[t] = "free" /\ mem' = "freed"
      /\ pc' = [pc EXCEPT ![t] = "idle"] /\ at' = [at EXCEPT ![t] = NONE]
      /\ UNCHANGED <<ref_count, weak_count, holder, slot, count, wild>>
  BY DEF Free, Done
<1>2. TypeOK'
  BY <1>1 DEF TypeOK, PCs
<1>3. mem = "dead" /\ weak_count = 0 /\ \A u \in Threads : pc[u] = "free" => u = t
  BY <1>1 DEF IInv, LifeInv
<1>4. Weakly = {} /\ Storing = {} /\ Implicit = 0
  BY <1>3, Finite, EmptyCount DEF IInv, CountsExact, Storing, Implicit
<1>5. Held = {} /\ \A u \in Threads : pc[u] \notin {"dtor", "release_weak"}
  BY <1>3, <1>4 DEF IInv, HandlesLive, Implicit, At
<1>6. Held' = Held /\ Weakly' = Weakly /\ Storing' = Storing /\ Implicit' = Implicit
  BY <1>1, <1>4, <1>5 DEF Held, Weakly, Storing, Implicit, At, TypeOK
<1>7. CountsExact'
  BY <1>1, <1>6, SameCounts DEF IInv
<1>8. HandlesLive'
  BY <1>5, <1>6 DEF HandlesLive
<1>9. SlotInv'
  BY <1>1, NoneAssumption DEF IInv, SlotInv, SlotPCs, TypeOK
<1>10. LifeInv'
  BY <1>1, <1>3, <1>5 DEF IInv, LifeInv, Ending, At, TypeOK
<1>. QED
  BY <1>2, <1>7, <1>8, <1>9, <1>10 DEF IInv

-----------------------------------------------------------------------------
(* Weak slots.                                                             *)

LEMMA StoreWeakKeeps ==
  ASSUME TypeOK, IInv, NEW t \in Threads, NEW s \in Slots, StoreWeak(t, s)
  PROVE  TypeOK' /\ IInv'
<1>1. /\ pc[t] = "idle" /\ pc' = [pc EXCEPT ![t] = "store_obj"]
      /\ at' = [at EXCEPT ![t] = s]
      /\ weak_count' = weak_count + 1
      /\ UNCHANGED <<mem, ref_count, holder, slot, count, wild>>
  BY DEF StoreWeak, Idle, Goto
<1>2. TypeOK'
  BY <1>1 DEF TypeOK, PCs
<1>3. /\ Held # {} /\ Held' = Held /\ mem = "live"
      /\ \A u \in Threads : pc[u] \notin {"dtor", "release_weak"}
  BY <1>1, NoneAssumption DEF StoreWeak, Holds, Held, IInv, HandlesLive, At
<1>4. /\ Weakly' = Weakly /\ Storing' = Storing \union {t} /\ t \notin Storing
      /\ Implicit = 1 /\ Implicit' = 1
  BY <1>1, <1>3 DEF Weakly, Storing, Implicit, At, TypeOK
<1>5. Cardinality(Storing') = Cardinality(Storing) + 1
  BY <1>4, Finite, AddOne
<1>6. CountsExact'
  BY <1>1, <1>3, <1>4, <1>5, Finite DEF IInv, CountsExact, Storing
<1>7. HandlesLive'
  BY <1>1, <1>3 DEF HandlesLive, At, TypeOK
<1>8. SlotInv'
  BY <1>1 DEF IInv, SlotInv, SlotPCs, TypeOK
<1>9. LifeInv'
  BY <1>1, <1>3 DEF IInv, LifeInv, Ending, At, TypeOK
<1>. QED
  BY <1>2, <1>6, <1>7, <1>8, <1>9 DEF IInv

LEMMA StoreWeakOtherKeeps ==
  ASSUME TypeOK, IInv, NEW t \in Threads, NEW s \in Slots,
         StoreWeakOther(t, s) \/ LoadWeak(t, s)
  PROVE  TypeOK' /\ IInv'
<1>1. /\ pc[t] = "idle" /\ pc' = [pc EXCEPT ![t] = pc'[t]]
      /\ pc'[t] \in {"store_other", "load_count"}
      /\ at' = [at EXCEPT ![t] = s]
      /\ UNCHANGED <<mem, ref_count, weak_count, holder, slot, count, wild>>
  BY DEF StoreWeakOther, LoadWeak, Idle, Goto, TypeOK
<1>2. TypeOK'
  BY <1>1 DEF TypeOK, PCs
<1>3. \A u \in Threads : u # t => pc'[u] = pc[u]
  BY <1>1 DEF TypeOK
<1>4. Held' = Held /\ Weakly' = Weakly /\ Storing' = Storing /\ Implicit' = Implicit
  BY <1>1, <1>3 DEF Held, Weakly, Storing, Implicit, At
<1>5. CountsExact'
  BY <1>1, <1>4, SameCounts DEF IInv
<1>6. HandlesLive'
  BY <1>1, <1>3, <1>4 DEF IInv, HandlesLive, At
<1>7. SlotInv'
  BY <1>1, <1>3 DEF IInv, SlotInv, SlotPCs, TypeOK
<1>8. LifeInv'
  BY <1>1, <1>3, <1>4 DEF IInv, LifeInv, Ending, At
<1>. QED
  BY <1>2, <1>5, <1>6, <1>7, <1>8 DEF IInv

LEMMA StoreExchangeKeeps ==
  ASSUME TypeOK, IInv, NEW t \in Threads, StoreExchange(t)
  PROVE  TypeOK' /\ IInv'
<1>. DEFINE s == at[t]
<1>1. /\ pc[t] \in {"store_obj", "store_other"} /\ s \in Slots
      /\ slot' = [slot EXCEPT ![s] = (pc[t] = "store_obj")]
      /\ UNCHANGED <<mem, ref_count, weak_count, holder, count, wild>>
  BY DEF StoreExchange, IInv, SlotInv, SlotPCs
<1>2. /\ pc' = [pc EXCEPT ![t] = IF slot[s] THEN "store_drop" ELSE "idle"]
      /\ at' = at \/ at' = [at EXCEPT ![t] = NONE]
      /\ slot[s] => at' = at
  BY DEF StoreExchange, Goto, Done
<1>3. TypeOK'
  <2>1. slot' \in [Slots -> BOOLEAN]
    BY <1>1 DEF TypeOK
  <2>2. pc' \in [Threads -> PCs] /\ at' \in [Threads -> Slots \union {NONE}]
    BY <1>2 DEF TypeOK, PCs
  <2>. QED
    BY <1>1, <2>1, <2>2 DEF TypeOK
<1>4. Held' = Held /\ Ending' = Ending /\ Implicit' = Implicit
  BY <1>1, <1>2 DEF Held, Ending, Implicit, At, TypeOK
<1>5. Cardinality(Weakly') + Cardinality(Storing') = Cardinality(Weakly) + Cardinality(Storing)
  <2>1. CASE pc[t] = "store_obj" /\ slot[s]
    <3>1. Weakly' = Weakly /\ Storing' = Storing
      BY <1>1, <1>2, <2>1 DEF Weakly, Storing, At, TypeOK
    <3>. QED
      BY <3>1
  <2>2. CASE pc[t] = "store_obj" /\ ~slot[s]
    <3>1. Weakly' = Weakly \union {s} /\ s \notin Weakly
      BY <1>1, <2>2 DEF Weakly, TypeOK
    <3>2. Storing' = Storing \ {t} /\ t \in Storing
      BY <1>2, <2>2 DEF Storing, At, TypeOK
    <3>3. Cardinality(Weakly') = Cardinality(Weakly) + 1
      BY <3>1, Finite, AddOne
    <3>4. Cardinality(Storing') = Cardinality(Storing) - 1
      BY <3>2, Finite, RemoveOne
    <3>. QED
      BY <3>3, <3>4, Finite
  <2>3. CASE pc[t] = "store_other" /\ slot[s]
    <3>1. Weakly' = Weakly \ {s} /\ s \in Weakly
      BY <1>1, <2>3 DEF Weakly, TypeOK
    <3>2. Storing' = Storing \union {t} /\ t \notin Storing
      BY <1>2, <2>3 DEF Storing, At, TypeOK
    <3>3. Cardinality(Weakly') = Cardinality(Weakly) - 1
      BY <3>1, Finite, RemoveOne
    <3>4. Cardinality(Storing') = Cardinality(Storing) + 1
      BY <3>2, Finite, AddOne
    <3>. QED
      BY <3>3, <3>4, Finite
  <2>4. CASE pc[t] = "store_other" /\ ~slot[s]
    <3>1. Weakly' = Weakly /\ Storing' = Storing
      BY <1>1, <1>2, <2>4 DEF Weakly, Storing, At, TypeOK
    <3>. QED
      BY <3>1
  <2>. QED
    BY <1>1, <2>1, <2>2, <2>3, <2>4
<1>6. CountsExact'
  <2>1. /\ ref_count = Cardinality(Held)
        /\ weak_count = Cardinality(Weakly) + Cardinality(Storing) + Implicit
    BY DEF IInv, CountsExact, Storing
  <2>2. /\ ref_count' = Cardinality(Held')
        /\ weak_count' = Cardinality(Weakly') + Cardinality(Storing') + Implicit'
    BY <1>1, <1>4, <1>5, <2>1
  <2>. QED
    BY <2>2 DEF CountsExact, Storing
<1>7. HandlesLive'
  BY <1>1, <1>4 DEF IInv, HandlesLive, Ending
<1>8. SlotInv'
  <2>1. \A u \in Threads : u # t => pc'[u] = pc[u] /\ at'[u] = at[u]
    BY <1>2 DEF TypeOK
  <2>2. pc'[t] \in {"store_drop", "idle"} /\ (pc'[t] = "store_drop" => at'[t] = s)
    BY <1>2 DEF TypeOK
  <2>. QED
    BY <1>1, <2>1, <2>2 DEF IInv, SlotInv, SlotPCs
<1>9. LifeInv'
  <2>1. \A u \in Threads : u # t => pc'[u] = pc[u]
    BY <1>2 DEF TypeOK
  <2>2. pc'[t] \in {"store_drop", "idle"}
    BY <1>2 DEF TypeOK
  <2>. QED
    BY <1>1, <1>4, <2>1, <2>2 DEF IInv, LifeInv
<1>. QED
  BY <1>3, <1>6, <1>7, <1>8, <1>9 DEF IInv

LEMMA StoreDropKeeps ==
  ASSUME TypeOK, IInv, NEW t \in Threads, StoreDrop(t)
  PROVE  TypeOK' /\ IInv'
<1>1. /\ pc[t] = "store_drop" /\ weak_count' = weak_count - 1
      /\ pc' = [pc EXCEPT ![t] = IF weak_count' = 0 THEN "free" ELSE "idle"]
      /\ at' = at \/ at' = [at EXCEPT ![t] = NONE]
      /\ UNCHANGED <<mem, ref_count, holder, slot, count, wild>>
  BY DEF StoreDrop, Goto, Done
<1>2. Storing' = Storing \ {t} /\ t \in Storing
  BY <1>1 DEF Storing, At, TypeOK
<1>3. Cardinality(Storing') = Cardinality(Storing) - 1 /\ Cardinality(Storing) > 0
  BY <1>2, Finite, RemoveOne
<1>4. Held' = Held /\ Weakly' = Weakly /\ Ending' = Ending /\ Implicit' = Implicit
  BY <1>1 DEF Held, Weakly, Ending, Implicit, At, TypeOK
<1>5. /\ ref_count = Cardinality(Held) /\ Implicit \in {0, 1}
      /\ weak_count = Cardinality(Weakly) + Cardinality(Storing) + Implicit
  BY DEF IInv, CountsExact, Storing, Implicit
<1>6. weak_count > 0 /\ weak_count' \in Nat
  BY <1>1, <1>3, <1>5, Finite
<1>7. CountsExact'
  <2>1. weak_count' = Cardinality(Weakly') + Cardinality(Storing') + Implicit'
    BY <1>1, <1>3, <1>4, <1>5, Finite
  <2>. QED
    BY <1>1, <1>4, <1>5, <2>1 DEF CountsExact, Storing
<1>8. TypeOK'
  BY <1>1, <1>6 DEF TypeOK, PCs
<1>9. HandlesLive'
  BY <1>1, <1>4 DEF IInv, HandlesLive, Ending
<1>10. SlotInv'
  BY <1>1, NoneAssumption DEF IInv, SlotInv, SlotPCs, TypeOK
<1>11. weak_count' = 0 => mem = "dead"
  <2>1. weak_count' = 0 => Implicit = 0
    BY <1>1, <1>3, <1>5, Finite
  <2>. QED
    BY <1>6, <2>1 DEF Implicit, IInv, LifeInv, TypeOK
<1>12. LifeInv'
  <2>1. \A u \in Threads : u # t => pc'[u] = pc[u]
    BY <1>1 DEF TypeOK
  <2>2. pc'[t] = IF weak_count' = 0 THEN "free" ELSE "idle"
    BY <1>1 DEF TypeOK
  <2>3. \A u \in Threads : pc[u] # "free"
    BY <1>6 DEF IInv, LifeInv
  <2>. QED
    BY <1>1, <1>4, <1>6, <1>11, <2>1, <2>2, <2>3 DEF IInv, LifeInv
<1>. QED
  BY <1>7, <1>8, <1>9, <1>10, <1>12 DEF IInv

LEMMA LoadKeeps ==
  ASSUME TypeOK, IInv, NEW t \in Threads,
         LoadCount(t) \/ LoadRetry(t) \/ LoadSlot(t) \/ LoadWild(t)
  PROVE  TypeOK' /\ IInv'
<1>. DEFINE loads == {"load_slot", "load_count", "load_cas"}
<1>1. /\ pc[t] \in loads
      /\ pc' = [pc EXCEPT ![t] = pc'[t]] /\ pc'[t] \in loads \union {"idle"}
      /\ count' = [count EXCEPT ![t] = count'[t]] /\ count'[t] \in Nat
      /\ pc'[t] = "load_cas" => count'[t] > 0
      /\ at' = at \/ (at' = [at EXCEPT ![t] = NONE] /\ pc'[t] = "idle")
      /\ wild' \in BOOLEAN
      /\ UNCHANGED <<mem, ref_count, weak_count, holder, slot>>
  <2>1. CASE LoadCount(t)
    BY <2>1 DEF LoadCount, Goto, Done, TypeOK
  <2>2. CASE LoadRetry(t)
    BY <2>2 DEF LoadRetry, Goto, TypeOK
  <2>3. CASE LoadSlot(t)
    BY <2>3 DEF LoadSlot, Goto, Done, TypeOK
  <2>4. CASE LoadWild(t)
    <3>1. UNCHANGED <<pc, at, count, mem, ref_count, weak_count, holder, slot>> /\ wild' = TRUE
      BY <2>4 DEF LoadWild
    <3>2. pc[t] \in {"load_count", "load_cas"} /\ (pc[t] = "load_cas" => count[t] > 0)
      BY <2>4 DEF LoadWild, IInv, LifeInv
    <3>3. pc = [pc EXCEPT ![t] = pc[t]] /\ count = [count EXCEPT ![t] = count[t]] /\ count[t] \in Nat
      BY DEF TypeOK
    <3>. QED
      BY <3>1, <3>2, <3>3
  <2>. QED
    BY <2>1, <2>2, <2>3, <2>4
<1>2. TypeOK'
  BY <1>1 DEF TypeOK, PCs
<1>3. \A u \in Threads : u # t => pc'[u] = pc[u] /\ count'[u] = count[u]
  BY <1>1 DEF TypeOK
<1>4. /\ Held' = Held /\ Weakly' = Weakly /\ Storing' = Storing /\ Implicit' = Implicit
      /\ Ending' = Ending
  BY <1>1, <1>3 DEF Held, Weakly, Storing, Implicit, Ending, At
<1>5. CountsExact'
  BY <1>1, <1>4, SameCounts DEF IInv
<1>6. HandlesLive'
  BY <1>1, <1>4 DEF IInv, HandlesLive, Ending
<1>7. SlotInv'
  BY <1>1, <1>3, NoneAssumption DEF IInv, SlotInv, SlotPCs, TypeOK
<1>8. LifeInv'
  BY <1>1, <1>3, <1>4 DEF IInv, LifeInv
<1>. QED
  BY <1>2, <1>5, <1>6, <1>7, <1>8 DEF IInv

LEMMA LoadCasKeeps ==
  ASSUME TypeOK, IInv, NEW t \in Threads, NEW h \in Handles, LoadCas(t, h)
  PROVE  TypeOK' /\ IInv'
<1>1. /\ pc[t] = "load_cas" /\ holder[h] = NONE /\ ref_count > 0
      /\ pc' = [pc EXCEPT ![t] = "idle"] /\ at' = [at EXCEPT ![t] = NONE]
      /\ ref_count' = ref_count + 1 /\ holder' = [holder EXCEPT ![h] = t]
      /\ UNCHANGED <<mem, weak_count, slot, count, wild>>
  BY DEF LoadCas, Done, IInv, LifeInv
<1>2. TypeOK'
  BY <1>1 DEF TypeOK, PCs
<1>3. Held' = Held \union {h} /\ h \notin Held
  BY <1>1, NoneAssumption DEF Held, TypeOK
<1>4. Cardinality(Held') = Cardinality(Held) + 1
  BY <1>3, Finite, AddOne
<1>5. Held # {}
  BY <1>1, Finite, EmptyCount DEF IInv, CountsExact
<1>6. mem = "live" /\ \A u \in Threads : pc[u] \notin {"dtor", "release_weak"}
  BY <1>5 DEF IInv, HandlesLive, At
<1>7. Weakly' = Weakly /\ Storing' = Storing /\ Implicit' = Implicit
  BY <1>1, <1>6 DEF Weakly, Storing, Implicit, At, TypeOK
<1>8. CountsExact'
  BY <1>1, <1>4, <1>7 DEF IInv, CountsExact, Storing
<1>9. HandlesLive'
  BY <1>1, <1>6 DEF HandlesLive, At, TypeOK
<1>10. SlotInv'
  BY <1>1, NoneAssumption DEF IInv, SlotInv, SlotPCs, TypeOK
<1>11. LifeInv'
  BY <1>1, <1>3, <1>6 DEF IInv, LifeInv, Ending, At, TypeOK
<1>. QED
  BY <1>2, <1>8, <1>9, <1>10, <1>11 DEF IInv

-----------------------------------------------------------------------------
(* The theorems.                                                           *)

LEMMA Invariance == Spec => [](TypeOK /\ IInv)
<1>1. Init => TypeOK /\ IInv
  <2>. SUFFICES ASSUME Init
                PROVE  TypeOK /\ IInv
    OBVIOUS
  <2>1. slot \in [Slots -> BOOLEAN]
    BY DEF Init
  <2>2. TypeOK
    BY <2>1, CreatorAssumption DEF Init, TypeOK, PCs
  <2>3. Held = {First} /\ Weakly = {} /\ Storing = {} /\ Ending = {} /\ Implicit = 1
    BY CreatorAssumption, NoneAssumption DEF Init, Held, Weakly, Storing, Ending, At, Implicit
  <2>4. Cardinality({First}) = 1 /\ Cardinality({}) = 0
    BY FS_Singleton, FS_EmptySet
  <2>5. CountsExact
    <3>1. ref_count = Cardinality(Held)
          /\ weak_count = Cardinality(Weakly) + Cardinality(Storing) + Implicit
      BY <2>3, <2>4 DEF Init
    <3>. QED
      BY <3>1 DEF CountsExact, Storing
  <2>6. HandlesLive
    BY <2>3 DEF HandlesLive, Init, Ending
  <2>7. SlotInv
    BY NoneAssumption DEF SlotInv, SlotPCs, Init
  <2>8. LifeInv
    BY <2>3 DEF LifeInv, Init
  <2>. QED
    BY <2>2, <2>5, <2>6, <2>7, <2>8 DEF IInv
<1>2. TypeOK /\ IInv /\ [Next]_vars => TypeOK' /\ IInv'
  <2>. SUFFICES ASSUME TypeOK, IInv, [Next]_vars
                PROVE  TypeOK' /\ IInv'
    OBVIOUS
  <2>1. CASE UNCHANGED vars
    BY <2>1 DEF vars, TypeOK, IInv, CountsExact, HandlesLive, SlotInv, LifeInv, Ending,
                Held, Weakly, Implicit, At
  <2>. QED
    BY <2>1, RetainKeeps, ReleaseKeeps, LoadCasKeeps, MoveKeeps, StoreWeakKeeps,
       StoreWeakOtherKeeps, DestructKeeps, ReleaseWeakKeeps, FreeKeeps,
       StoreExchangeKeeps, StoreDropKeeps, LoadKeeps DEF Next, Step
<1>. QED
  BY <1>1, <1>2, PTL DEF Spec

\* For every number of threads, handles and slots, ref_count and weak_count
\* are exact between any two atomic operations of arc.c.
THEOREM ExactCounts == Spec => []CountsExact
<1>1. IInv => CountsExact
  BY DEF IInv
<1>. QED
  BY <1>1, Invariance, PTL

\* A strong handle always refers to an object whose destructor has not
\* started: the upgrade in moksha_rt_load_weak is safe.
THEOREM UpgradeIsSafe == Spec => []HandlesLive
<1>1. IInv => HandlesLive
  BY DEF IInv
<1>. QED
  BY <1>1, Invariance, PTL

\* The header is freed once and after the destructor, when no handle, no slot
\* and no store refers to it; only a load whose slot was overwritten since it
\* was read (arc.c 198) may touch it afterwards, however the operations of any
\* number of threads interleave.
THEOREM MemorySafety == Spec => []OnlyOvertakenLoadsDangle
BY Safe, Invariance, PTL

\* An object that nothing refers to any more was freed.
THEOREM LeakFreedom == Spec => []NoLeak
BY Safe, Invariance, PTL
=============================================================================
