-------------------------------- MODULE Arc --------------------------------
(***************************************************************************)
(* The reference counts of one heap object (runtime/src/core/arc.c), at    *)
(* the grain of the atomic operations on its header: threads retain and    *)
(* release strong handles, and store and load weak slots that point to     *)
(* the object.                                                             *)
(*                                                                         *)
(* The strong handles together own one weak count.  A weak slot holds the  *)
(* object or something else (null, or another object with a header of its  *)
(* own).  Everything interleaves freely, loads and stores of one slot too. *)
(* A load that read the slot before a store's exchange may find the header *)
(* freed (arc.c 198, 186, 209): it then reads memory that is not its own,  *)
(* which is undefined, and the behaviour ends there, with wild set.        *)
(***************************************************************************)
EXTENDS Integers, FiniteSets

CONSTANTS
  Threads,
  Handles,    \* bound: strong handles that exist at a time
  Slots,      \* weak slots
  Creator,    \* the thread that allocates the object, with its handle First
  First,
  NONE

ASSUME CreatorAssumption == Creator \in Threads /\ First \in Handles
ASSUME NoneAssumption    == NONE \notin Threads /\ NONE \notin Handles /\ NONE \notin Slots
ASSUME FiniteAssumption  == IsFiniteSet(Threads) /\ IsFiniteSet(Handles) /\ IsFiniteSet(Slots)

VARIABLES
  mem,          \* "live", "dead" once the destructor ran, "freed"
  ref_count, weak_count,
  holder,       \* handle -> the thread that holds it, NONE if it is null
  slot,         \* slot -> does it point to the object
  pc,           \* where each thread is in an operation
  at,           \* the slot it operates on
  count,        \* the ref_count that load_weak read
  wild          \* load_weak has touched a freed header

vars == <<mem, ref_count, weak_count, holder, slot, pc, at, count, wild>>

\* moksha_rt_alloc: both counts start at one.
Init ==
  /\ mem = "live"
  /\ ref_count = 1 /\ weak_count = 1
  /\ holder = [h \in Handles |-> IF h = First THEN Creator ELSE NONE]
  /\ slot = [s \in Slots |-> FALSE]
  /\ pc = [t \in Threads |-> "idle"]
  /\ at = [t \in Threads |-> NONE]
  /\ count = [t \in Threads |-> 0]
  /\ wild = FALSE

Idle(t) == pc[t] = "idle"
Holds(t) == \E h \in Handles : holder[h] = t
Goto(t, label) == pc' = [pc EXCEPT ![t] = label]
Done(t) == pc' = [pc EXCEPT ![t] = "idle"] /\ at' = [at EXCEPT ![t] = NONE]

-----------------------------------------------------------------------------
(* Strong handles.                                                         *)

\* moksha_rt_retain, on an object the thread has a handle of.
Retain(t, h) ==
  /\ Idle(t) /\ Holds(t) /\ holder[h] = NONE
  /\ ref_count' = ref_count + 1
  /\ holder' = [holder EXCEPT ![h] = t]
  /\ UNCHANGED <<mem, weak_count, slot, pc, at, count, wild>>

\* A handle moves to another thread; the counts do not change.
Move(t, h, u) ==
  /\ Idle(t) /\ holder[h] = t
  /\ holder' = [holder EXCEPT ![h] = u]
  /\ UNCHANGED <<mem, ref_count, weak_count, slot, pc, at, count, wild>>

\* moksha_rt_release_with_dtor: the decrement, and if it was the last handle
\* the destructor, then the weak count of the strong handles.
Release(t, h) ==
  /\ Idle(t) /\ holder[h] = t
  /\ ref_count' = ref_count - 1
  /\ holder' = [holder EXCEPT ![h] = NONE]
  /\ Goto(t, IF ref_count - 1 = 0 THEN "dtor" ELSE "idle")
  /\ UNCHANGED <<mem, weak_count, slot, at, count, wild>>

\* The destructor and the built-in ones of promises and tables.
Destruct(t) ==
  /\ pc[t] = "dtor"
  /\ mem' = "dead"
  /\ Goto(t, "release_weak")
  /\ UNCHANGED <<ref_count, weak_count, holder, slot, at, count, wild>>

ReleaseWeakForgotten(t) ==
  /\ pc[t] = "release_weak"
  /\ Goto(t, "idle")
  /\ UNCHANGED <<mem, ref_count, weak_count, holder, slot, at, count, wild>>
ReleaseWeak(t) ==
  /\ pc[t] = "release_weak"
  /\ weak_count' = weak_count - 1
  /\ Goto(t, IF weak_count - 1 = 0 THEN "free" ELSE "idle")
  /\ UNCHANGED <<mem, ref_count, holder, slot, at, count, wild>>

\* moksha_mem_free of the header, from release or from store_weak.
Free(t) ==
  /\ pc[t] = "free"
  /\ mem' = "freed"
  /\ Done(t)
  /\ UNCHANGED <<ref_count, weak_count, holder, slot, count, wild>>

-----------------------------------------------------------------------------
(* Weak slots.                                                             *)

\* moksha_rt_store_weak of the object, which the caller holds: the weak
\* count first, then the exchange of the slot.
StoreWeakForgetsCount(t, s) ==
  /\ Idle(t) /\ Holds(t)
  /\ at' = [at EXCEPT ![t] = s]
  /\ Goto(t, "store_obj")
  /\ UNCHANGED <<mem, ref_count, weak_count, holder, slot, count, wild>>
StoreWeak(t, s) ==
  /\ Idle(t) /\ Holds(t)
  /\ weak_count' = weak_count + 1
  /\ at' = [at EXCEPT ![t] = s]
  /\ Goto(t, "store_obj")
  /\ UNCHANGED <<mem, ref_count, holder, slot, count, wild>>

\* ... and of null or of another object.
StoreWeakOther(t, s) ==
  /\ Idle(t)
  /\ at' = [at EXCEPT ![t] = s]
  /\ Goto(t, "store_other")
  /\ UNCHANGED <<mem, ref_count, weak_count, holder, slot, count, wild>>

\* The exchange; what the slot held loses its weak count.
StoreExchange(t) ==
  /\ pc[t] \in {"store_obj", "store_other"}
  /\ slot' = [slot EXCEPT ![at[t]] = (pc[t] = "store_obj")]
  /\ IF slot[at[t]] THEN Goto(t, "store_drop") /\ UNCHANGED at ELSE Done(t)
  /\ UNCHANGED <<mem, ref_count, weak_count, holder, count, wild>>

StoreDrop(t) ==
  /\ pc[t] = "store_drop"
  /\ weak_count' = weak_count - 1
  /\ IF weak_count - 1 = 0 THEN Goto(t, "free") /\ UNCHANGED at ELSE Done(t)
  /\ UNCHANGED <<mem, ref_count, holder, slot, count, wild>>

\* moksha_rt_load_weak: read the slot; a null slot ends the load.
LoadWeak(t, s) ==
  /\ Idle(t) /\ slot[s]
  /\ at' = [at EXCEPT ![t] = s]
  /\ Goto(t, "load_count")
  /\ UNCHANGED <<mem, ref_count, weak_count, holder, slot, count, wild>>

\* Read ref_count; an object without handles is gone.
LoadCount(t) ==
  /\ pc[t] = "load_count" /\ mem # "freed"
  /\ count' = [count EXCEPT ![t] = ref_count]
  /\ IF ref_count = 0 THEN Done(t) ELSE Goto(t, "load_cas") /\ UNCHANGED at
  /\ UNCHANGED <<mem, ref_count, weak_count, holder, slot, wild>>

\* The compare-exchange makes a handle, or the load starts over.
LoadCas(t, h) ==
  /\ pc[t] = "load_cas" /\ mem # "freed" /\ holder[h] = NONE
  /\ ref_count = count[t]
  /\ ref_count' = ref_count + 1
  /\ holder' = [holder EXCEPT ![h] = t]
  /\ Done(t)
  /\ UNCHANGED <<mem, weak_count, slot, count, wild>>

LoadRetry(t) ==
  /\ pc[t] = "load_cas" /\ mem # "freed"
  /\ ref_count # count[t]
  /\ Goto(t, "load_slot")
  /\ UNCHANGED <<mem, ref_count, weak_count, holder, slot, at, count, wild>>

\* The next turn of load_weak's loop reads the slot again.
LoadSlot(t) ==
  /\ pc[t] = "load_slot"
  /\ IF slot[at[t]] THEN Goto(t, "load_count") /\ UNCHANGED at ELSE Done(t)
  /\ UNCHANGED <<mem, ref_count, weak_count, holder, slot, count, wild>>

\* The count or the compare-exchange of a header that is gone.
LoadWild(t) ==
  /\ pc[t] \in {"load_count", "load_cas"} /\ mem = "freed"
  /\ wild' = TRUE
  /\ UNCHANGED <<mem, ref_count, weak_count, holder, slot, pc, at, count>>

Step ==
  \/ \E t \in Threads, h \in Handles : Retain(t, h) \/ Release(t, h) \/ LoadCas(t, h)
  \/ \E t, u \in Threads, h \in Handles : Move(t, h, u)
  \/ \E t \in Threads, s \in Slots : StoreWeak(t, s) \/ StoreWeakOther(t, s) \/ LoadWeak(t, s)
  \/ \E t \in Threads :
       \/ Destruct(t) \/ ReleaseWeak(t) \/ Free(t)
       \/ StoreExchange(t) \/ StoreDrop(t)
       \/ LoadCount(t) \/ LoadRetry(t) \/ LoadSlot(t) \/ LoadWild(t)

Next == ~wild /\ Step

Spec == Init /\ [][Next]_vars
-----------------------------------------------------------------------------
(* Properties.                                                             *)

PCs == {"idle", "dtor", "release_weak", "free", "store_obj", "store_other",
        "store_drop", "load_slot", "load_count", "load_cas"}

\* The types of the counts, the handles and the slots.
TypeOK ==
  /\ mem \in {"live", "dead", "freed"}
  /\ ref_count \in Nat /\ weak_count \in Nat
  /\ holder \in [Handles -> Threads \union {NONE}]
  /\ slot \in [Slots -> BOOLEAN]
  /\ pc \in [Threads -> PCs]
  /\ at \in [Threads -> Slots \union {NONE}]
  /\ count \in [Threads -> Nat]
  /\ wild \in BOOLEAN

Held    == {h \in Handles : holder[h] # NONE}
At(l)   == {t \in Threads : pc[t] \in l}
Weakly  == {s \in Slots : slot[s]}
\* The weak count that the strong handles own together.
Implicit == IF mem = "live" \/ At({"dtor", "release_weak"}) # {} THEN 1 ELSE 0

\* The counts are exact at every moment: ref_count is the number of
\* handles, weak_count that of slots, of stores in flight and of the strong
\* handles' common one.
CountsExact ==
  /\ ref_count = Cardinality(Held)
  /\ weak_count = Cardinality(Weakly) + Cardinality(At({"store_obj", "store_drop"})) + Implicit

\* A handle is a handle of a live object: load_weak never brings one back
\* whose destructor has started, however it races with the last release.
HandlesLive ==
  Held # {} => mem = "live" /\ At({"dtor", "release_weak"}) = {}

\* Threads that hold nothing of the object: idle, about to store another
\* object or to read a slot.
Outside == {"idle", "store_other", "load_slot"}

\* One thread frees the header, after the destructor, when no handle and no
\* slot is left, and then nobody touches it, with one exception: a load that
\* took the object from a slot which a store has overwritten since.  Its slot
\* still holding the object, a load is safe.
OnlyOvertakenLoadsDangle ==
  /\ mem = "freed" => /\ Held = {} /\ Weakly = {}
                      /\ At(PCs \ (Outside \union {"load_count", "load_cas"})) = {}
  /\ \A t, u \in At({"free"}) : t = u
  /\ At({"free"}) # {} => mem = "dead"
  /\ \A t \in At({"load_count", "load_cas"}) :
       slot[at[t]] => mem # "freed" /\ At({"free"}) = {}

\* An object that nothing refers to any more was freed.
NoLeak ==
  (Held = {} /\ Weakly = {} /\ At(PCs \ (Outside \union {"load_count", "load_cas"})) = {})
    => mem = "freed"
=============================================================================
