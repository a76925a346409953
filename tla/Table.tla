------------------------------- MODULE Table -------------------------------
(***************************************************************************)
(* The hash table behind table<K, V> (runtime/src/core/map.c): an array of *)
(* buckets that never grows, each a chain of entries, and a second list    *)
(* through all the entries in the order in which their keys came.  Lookups *)
(* go through the buckets; iteration, remove and clear through the list.   *)
(*                                                                         *)
(* Keys and values are boxes: objects with a count of references.  Boxes   *)
(* of strings and of numbers of 32 and 64 bits are compared, and hashed,   *)
(* by content; every other box by its address.                             *)
(*                                                                         *)
(* A for-in loop of compiled code (LowerHIRToMIR.cpp, visitForInStmt) is   *)
(* part of the module: it asks for the length and for the entry at an      *)
(* index in every round, while its body changes the table.                 *)
(***************************************************************************)
EXTENDS Naturals, Sequences, FiniteSets, SequencesExt

CONSTANTS Boxes,           \* the boxes that serve as keys
          Values,          \* the boxes that serve as values
          Content(_),      \* what a key box holds, its type included
          ByContent(_),    \* it is a string, or a number of 32 or 64 bits
          Hash(_),         \* FNV-1a, of a content or of an address
          Capacity,        \* MAP_INITIAL_CAPACITY
          Nodes,           \* the addresses of entries
          NULL,            \* a null pointer; as a key, an any without data
          MaxRefs          \* bound: references taken to one box

ASSUME TableAssumption ==
    /\ Capacity \in Nat \ {0}
    /\ NULL \notin Nodes \cup Boxes \cup Values
    /\ IsFiniteSet(Nodes)
    /\ MaxRefs \in Nat
    /\ \A k \in Boxes : /\ ByContent(k) \in BOOLEAN
                        /\ Hash(k) \in Nat /\ Hash(Content(k)) \in Nat

VARIABLES key, val,        \* MapEntry: key, value ...
          next,            \* ... next entry of the bucket ...
          orderNext,       \* ... and order_next
          buckets, head, tail, size,
          used,            \* the entries that are allocated
          refs,            \* references that the table took and has not given back
          freed,           \* map_free_internal has run
          loop,            \* a for-in loop over the table
          out,             \* the answer of the last operation
          pruned           \* remove or clear has dropped an entry (nobody reads it)

entries == <<key, val, next, orderNext, buckets, head, tail, size, used>>
vars == <<entries, refs, freed, loop, out, pruned>>

Keys == Boxes \cup {NULL}
Links == Nodes \cup {NULL}
Indices == 0 .. Capacity - 1

-----------------------------------------------------------------------------
(* Keys *)

CmpAny(a, b) ==
    \/ a = b
    \/ /\ NULL \notin {a, b}
       /\ ByContent(a) /\ ByContent(b)
       /\ Content(a) = Content(b)

\* Mutant of HashAny: the box is hashed, not what it holds.
HashAnyAddress(k) == Hash(k)

HashAny(k) == IF ByContent(k) THEN Hash(Content(k)) ELSE Hash(k)

Index(k) == HashAny(k) % Capacity

-----------------------------------------------------------------------------
(* Walks along links: at most as many steps as there are entries *)

Chain(first, link) ==
    LET walk[n \in 0 .. Cardinality(Nodes)] ==
            [p \in Links |-> IF p = NULL \/ n = 0 THEN <<>>
                             ELSE <<p>> \o walk[n - 1][link[p]]]
    IN walk[Cardinality(Nodes)][first]

Order == Chain(head, orderNext)
Bucket(i) == Chain(buckets[i], next)

\* The entry of a chain that has the key, or NULL.
Find(chain, k) ==
    LET i == SelectInSeq(chain, LAMBDA n : CmpAny(key[n], k))
    IN IF i = 0 THEN NULL ELSE chain[i]

Before(chain, n) ==
    LET i == SelectInSeq(chain, LAMBDA m : m = n)
    IN IF i = 1 THEN NULL ELSE chain[i - 1]

\* What a freed entry holds is nobody's business: it is set to NULL here.
Without(f, gone) == [n \in Nodes |-> IF Contains(gone, n) THEN NULL ELSE f[n]]

\* How many entries of U have the box as their key, or as their value.
Count(U, f, b) == Cardinality({n \in U : f[n] = b})

Retain(r, b) == [r EXCEPT ![b] = @ + 1]
Release(r, b) == [r EXCEPT ![b] = IF @ = 0 THEN 0 ELSE @ - 1]

-----------------------------------------------------------------------------
(* moksha_rt_map_new *)

NoLoop == [on |-> FALSE, i |-> 0, seen |-> <<>>, torn |-> FALSE]

Init ==
    /\ key = [n \in Nodes |-> NULL]
    /\ val = [n \in Nodes |-> NULL]
    /\ next = [n \in Nodes |-> NULL]
    /\ orderNext = [n \in Nodes |-> NULL]
    /\ buckets = [i \in Indices |-> NULL]
    /\ head = NULL /\ tail = NULL
    /\ size = 0
    /\ used = {}
    /\ refs = [b \in Boxes \cup Values |-> 0]
    /\ freed = FALSE
    /\ loop = NoLoop
    /\ out = NULL
    /\ pruned = FALSE

-----------------------------------------------------------------------------
(* moksha_rt_map_insert *)

\* Mutant of Overwrite: the new value is not retained.
OverwriteUnretained(n, v) ==
    /\ val' = [val EXCEPT ![n] = v]
    /\ refs' = Release(refs, val[n])
    /\ UNCHANGED <<key, next, orderNext, buckets, head, tail, size, used>>

\* The key is there: its entry, and its place in the order, stay.
Overwrite(n, v) ==
    /\ val' = [val EXCEPT ![n] = v]
    /\ refs' = Retain(Release(refs, val[n]), v)
    /\ UNCHANGED <<key, next, orderNext, buckets, head, tail, size, used>>

\* Mutant of AddEntry: a new entry comes first in the order.
AddEntryFirst(n, k, v) ==
    /\ key' = [key EXCEPT ![n] = k]
    /\ val' = [val EXCEPT ![n] = v]
    /\ next' = [next EXCEPT ![n] = buckets[Index(k)]]
    /\ orderNext' = [orderNext EXCEPT ![n] = head]
    /\ buckets' = [buckets EXCEPT ![Index(k)] = n]
    /\ head' = n
    /\ tail' = IF tail = NULL THEN n ELSE tail
    /\ size' = size + 1
    /\ used' = used \cup {n}
    /\ refs' = Retain(Retain(refs, k), v)

AddEntry(n, k, v) ==
    /\ key' = [key EXCEPT ![n] = k]
    /\ val' = [val EXCEPT ![n] = v]
    /\ next' = [next EXCEPT ![n] = buckets[Index(k)]]
    /\ orderNext' = [m \in Nodes |-> IF m = n THEN NULL
                                     ELSE IF m = tail THEN n ELSE orderNext[m]]
    /\ buckets' = [buckets EXCEPT ![Index(k)] = n]
    /\ head' = IF tail = NULL THEN n ELSE head
    /\ tail' = n
    /\ size' = size + 1
    /\ used' = used \cup {n}
    /\ refs' = Retain(Retain(refs, k), v)

MapInsert(k, v) ==
    /\ ~freed
    /\ refs[v] < MaxRefs /\ (k # NULL => refs[k] < MaxRefs)
    /\ out' = NULL
    /\ IF k = NULL THEN UNCHANGED <<entries, refs>>
       ELSE LET n == Find(Bucket(Index(k)), k)
            IN IF n # NULL THEN Overwrite(n, v)
               ELSE \E m \in Nodes \ used : AddEntry(m, k, v)
    /\ UNCHANGED <<freed, loop, pruned>>

-----------------------------------------------------------------------------
(* Lookups: moksha_rt_map_get, _has, _len; _get_key_at and _get_val_at *)

ValueOf(k) ==
    IF k = NULL THEN NULL
    ELSE LET n == Find(Bucket(Index(k)), k) IN IF n = NULL THEN NULL ELSE val[n]

MapGet(k) ==
    /\ ~freed
    /\ out' = ValueOf(k)
    /\ UNCHANGED <<entries, refs, freed, loop, pruned>>

MapLength ==
    /\ ~freed
    /\ out' = size
    /\ UNCHANGED <<entries, refs, freed, loop, pruned>>

GetEntryAt(i) == IF i < Len(Order) THEN Order[i + 1] ELSE NULL

-----------------------------------------------------------------------------
(* moksha_rt_map_remove, _clear and _free_internal *)

UnlinkOrder(n) ==
    LET prev == Before(Order, n)
    IN /\ orderNext' = [m \in Nodes |-> IF m = n THEN NULL
                                        ELSE IF m = prev THEN orderNext[n] ELSE orderNext[m]]
       /\ head' = IF prev = NULL THEN orderNext[n] ELSE head
       /\ tail' = IF tail = n THEN prev ELSE tail

\* Every bucket is searched for the entry.
UnlinkBuckets(n) ==
    LET home == {i \in Indices : Contains(Bucket(i), n)}
        prevs == {Before(Bucket(i), n) : i \in home}
    IN /\ buckets' = [i \in Indices |-> IF buckets[i] = n THEN next[n] ELSE buckets[i]]
       /\ next' = [m \in Nodes |-> IF m = n THEN NULL
                                   ELSE IF m \in prevs THEN next[n] ELSE next[m]]

\* Neither the key nor the value is released.
MapRemove(k) ==
    /\ ~freed
    /\ out' = NULL
    /\ LET n == Find(Order, k)
       IN IF n = NULL THEN UNCHANGED <<entries, pruned, loop>>
          ELSE /\ UnlinkOrder(n)
               /\ UnlinkBuckets(n)
               /\ size' = size - 1
               /\ used' = used \ {n}
               /\ pruned' = TRUE
               /\ loop' = [loop EXCEPT !.torn = loop.on]
               /\ key' = Without(key, <<n>>) /\ val' = Without(val, <<n>>)
    /\ UNCHANGED <<refs, freed>>

MapClear ==
    /\ ~freed
    /\ out' = NULL
    /\ used' = used \ ToSet(Order)
    /\ buckets' = [i \in Indices |-> NULL]
    /\ head' = NULL /\ tail' = NULL
    /\ size' = 0
    /\ pruned' = (pruned \/ head # NULL)
    /\ loop' = [loop EXCEPT !.torn = loop.on]
    /\ key' = Without(key, Order) /\ val' = Without(val, Order)
    /\ next' = Without(next, Order) /\ orderNext' = Without(orderNext, Order)
    /\ UNCHANGED <<refs, freed>>

\* The last reference to the table goes: entries are found through the buckets.
MapFreeInternal ==
    LET gone == UNION {ToSet(Bucket(i)) : i \in Indices}
        Given(b) == Count(gone, key, b) + Count(gone, val, b)
    IN /\ ~freed /\ ~loop.on
       /\ freed' = TRUE
       /\ refs' = [b \in DOMAIN refs |-> IF refs[b] < Given(b) THEN 0 ELSE refs[b] - Given(b)]
       /\ used' = used \ gone
       /\ out' = NULL
       /\ UNCHANGED <<key, val, next, orderNext, buckets, head, tail, size, loop, pruned>>

-----------------------------------------------------------------------------
(* for (k, v in table): the loop keeps an index and nothing else *)

ForInStart ==
    /\ ~freed /\ ~loop.on
    /\ loop' = [NoLoop EXCEPT !.on = TRUE]
    /\ UNCHANGED <<entries, refs, freed, out, pruned>>

ForInBody ==
    /\ loop.on /\ loop.i < size
    /\ LET n == GetEntryAt(loop.i)
           k == IF n = NULL THEN NULL ELSE key[n]
       IN /\ loop' = [loop EXCEPT !.i = @ + 1, !.seen = Append(@, k)]
          /\ out' = k
    /\ UNCHANGED <<entries, refs, freed, pruned>>

ForInEnd ==
    /\ loop.on /\ loop.i >= size
    /\ loop' = NoLoop
    /\ UNCHANGED <<entries, refs, freed, out, pruned>>

Done == freed /\ UNCHANGED vars

Next ==
    \/ \E k \in Keys : \/ \E v \in Values : MapInsert(k, v)
                       \/ MapGet(k)
                       \/ MapRemove(k)
    \/ MapLength
    \/ MapClear
    \/ MapFreeInternal
    \/ ForInStart \/ ForInBody \/ ForInEnd
    \/ Done

Spec == Init /\ [][Next]_vars

-----------------------------------------------------------------------------
(* What the table promises *)

Held(b) == Count(used, key, b) + Count(used, val, b)

\* The table has a reference for every entry that names a box, and, as long
\* as nothing was removed, none besides; freeing the table gives them back.
RefsCoverEntries ==
    \A b \in Boxes \cup Values :
        /\ Held(b) <= refs[b]
        /\ ~pruned => Held(b) = refs[b]

\* A loop whose body inserts and overwrites, but removes nothing, sees the
\* keys in their order, none twice and none left out, the new ones too; no
\* loop is ever handed a null entry.
LoopSeesOrder ==
    loop.on =>
        /\ ~Contains(loop.seen, NULL)
        /\ ~loop.torn => loop.seen = [i \in 1 .. loop.i |-> key[Order[i]]]

\* The entries in their order, as the abstract map has them.
Listing == IF freed THEN <<>>
           ELSE [i \in 1 .. Len(Order) |-> [key |-> key[Order[i]], val |-> val[Order[i]]]]

Abs == INSTANCE TableAbs WITH map <- Listing, Same <- CmpAny

\* The table is a map that remembers the order in which keys came, whatever
\* the hash function and however often addresses of entries are used again.
ImplementsOrderedMap == Abs!Spec
=============================================================================
