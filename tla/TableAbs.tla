----------------------------- MODULE TableAbs -----------------------------
(***************************************************************************)
(* What a table promises: a map from keys to values that keeps the order   *)
(* in which its keys came.  A key that is written again keeps its place    *)
(* and the box it came in.                                                 *)
(***************************************************************************)
EXTENDS Naturals, Sequences, SequencesExt

CONSTANTS Keys, Values, NULL, Same(_, _)

VARIABLES map,       \* pairs of a key and its value, the oldest key first
          out        \* the answer of the last operation

At(k) == SelectInSeq(map, LAMBDA e : Same(e.key, k))

Init == map = <<>> /\ out = NULL

Put(k, v) ==
    /\ out' = NULL
    /\ map' = IF k = NULL THEN map
              ELSE IF At(k) # 0 THEN [map EXCEPT ![At(k)].val = v]
              ELSE Append(map, [key |-> k, val |-> v])

Lookup(k) ==
    /\ out' = IF k # NULL /\ At(k) # 0 THEN map[At(k)].val ELSE NULL
    /\ UNCHANGED map

Count == out' = Len(map) /\ UNCHANGED map

KeyAt(i) == out' = map[i].key /\ UNCHANGED map

Delete(k) ==
    /\ out' = NULL
    /\ map' = IF At(k) = 0 THEN map ELSE RemoveAt(map, At(k))

Empty == out' = NULL /\ map' = <<>>

Next ==
    \/ \E k \in Keys : Lookup(k) \/ Delete(k) \/ \E v \in Values : Put(k, v)
    \/ \E i \in DOMAIN map : KeyAt(i)
    \/ Count
    \/ Empty

Spec == Init /\ [][Next]_<<map, out>>
=============================================================================
