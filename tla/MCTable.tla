------------------------------ MODULE MCTable ------------------------------
(* Two boxes of one string, a second string whose hash falls into the same *)
(* bucket, and a box that is compared by its address.                      *)
EXTENDS Table, TLC

CONSTANTS a1, a2, b, c, v, w, n1, n2, n3

MCContent(k) == CASE k \in {a1, a2} -> "a" [] k = b -> "b" [] OTHER -> "c"
MCByContent(k) == k # c
MCHash(x) == CASE x = "a" -> 1 [] x = "b" -> 3 [] x = a1 -> 5 [] OTHER -> 2
MCBoxes == {a1, a2, b, c}
MCValues == {v, w}
MCNodes == {n1, n2, n3}
Interchangeable == Permutations(MCNodes) \cup Permutations(MCValues)
=============================================================================
