------------------------------- MODULE MCArc -------------------------------
(* Arc with three threads, three handles and two weak slots.               *)
EXTENDS Arc, TLC

CONSTANTS t1, t2, t3, h1, h2, h3, s1, s2

ThreeThreads == {t1, t2, t3}
ThreeHandles == {h1, h2, h3}
TwoSlots     == {s1, s2}

\* Every thread but the creator, every handle but the first and every slot
\* is like the others.
Symmetric == Permutations({t2, t3}) \union Permutations({h2, h3}) \union Permutations(TwoSlots)
=============================================================================
