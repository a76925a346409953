---------------------------- MODULE TableProofs ----------------------------
(***************************************************************************)
(* Proofs about Table.  Chain follows links with a recursive function;     *)
(* ChainIsPath says that where the links form a path to NULL the walk is   *)
(* that path, and from there on the proofs are about paths: what adding an *)
(* entry at either end and taking one out do to them.  The invariant IInv  *)
(* says that both lists are paths through the same entries.                *)
(***************************************************************************)
EXTENDS Table, FiniteSetTheorems, SequenceTheorems, WellFoundedInduction, TLAPS

-----------------------------------------------------------------------------
(* Keys *)

LEMMA SameIndex ==
  ASSUME NEW a \in Boxes, NEW b \in Boxes, CmpAny(a, b)
  PROVE  Index(a) = Index(b)
  BY TableAssumption DEF CmpAny, Index, HashAny

LEMMA IndexType ==
  ASSUME NEW k \in Boxes
  PROVE  Index(k) \in Indices
<1>1. HashAny(k) \in Nat
  BY TableAssumption DEF HashAny
<1>. QED
  BY <1>1, TableAssumption DEF Index, Indices

LEMMA SameSymmetric ==
  ASSUME NEW a, NEW b
  PROVE  CmpAny(a, b) <=> CmpAny(b, a)
  BY DEF CmpAny

LEMMA SameTransitive ==
  ASSUME NEW a, NEW b, NEW c, CmpAny(a, b), CmpAny(b, c)
  PROVE  CmpAny(a, c)
  BY DEF CmpAny

LEMMA Least ==
  ASSUME NEW T \in SUBSET Nat, T # {}
  PROVE  \E m \in T : \A k \in T : m <= k
<1>. DEFINE R == OpToRel(<, Nat)
<1>1. IsWellFoundedOn(R, Nat)
  BY NatLessThanWellFounded, Zenon
<1>2. PICK x \in T : \A y \in T : ~(<<y, x>> \in R)
  BY <1>1, WFMin, Zenon
<1>3. \A y \in T : ~(y < x)
  BY <1>2 DEF OpToRel
<1>. QED
  BY <1>3

LEMMA FindSpec ==
  ASSUME NEW chain \in Seq(Nodes), NEW k
  PROVE  \/ /\ Find(chain, k) = NULL
            /\ \A i \in 1 .. Len(chain) : ~CmpAny(key[chain[i]], k)
         \/ \E i \in 1 .. Len(chain) : /\ Find(chain, k) = chain[i]
                                       /\ CmpAny(key[chain[i]], k)
<1>. DEFINE I == {i \in 1 .. Len(chain) : CmpAny(key[chain[i]], k)}
<1>1. CASE I = {}
  BY <1>1 DEF Find, SelectInSeq
<1>2. CASE I # {}
  <2>0. I \in SUBSET Nat
    OBVIOUS
  <2>1. PICK m \in I : \A j \in I : m <= j
    BY <1>2, <2>0, Least
  <2>2. Min(I) \in I
    BY <2>1 DEF Min
  <2>3. Find(chain, k) = chain[Min(I)]
    BY <1>2, <2>2 DEF Find, SelectInSeq
  <2>. QED
    BY <2>2, <2>3
<1>. QED
  BY <1>1, <1>2
-----------------------------------------------------------------------------
(* Walks.  The recursive function inside Chain exists, by induction over   *)
(* its number of steps, and follows every path to its end.                 *)

\* The body of that function, for walks of at most m steps.
Walks(link, m, g) ==
    [n \in 0 .. m |-> [p \in Links |-> IF p = NULL \/ n = 0 THEN <<>>
                                     ELSE <<p>> \o g[n - 1][link[p]]]]

LEMMA WalksExist ==
  ASSUME NEW link \in [Nodes -> Links], NEW m \in Nat
  PROVE  \E g : g = Walks(link, m, g)
<1>. DEFINE Bad == {k \in Nat : ~ \E g : g = Walks(link, k, g)}
<1>1. SUFFICES ASSUME Bad # {}
               PROVE  FALSE
  OBVIOUS
<1>2. PICK k \in Bad : \A j \in Bad : k <= j
  BY <1>1, Least
<1>3. CASE k = 0
  <2>. DEFINE g == [n \in 0 .. 0 |-> [p \in Links |-> <<>>]]
  <2>1. g = Walks(link, 0, g)
    BY DEF Walks
  <2>. QED
    BY <1>2, <1>3, <2>1
<1>4. CASE k # 0
  <2>1. k - 1 \in Nat /\ k - 1 \notin Bad
    BY <1>2, <1>4
  <2>2. PICK g : g = Walks(link, k - 1, g)
    BY <2>1
  <2>. DEFINE Row(n) == [p \in Links |-> IF p = NULL \/ n = 0 THEN <<>>
                                         ELSE <<p>> \o g[n - 1][link[p]]]
              h == [n \in 0 .. k |-> Row(n)]
  <2>3. \A n \in 0 .. k - 1 : g[n] = Row(n)
    BY <2>2 DEF Walks
  <2>4. \A n \in 0 .. k - 1 : h[n] = g[n]
    <3>1. \A n \in 0 .. k - 1 : n \in 0 .. k
      BY <1>2
    <3>2. \A n \in 0 .. k : h[n] = Row(n)
      OBVIOUS
    <3>. HIDE DEF h, Row
    <3>. QED
      BY <2>3, <3>1, <3>2, Zenon
  <2>5. ASSUME NEW n \in 0 .. k, NEW p \in Links
        PROVE  h[n][p] = Walks(link, k, h)[n][p]
    <3>1. CASE p = NULL \/ n = 0
      BY <3>1 DEF Walks
    <3>2. CASE ~(p = NULL \/ n = 0)
      <4>1. n - 1 \in 0 .. k - 1
        BY <3>2
      <4>2. h[n - 1] = g[n - 1]
        BY <2>4, <4>1
      <4>. QED
        BY <3>2, <4>2 DEF Walks
    <3>. QED
      BY <3>1, <3>2
  <2>6. \A n \in 0 .. k : Walks(link, k, h)[n] = [p \in Links |-> Walks(link, k, h)[n][p]]
    BY DEF Walks
  <2>7. \A n \in 0 .. k : h[n] = Walks(link, k, h)[n]
    BY <2>5, <2>6
  <2>8. h = Walks(link, k, h)
    BY <2>7 DEF Walks
  <2>. QED
    BY <1>2, <2>8
<1>. QED
  BY <1>3, <1>4

\* s is the path from first along the links to the end, without a repetition.
Path(first, link, s) ==
    /\ s \in Seq(Nodes)
    /\ first = IF s = <<>> THEN NULL ELSE s[1]
    /\ \A i \in 1 .. Len(s) : link[s[i]] = IF i = Len(s) THEN NULL ELSE s[i + 1]
    /\ \A i, j \in 1 .. Len(s) : s[i] = s[j] => i = j

\* A path visits every entry at most once.
LEMMA PathLength ==
  ASSUME NEW s \in Seq(Nodes), \A i, j \in 1 .. Len(s) : s[i] = s[j] => i = j
  PROVE  Len(s) <= Cardinality(Nodes)
<1>1. Len(s) \in Nat /\ Cardinality(1 .. Len(s)) = Len(s)
  <2>1. Len(s) \in Nat
    OBVIOUS
  <2>2. Cardinality(1 .. Len(s)) = IF 1 > Len(s) THEN 0 ELSE Len(s) - 1 + 1
    BY <2>1, FS_Interval, SMT
  <2>. QED
    BY <2>1, <2>2
<1>2. s \in [1 .. Len(s) -> Nodes]
  OBVIOUS
<1>3. IsInjective(s)
  BY <1>2 DEF IsInjective
<1>4. s \in Injection(1 .. Len(s), Nodes)
  BY <1>2, <1>3 DEF Injection
<1>. QED
  BY <1>1, <1>4, TableAssumption, FS_Injection

\* A walk follows a path to its end.
LEMMA ChainIsPath ==
  ASSUME NEW link \in [Nodes -> Links], NEW first, NEW s, Path(first, link, s)
  PROVE  Chain(first, link) = s
<1>. DEFINE N == Cardinality(Nodes)
            walk == CHOOSE g : g = Walks(link, N, g)
<1>1. N \in Nat
  BY TableAssumption, FS_CardinalityType
<1>2. Chain(first, link) = walk[N][first]
  BY DEF Chain, Walks
<1>3. walk = Walks(link, N, walk)
  <2>1. \E g : g = Walks(link, N, g)
    BY <1>1, WalksExist
  <2>. QED
    BY <2>1, Zenon
<1>. HIDE DEF walk
<1>. DEFINE From(i) == SubSeq(s, i, Len(s))
            At(i) == IF i > Len(s) THEN NULL ELSE s[i]
            \* Walks of n steps from position i that do not see the rest of s
            Bad == {n \in Nat : /\ n <= N
                                /\ \E i \in 1 .. Len(s) + 1 :
                                       /\ Len(s) + 1 - i <= n
                                       /\ walk[n][At(i)] # From(i)}
<1>4. /\ s \in Seq(Nodes) /\ Len(s) \in Nat
      /\ first = At(1)
      /\ \A i \in 1 .. Len(s) : s[i] \in Nodes /\ link[s[i]] = At(i + 1)
      /\ NULL \notin Nodes
  BY TableAssumption DEF Path
<1>5. Len(s) <= N
  BY PathLength DEF Path
<1>6. Bad = {}
  <2>1. SUFFICES ASSUME Bad # {}
                 PROVE  FALSE
    OBVIOUS
  <2>2. Bad \in SUBSET Nat
    OBVIOUS
  <2>3. PICK n \in Bad : \A k \in Bad : n <= k
    BY <2>1, <2>2, Least
  <2>4. PICK i \in 1 .. Len(s) + 1 : Len(s) + 1 - i <= n /\ walk[n][At(i)] # From(i)
    BY <2>3
  <2>5. n \in 0 .. N /\ At(i) \in Links
    BY <1>1, <1>4, <2>3 DEF Links
  <2>6. walk[n][At(i)] = IF At(i) = NULL \/ n = 0 THEN <<>>
                         ELSE <<At(i)>> \o walk[n - 1][link[At(i)]]
    <3>1. walk[n] = Walks(link, N, walk)[n]
      BY <1>3, Zenon
    <3>2. Walks(link, N, walk)[n] =
            [p \in Links |-> IF p = NULL \/ n = 0 THEN <<>>
                             ELSE <<p>> \o walk[n - 1][link[p]]]
      BY <2>5 DEF Walks
    <3>. HIDE DEF At
    <3>. QED
      BY <2>5, <3>1, <3>2
  <2>7. CASE i = Len(s) + 1
    <3>1. At(i) = NULL /\ From(i) = <<>>
      BY <1>4, <2>7
    <3>. QED
      BY <2>4, <2>6, <3>1
  <2>8. CASE i # Len(s) + 1
    <3>1. /\ i \in 1 .. Len(s) /\ i + 1 \in 1 .. Len(s) + 1 /\ n # 0
          /\ n - 1 \in Nat /\ n - 1 <= N /\ Len(s) + 1 - (i + 1) <= n - 1
      BY <1>1, <1>4, <2>4, <2>5, <2>8
    <3>2. n - 1 \notin Bad
      BY <2>3, <3>1
    <3>3. walk[n - 1][At(i + 1)] = From(i + 1)
      BY <3>1, <3>2
    <3>4. At(i) = s[i] /\ At(i) # NULL /\ link[At(i)] = At(i + 1)
      BY <1>4, <3>1
    <3>5. walk[n][At(i)] = <<s[i]>> \o From(i + 1)
      BY <2>6, <3>1, <3>3, <3>4
    <3>6. <<s[i]>> \o From(i + 1) = From(i)
      <4>1. i \in 1 .. Len(s) /\ Len(s) \in i .. Len(s)
        BY <1>4, <3>1
      <4>. QED
        BY <1>4, <4>1, SubSeqRecursiveFirst
    <3>. QED
      BY <2>4, <3>5, <3>6
  <2>. QED
    BY <2>7, <2>8
<1>7. walk[N][At(1)] = From(1)
  <2>1. N \notin Bad
    BY <1>6
  <2>2. 1 \in 1 .. Len(s) + 1 /\ Len(s) + 1 - 1 <= N
    BY <1>1, <1>4, <1>5
  <2>. QED
    BY <1>1, <2>1, <2>2
<1>8. From(1) = s
  BY <1>4
<1>. QED
  BY <1>2, <1>4, <1>7, <1>8
-----------------------------------------------------------------------------
(* What the operations do to a path *)

LEMMA PathElements ==
  ASSUME NEW link, NEW first, NEW s, Path(first, link, s)
  PROVE  /\ s \in Seq(Nodes) /\ Len(s) \in Nat
         /\ ToSet(s) = {s[i] : i \in 1 .. Len(s)}
         /\ ToSet(s) \subseteq Nodes
         /\ \A i \in 1 .. Len(s) : s[i] \in Nodes /\ s[i] \in ToSet(s)
         /\ first \in Links
         /\ s = <<>> <=> Len(s) = 0
  BY DEF Path, ToSet, Links

LEMMA EmptyPath ==
  ASSUME NEW link
  PROVE  /\ Path(NULL, link, <<>>)
         /\ ToSet(<<>>) = {}
  BY DEF Path, ToSet

\* Links elsewhere do not matter.
LEMMA PathKept ==
  ASSUME NEW link, NEW to, NEW first, NEW s, Path(first, link, s),
         \A n \in ToSet(s) : to[n] = link[n]
  PROVE  Path(first, to, s)
<1>1. \A i \in 1 .. Len(s) : s[i] \in ToSet(s)
  BY PathElements
<1>. QED
  BY <1>1 DEF Path

\* A new entry at the end: the order.
LEMMA PathAppend ==
  ASSUME NEW link, NEW to, NEW first, NEW last, NEW s, Path(first, link, s),
         last = (IF s = <<>> THEN NULL ELSE s[Len(s)]),
         NEW m \in Nodes, m \notin ToSet(s),
         \A n \in Nodes : to[n] = IF n = m THEN NULL ELSE IF n = last THEN m ELSE link[n]
  PROVE  /\ Path(IF last = NULL THEN m ELSE first, to, Append(s, m))
         /\ ToSet(Append(s, m)) = ToSet(s) \cup {m}
<1>. DEFINE t == Append(s, m)
<1>1. /\ s \in Seq(Nodes) /\ Len(s) \in Nat /\ t \in Seq(Nodes) /\ Len(t) = Len(s) + 1
      /\ \A i \in 1 .. Len(s) : t[i] = s[i] /\ s[i] \in Nodes /\ s[i] # m
      /\ t[Len(s) + 1] = m
  BY PathElements
<1>2. last = NULL <=> Len(s) = 0
  BY <1>1, TableAssumption, PathElements
<1>. HIDE DEF t
<1>3. (IF last = NULL THEN m ELSE first) = t[1] /\ t # <<>>
  <2>1. t # <<>>
    BY <1>1
  <2>2. CASE Len(s) = 0
    BY <1>1, <1>2, <2>2
  <2>3. CASE Len(s) # 0
    BY <1>1, <1>2, <2>3 DEF Path
  <2>. QED
    BY <2>1, <2>2, <2>3
<1>4. ASSUME NEW i \in 1 .. Len(t)
      PROVE  to[t[i]] = IF i = Len(t) THEN NULL ELSE t[i + 1]
  <2>1. CASE i = Len(s) + 1
    BY <1>1, <2>1
  <2>2. CASE i = Len(s)
    BY <1>1, <1>2, <2>2
  <2>3. CASE i \in 1 .. Len(s) - 1
    <3>1. t[i] = s[i] /\ t[i + 1] = s[i + 1] /\ s[i] # m /\ s[i] \in Nodes
      BY <1>1, <2>3
    <3>2. s[i] # last
      BY <1>1, <1>2, <2>3 DEF Path
    <3>3. link[s[i]] = s[i + 1]
      BY <1>1, <2>3 DEF Path
    <3>. QED
      BY <1>1, <2>3, <3>1, <3>2, <3>3
  <2>. QED
    BY <1>1, <2>1, <2>2, <2>3
<1>5. \A i, j \in 1 .. Len(t) : t[i] = t[j] => i = j
  <2>1. \A i, j \in 1 .. Len(s) : s[i] = s[j] => i = j
    BY DEF Path
  <2>2. \A i \in 1 .. Len(t) : i \in 1 .. Len(s) \/ i = Len(s) + 1
    BY <1>1
  <2>. QED
    BY <1>1, <2>1, <2>2
<1>6. ToSet(t) = ToSet(s) \cup {m}
  <2>1. ToSet(t) = {t[i] : i \in 1 .. Len(s) + 1}
    BY <1>1 DEF ToSet
  <2>2. ToSet(s) = {s[i] : i \in 1 .. Len(s)}
    BY PathElements
  <2>. QED
    BY <1>1, <2>1, <2>2
<1>7. Path(IF last = NULL THEN m ELSE first, to, t)
  BY <1>1, <1>3, <1>4, <1>5 DEF Path
<1>. QED
  BY <1>6, <1>7 DEF t

\* A new entry at the front: a bucket.
LEMMA PathPush ==
  ASSUME NEW link, NEW to, NEW first, NEW s, Path(first, link, s),
         NEW m \in Nodes, m \notin ToSet(s),
         \A n \in Nodes : to[n] = IF n = m THEN first ELSE link[n]
  PROVE  /\ Path(m, to, <<m>> \o s)
         /\ ToSet(<<m>> \o s) = ToSet(s) \cup {m}
<1>. DEFINE t == <<m>> \o s
<1>1. /\ s \in Seq(Nodes) /\ Len(s) \in Nat /\ t \in Seq(Nodes) /\ Len(t) = Len(s) + 1
      /\ \A i \in 1 .. Len(s) : t[i + 1] = s[i] /\ s[i] \in Nodes /\ s[i] # m
      /\ t[1] = m
  BY PathElements
<1>. HIDE DEF t
<1>2. \A i \in 1 .. Len(t) : i = 1 \/ (i - 1 \in 1 .. Len(s) /\ t[i] = s[i - 1])
  BY <1>1
<1>4. ASSUME NEW i \in 1 .. Len(t)
      PROVE  to[t[i]] = IF i = Len(t) THEN NULL ELSE t[i + 1]
  <2>1. CASE i = 1
    <3>1. to[t[i]] = first
      BY <1>1, <2>1
    <3>. QED
      BY <1>1, <2>1, <3>1 DEF Path
  <2>2. CASE i # 1
    <3>1. i - 1 \in 1 .. Len(s) /\ t[i] = s[i - 1] /\ s[i - 1] \in Nodes /\ s[i - 1] # m
      BY <1>1, <1>2, <2>2
    <3>2. to[t[i]] = link[s[i - 1]]
      BY <3>1
    <3>3. link[s[i - 1]] = IF i - 1 = Len(s) THEN NULL ELSE s[i]
      BY <3>1 DEF Path
    <3>4. CASE i = Len(t)
      BY <1>1, <3>2, <3>3, <3>4
    <3>5. CASE i # Len(t)
      <4>1. i \in 1 .. Len(s)
        BY <1>1, <3>5
      <4>. QED
        BY <1>1, <3>2, <3>3, <3>5, <4>1
    <3>. QED
      BY <3>4, <3>5
  <2>. QED
    BY <2>1, <2>2
<1>5. \A i, j \in 1 .. Len(t) : t[i] = t[j] => i = j
  <2>1. \A i, j \in 1 .. Len(s) : s[i] = s[j] => i = j
    BY DEF Path
  <2>2. ASSUME NEW i \in 1 .. Len(t), NEW j \in 1 .. Len(t), t[i] = t[j]
        PROVE  i = j
    <3>0. \A k \in 1 .. Len(t) : k # 1 => t[k] # m
      BY <1>1, <1>2, SMTT(30)
    <3>1. CASE i = 1 \/ j = 1
      BY <1>1, <2>2, <3>0, <3>1
    <3>2. CASE i # 1 /\ j # 1
      <4>1. i - 1 \in 1 .. Len(s) /\ j - 1 \in 1 .. Len(s) /\ s[i - 1] = s[j - 1]
        BY <1>2, <2>2, <3>2
      <4>2. i - 1 = j - 1
        BY <2>1, <4>1
      <4>. QED
        BY <4>2
    <3>. QED
      BY <3>1, <3>2
  <2>. QED
    BY <2>2
<1>6. ToSet(t) = ToSet(s) \cup {m}
  <2>1. ToSet(t) = {t[i] : i \in 1 .. Len(s) + 1}
    BY <1>1, SMTT(30) DEF ToSet
  <2>2. ToSet(s) = {s[i] : i \in 1 .. Len(s)}
    BY PathElements
  <2>3. \A i \in 1 .. Len(s) : i + 1 \in 1 .. Len(s) + 1
    BY <1>1
  <2>4. \A x \in ToSet(s) : x \in ToSet(t)
    BY <1>1, <2>1, <2>2, <2>3
  <2>5. \A x \in ToSet(t) : x \in ToSet(s) \/ x = m
    BY <1>1, <1>2, <2>1, <2>2
  <2>6. m \in ToSet(t)
    BY <1>1, <2>1
  <2>. QED
    BY <2>4, <2>5, <2>6
<1>7. Path(m, to, t)
  <2>1. t # <<>>
    BY <1>1
  <2>. QED
    BY <1>1, <1>4, <1>5, <2>1 DEF Path
<1>. QED
  BY <1>6, <1>7 DEF t
\* An entry is taken out.
LEMMA RemoveAtSpec ==
  ASSUME NEW S, NEW s \in Seq(S), NEW p \in 1 .. Len(s)
  PROVE  /\ RemoveAt(s, p) \in Seq(S)
         /\ Len(RemoveAt(s, p)) = Len(s) - 1
         /\ \A i \in 1 .. Len(s) - 1 : RemoveAt(s, p)[i] = IF i < p THEN s[i] ELSE s[i + 1]
<1>. DEFINE a == SubSeq(s, 1, p - 1)
            b == SubSeq(s, p + 1, Len(s))
<1>0. Len(s) \in Nat /\ \A i \in 1 .. Len(s) : s[i] \in S
  OBVIOUS
<1>1. /\ a \in Seq(S) /\ Len(a) = p - 1
      /\ \A i \in 1 .. p - 1 : a[i] = s[i]
  <2>1. \A i \in 1 .. p - 1 : s[i] \in S
    BY <1>0
  <2>2. /\ a \in Seq(S)
        /\ Len(a) = IF 1 <= p - 1 THEN p - 1 - 1 + 1 ELSE 0
        /\ \A i \in 1 .. p - 1 - 1 + 1 : a[i] = s[1 + i - 1]
    BY <1>0, <2>1, SubSeqProperties
  <2>. HIDE DEF a
  <2>. QED
    BY <1>0, <2>2
<1>2. /\ b \in Seq(S) /\ Len(b) = Len(s) - p
      /\ \A i \in 1 .. Len(s) - p : b[i] = s[p + i]
  <2>1. \A i \in p + 1 .. Len(s) : s[i] \in S
    BY <1>0
  <2>2. /\ b \in Seq(S)
        /\ Len(b) = IF p + 1 <= Len(s) THEN Len(s) - (p + 1) + 1 ELSE 0
        /\ \A i \in 1 .. Len(s) - (p + 1) + 1 : b[i] = s[p + 1 + i - 1]
    BY <1>0, <2>1, SubSeqProperties
  <2>. HIDE DEF b
  <2>. QED
    BY <1>0, <2>2
<1>3. RemoveAt(s, p) = a \o b
  BY DEF RemoveAt
<1>. HIDE DEF a, b
<1>4. /\ a \o b \in Seq(S)
      /\ Len(a \o b) = Len(a) + Len(b)
      /\ \A i \in 1 .. Len(a) + Len(b) : (a \o b)[i] = IF i <= Len(a) THEN a[i] ELSE b[i - Len(a)]
  BY <1>1, <1>2, ConcatProperties
<1>5. ASSUME NEW i \in 1 .. Len(s) - 1
      PROVE  (a \o b)[i] = IF i < p THEN s[i] ELSE s[i + 1]
  <2>1. CASE i < p
    BY <1>0, <1>1, <1>2, <1>4, <2>1
  <2>2. CASE ~(i < p)
    <3>1. i - (p - 1) \in 1 .. Len(s) - p /\ i \in 1 .. Len(a) + Len(b) /\ ~(i <= Len(a))
      BY <1>0, <1>1, <1>2, <2>2
    <3>2. b[i - (p - 1)] = s[p + (i - (p - 1))]
      BY <1>2, <3>1
    <3>3. p + (i - (p - 1)) = i + 1
      OBVIOUS
    <3>. QED
      BY <1>1, <1>4, <2>2, <3>1, <3>2, <3>3
  <2>. QED
    BY <2>1, <2>2
<1>. QED
  BY <1>0, <1>1, <1>2, <1>3, <1>4, <1>5

LEMMA PathRemove ==
  ASSUME NEW link, NEW to, NEW first, NEW s, Path(first, link, s),
         NEW p \in 1 .. Len(s), NEW prev, prev = (IF p = 1 THEN NULL ELSE s[p - 1]),
         \A n \in Nodes : n # s[p] => to[n] = IF n = prev THEN link[s[p]] ELSE link[n]
  PROVE  /\ Path(IF p = 1 THEN link[s[p]] ELSE first, to, RemoveAt(s, p))
         /\ ToSet(RemoveAt(s, p)) = ToSet(s) \ {s[p]}
<1>. DEFINE t == RemoveAt(s, p)
<1>1. /\ s \in Seq(Nodes) /\ Len(s) \in Nat /\ t \in Seq(Nodes) /\ Len(t) = Len(s) - 1
      /\ \A i \in 1 .. Len(t) : t[i] = IF i < p THEN s[i] ELSE s[i + 1]
      /\ \A i \in 1 .. Len(s) : s[i] \in Nodes
  BY PathElements, RemoveAtSpec
<1>. HIDE DEF t
<1>2. /\ first = s[1]
      /\ \A i \in 1 .. Len(s) : link[s[i]] = IF i = Len(s) THEN NULL ELSE s[i + 1]
      /\ \A i, j \in 1 .. Len(s) : s[i] = s[j] => i = j
  BY <1>1 DEF Path
<1>3. (IF p = 1 THEN link[s[p]] ELSE first) = IF t = <<>> THEN NULL ELSE t[1]
  <2>1. t = <<>> <=> Len(t) = 0
    BY <1>1
  <2>2. CASE Len(t) = 0
    <3>0. Len(s) = 1
      BY <1>1, <2>2
    <3>1. p = 1 /\ p = Len(s)
      BY <3>0
    <3>. QED
      BY <1>2, <2>1, <2>2, <3>1
  <2>3. CASE Len(t) # 0
    <3>1. 1 \in 1 .. Len(t) /\ 1 # Len(s)
      BY <1>1, <2>3
    <3>. QED
      BY <1>1, <1>2, <2>1, <2>3, <3>1
  <2>. QED
    BY <2>2, <2>3
<1>4. ASSUME NEW i \in 1 .. Len(t)
      PROVE  to[t[i]] = IF i = Len(t) THEN NULL ELSE t[i + 1]
  <2>0. /\ i \in Nat /\ i \in 1 .. Len(s) /\ i + 1 \in 1 .. Len(s)
        /\ i # Len(t) => i + 1 \in 1 .. Len(t) /\ i + 2 \in 1 .. Len(s) /\ i + 1 # Len(s)
        /\ i = Len(t) => i + 1 = Len(s)
        /\ i + 1 + 1 = i + 2
    BY <1>1
  <2>1. CASE i + 1 < p
    <3>1. t[i] = s[i] /\ i # p /\ i # p - 1 /\ i # Len(t) /\ i # Len(s) /\ p # 1 /\ p - 1 \in 1 .. Len(s)
      BY <1>1, <2>0, <2>1
    <3>2. s[i] # s[p] /\ s[i] # prev /\ s[i] \in Nodes
      BY <1>1, <1>2, <2>0, <3>1
    <3>3. to[t[i]] = s[i + 1]
      BY <1>2, <2>0, <3>1, <3>2
    <3>4. t[i + 1] = s[i + 1]
      BY <1>1, <2>0, <2>1, <3>1
    <3>. QED
      BY <3>1, <3>3, <3>4
  <2>2. CASE i + 1 = p
    <3>1. t[i] = s[i] /\ i # p /\ p # 1 /\ i = p - 1
      BY <1>1, <2>0, <2>2
    <3>2. s[i] # s[p] /\ s[i] = prev /\ s[i] \in Nodes
      BY <1>1, <1>2, <2>0, <3>1
    <3>3. to[t[i]] = IF i + 1 = Len(s) THEN NULL ELSE s[i + 2]
      BY <1>2, <2>0, <2>2, <3>1, <3>2
    <3>4. i # Len(t) => t[i + 1] = s[i + 2]
      BY <1>1, <2>0, <2>2
    <3>. QED
      BY <2>0, <3>3, <3>4
  <2>3. CASE i >= p
    <3>1. t[i] = s[i + 1] /\ i + 1 # p /\ p - 1 # i + 1
      BY <1>1, <2>0, <2>3
    <3>2. s[i + 1] # s[p] /\ s[i + 1] \in Nodes
      BY <1>1, <1>2, <2>0, <3>1
    <3>3. s[i + 1] # prev
      <4>1. CASE p = 1
        BY <3>2, <4>1, TableAssumption
      <4>2. CASE p # 1
        <5>1. p - 1 \in 1 .. Len(s)
          BY <1>1, <4>2
        <5>. QED
          BY <1>2, <2>0, <3>1, <4>2, <5>1
      <4>. QED
        BY <4>1, <4>2
    <3>4. to[t[i]] = IF i + 1 = Len(s) THEN NULL ELSE s[i + 2]
      BY <1>2, <2>0, <3>1, <3>2, <3>3
    <3>5. i # Len(t) => t[i + 1] = s[i + 2]
      BY <1>1, <2>0, <2>3
    <3>. QED
      BY <2>0, <3>4, <3>5
  <2>. QED
    BY <2>0, <2>1, <2>2, <2>3
<1>5. \A i, j \in 1 .. Len(t) : t[i] = t[j] => i = j
  <2>1. ASSUME NEW i \in 1 .. Len(t), NEW j \in 1 .. Len(t), t[i] = t[j]
        PROVE  i = j
    <3>1. /\ i \in 1 .. Len(s) /\ i + 1 \in 1 .. Len(s)
          /\ j \in 1 .. Len(s) /\ j + 1 \in 1 .. Len(s)
      BY <1>1
    <3>2. (IF i < p THEN i ELSE i + 1) = (IF j < p THEN j ELSE j + 1)
      BY <1>1, <1>2, <2>1, <3>1
    <3>. QED
      BY <1>1, <3>2
  <2>. QED
    BY <2>1
<1>6. ToSet(t) = ToSet(s) \ {s[p]}
  <2>1. ToSet(t) = {t[i] : i \in 1 .. Len(t)}
    BY <1>1 DEF ToSet
  <2>2. ToSet(s) = {s[i] : i \in 1 .. Len(s)}
    BY PathElements
  <2>3. ASSUME NEW i \in 1 .. Len(t)
        PROVE  t[i] \in ToSet(s) \ {s[p]}
    <3>1. i \in 1 .. Len(s) /\ i + 1 \in 1 .. Len(s)
      BY <1>1
    <3>2. (IF i < p THEN i ELSE i + 1) # p
      BY <1>1
    <3>. QED
      BY <1>1, <1>2, <2>2, <3>1, <3>2
  <2>4. ASSUME NEW i \in 1 .. Len(s), i # p
        PROVE  s[i] \in ToSet(t)
    <3>1. CASE i < p
      <4>1. i \in 1 .. Len(t) /\ t[i] = s[i]
        BY <1>1, <3>1
      <4>. QED
        BY <2>1, <4>1
    <3>2. CASE i > p
      <4>1. i - 1 \in 1 .. Len(t) /\ ~(i - 1 < p) /\ i - 1 + 1 = i
        BY <1>1, <3>2
      <4>2. t[i - 1] = s[i]
        BY <1>1, <4>1
      <4>. QED
        BY <2>1, <4>1, <4>2
    <3>. QED
      BY <1>1, <2>4, <3>1, <3>2
  <2>. QED
    BY <2>1, <2>2, <2>3, <2>4, SMTT(30)
<1>7. Path(IF p = 1 THEN link[s[p]] ELSE first, to, t)
  BY <1>1, <1>3, <1>4, <1>5 DEF Path
<1>. QED
  BY <1>6, <1>7 DEF t

\* The search for the entry before another one.
LEMMA BeforeSpec ==
  ASSUME NEW link, NEW first, NEW s, Path(first, link, s), NEW p \in 1 .. Len(s)
  PROVE  Before(s, s[p]) = IF p = 1 THEN NULL ELSE s[p - 1]
<1>. DEFINE I == {i \in 1 .. Len(s) : s[i] = s[p]}
<1>1. I = {p}
  BY DEF Path
<1>2. Min({p}) = p
  BY PathElements DEF Min
<1>. QED
  BY <1>1, <1>2 DEF Before, SelectInSeq
-----------------------------------------------------------------------------
(* The inductive invariant *)

DataOK ==
    /\ key \in [Nodes -> Keys] /\ val \in [Nodes -> Values \cup {NULL}]
    /\ next \in [Nodes -> Links] /\ orderNext \in [Nodes -> Links]
    /\ buckets \in [Indices -> Links] /\ head \in Links /\ tail \in Links
    /\ size \in Nat /\ used \in SUBSET Nodes
    /\ refs \in [Boxes \cup Values -> Nat]
    /\ freed \in BOOLEAN /\ pruned \in BOOLEAN

LoopOK == loop \in [on : BOOLEAN, i : Nat, seen : Seq(Boxes), torn : BOOLEAN]

TypeOK == DataOK /\ LoopOK

\* The list through all entries has an end, which tail names, and as many
\* entries as size says: the allocated ones.
OrderInv ==
    /\ Path(head, orderNext, Order)
    /\ tail = IF Order = <<>> THEN NULL ELSE Order[Len(Order)]
    /\ size = Len(Order)
    /\ used = IF freed THEN {} ELSE ToSet(Order)

\* A bucket holds the entries whose keys belong there, and no others.
BucketInv ==
    \A i \in Indices :
        /\ Path(buckets[i], next, Bucket(i))
        /\ ToSet(Bucket(i)) = {n \in ToSet(Order) : Index(key[n]) = i}

\* Entries are complete, and no two have equal keys.
EntryInv ==
    /\ \A n \in ToSet(Order) : key[n] \in Boxes /\ val[n] \in Values
    /\ \A m, n \in ToSet(Order) : CmpAny(key[m], key[n]) => m = n

\* A loop that nothing was removed from is inside the list.
LoopInv ==
    loop.on =>
        /\ ~freed
        /\ ~loop.torn => /\ loop.i <= size
                         /\ loop.seen = [i \in 1 .. loop.i |-> key[Order[i]]]

IInv == TypeOK /\ OrderInv /\ BucketInv /\ EntryInv /\ LoopInv /\ RefsCoverEntries

-----------------------------------------------------------------------------
(* References: how the number of entries that name a box changes *)

LEMMA CountType ==
  ASSUME NEW U \in SUBSET Nodes, NEW f, NEW b
  PROVE  /\ IsFiniteSet({n \in U : f[n] = b})
         /\ Count(U, f, b) \in Nat
<1>1. {n \in U : f[n] = b} \in SUBSET Nodes
  OBVIOUS
<1>2. IsFiniteSet({n \in U : f[n] = b})
  BY <1>1, TableAssumption, FS_Subset
<1>. QED
  BY <1>2, FS_CardinalityType DEF Count

LEMMA CountAdd ==
  ASSUME NEW U \in SUBSET Nodes, NEW f, NEW g, NEW m \in Nodes \ U,
         \A n \in U : g[n] = f[n], NEW b
  PROVE  Count(U \cup {m}, g, b) = Count(U, f, b) + IF g[m] = b THEN 1 ELSE 0
<1>. DEFINE F == {n \in U : f[n] = b}
            G == {n \in U \cup {m} : g[n] = b}
<1>0. IsFiniteSet(F) /\ Count(U, f, b) \in Nat
  BY CountType
<1>1. Count(U, f, b) = Cardinality(F) /\ Count(U \cup {m}, g, b) = Cardinality(G)
  BY DEF Count
<1>2. g[m] = b => G = F \cup {m}
  OBVIOUS
<1>3. g[m] # b => G = F
  OBVIOUS
<1>4. m \notin F
  OBVIOUS
<1>. HIDE DEF F, G
<1>5. Cardinality(F \cup {m}) = Cardinality(F) + 1
  BY <1>0, <1>4, FS_AddElement
<1>. QED
  BY <1>0, <1>1, <1>2, <1>3, <1>5

LEMMA CountChange ==
  ASSUME NEW U \in SUBSET Nodes, NEW f, NEW g, NEW m \in U,
         \A n \in U : n # m => g[n] = f[n], NEW b
  PROVE  /\ f[m] = b => Count(U, f, b) >= 1
         /\ Count(U, g, b) = (Count(U, f, b) - (IF f[m] = b THEN 1 ELSE 0))
                               + IF g[m] = b THEN 1 ELSE 0
<1>. DEFINE W == U \ {m}
<1>1. W \in SUBSET Nodes /\ m \in Nodes \ W /\ W \cup {m} = U /\ \A n \in W : g[n] = f[n]
  OBVIOUS
<1>. HIDE DEF W
<1>2. Count(W \cup {m}, f, b) = Count(W, f, b) + IF f[m] = b THEN 1 ELSE 0
  BY <1>1, CountAdd
<1>3. Count(W \cup {m}, g, b) = Count(W, f, b) + IF g[m] = b THEN 1 ELSE 0
  BY <1>1, CountAdd
<1>4. Count(W, f, b) \in Nat
  BY <1>1, CountType
<1>. QED
  BY <1>1, <1>2, <1>3, <1>4

LEMMA CountRemove ==
  ASSUME NEW U \in SUBSET Nodes, NEW W \in SUBSET U, NEW f, NEW g,
         \A n \in W : g[n] = f[n], NEW b
  PROVE  Count(W, g, b) <= Count(U, f, b)
<1>1. {n \in W : g[n] = b} \in SUBSET {n \in U : f[n] = b}
  OBVIOUS
<1>2. IsFiniteSet({n \in U : f[n] = b})
  BY CountType
<1>. QED
  BY <1>1, <1>2, FS_Subset DEF Count

LEMMA CountNone ==
  ASSUME NEW f, NEW b
  PROVE  Count({}, f, b) = 0
<1>1. {n \in {} : f[n] = b} = {}
  OBVIOUS
<1>. QED
  BY <1>1, FS_EmptySet DEF Count

-----------------------------------------------------------------------------
(* Chains of the state *)

\* Where there is a path, the walk is it.
LEMMA OrderIs ==
  ASSUME NEW s, orderNext \in [Nodes -> Links], Path(head, orderNext, s)
  PROVE  Order = s
  BY ChainIsPath DEF Order

LEMMA OrderWillBe ==
  ASSUME NEW s, orderNext' \in [Nodes -> Links], Path(head', orderNext', s)
  PROVE  Order' = s
  BY ChainIsPath DEF Order

LEMMA BucketIs ==
  ASSUME NEW s, NEW i \in Indices, next \in [Nodes -> Links], Path(buckets[i], next, s)
  PROVE  Bucket(i) = s
  BY ChainIsPath DEF Bucket

LEMMA BucketWillBe ==
  ASSUME NEW s, NEW i \in Indices, next' \in [Nodes -> Links], Path(buckets'[i], next', s)
  PROVE  Bucket(i)' = s
  BY ChainIsPath DEF Bucket

LEMMA Initial == Init => IInv
<1>. SUFFICES ASSUME Init
              PROVE  IInv
  OBVIOUS
<1>1. TypeOK
  <2>1. DataOK
    BY DEF Init, DataOK, Keys, Links
  <2>2. LoopOK
    BY DEF Init, NoLoop, LoopOK
  <2>. QED
    BY <2>1, <2>2 DEF TypeOK
<1>2. Order = <<>> /\ Path(head, orderNext, <<>>)
  BY <1>1, EmptyPath, OrderIs DEF Init, TypeOK, DataOK
<1>3. ASSUME NEW i \in Indices
      PROVE  Bucket(i) = <<>> /\ Path(buckets[i], next, <<>>)
  BY <1>1, EmptyPath, BucketIs DEF Init, TypeOK, DataOK
<1>4. OrderInv
  BY <1>2, EmptyPath DEF Init, OrderInv
<1>5. BucketInv
  BY <1>2, <1>3, EmptyPath DEF BucketInv
<1>6. EntryInv
  BY <1>2, EmptyPath DEF EntryInv
<1>7. LoopInv
  BY DEF LoopInv, Init, NoLoop
<1>8. RefsCoverEntries
  <2>1. \A b \in Boxes \cup Values : Held(b) = 0 /\ refs[b] = 0
    BY CountNone DEF Init, Held
  <2>. QED
    BY <2>1 DEF RefsCoverEntries
<1>. QED
  BY <1>1, <1>4, <1>5, <1>6, <1>7, <1>8 DEF IInv

\* Lookups and loops leave the entries alone.
LEMMA EntriesKept ==
  ASSUME IInv, UNCHANGED <<entries, refs, freed, pruned>>
  PROVE  /\ Order' = Order
         /\ DataOK' /\ OrderInv' /\ BucketInv' /\ EntryInv' /\ RefsCoverEntries'
<1>1. Order' = Order
  BY DEF Order, entries
<1>2. \A i \in Indices : Bucket(i)' = Bucket(i)
  BY DEF Bucket, entries
<1>3. DataOK'
  BY DEF IInv, TypeOK, DataOK, entries
<1>4. OrderInv'
  BY <1>1 DEF IInv, OrderInv, entries
<1>5. BucketInv'
  BY <1>1, <1>2 DEF IInv, BucketInv, entries
<1>6. EntryInv'
  BY <1>1 DEF IInv, EntryInv, entries
<1>7. RefsCoverEntries'
  BY DEF IInv, RefsCoverEntries, Held, entries
<1>. QED
  BY <1>1, <1>3, <1>4, <1>5, <1>6, <1>7

\* The search of a bucket finds the key wherever it is.
LEMMA FoundEntry ==
  ASSUME IInv, NEW k \in Boxes
  PROVE  LET n == Find(Bucket(Index(k)), k)
         IN \/ n = NULL /\ \A x \in ToSet(Order) : ~CmpAny(key[x], k)
            \/ n # NULL /\ n \in ToSet(Order) /\ CmpAny(key[n], k)
<1>. DEFINE c == Bucket(Index(k))
            n == Find(c, k)
<1>1. Index(k) \in Indices
  BY IndexType
<1>2. Path(buckets[Index(k)], next, c) /\ ToSet(c) = {x \in ToSet(Order) : Index(key[x]) = Index(k)}
  BY <1>1 DEF IInv, BucketInv
<1>3. /\ c \in Seq(Nodes) /\ ToSet(c) = {c[i] : i \in 1 .. Len(c)} /\ ToSet(c) \subseteq Nodes
  BY <1>2, PathElements
<1>. HIDE DEF c
<1>4. CASE n = NULL /\ \A i \in 1 .. Len(c) : ~CmpAny(key[c[i]], k)
  <2>1. ASSUME NEW x \in ToSet(Order), CmpAny(key[x], k)
        PROVE  FALSE
    <3>1. key[x] \in Boxes
      BY DEF IInv, EntryInv
    <3>2. Index(key[x]) = Index(k)
      BY <2>1, <3>1, SameIndex
    <3>. QED
      BY <1>2, <1>3, <1>4, <2>1, <3>2
  <2>. QED
    BY <1>4, <2>1 DEF c
<1>5. CASE \E i \in 1 .. Len(c) : n = c[i] /\ CmpAny(key[c[i]], k)
  <2>1. n \in ToSet(c) /\ CmpAny(key[n], k)
    BY <1>3, <1>5
  <2>2. n # NULL
    BY <1>3, <2>1, TableAssumption
  <2>. QED
    BY <1>2, <2>1, <2>2 DEF c
<1>. QED
  BY <1>3, <1>4, <1>5, FindSpec
-----------------------------------------------------------------------------
(* Insert *)

LEMMA OverwriteStep ==
  ASSUME IInv, ~freed, NEW n \in ToSet(Order), NEW v \in Values, Overwrite(n, v),
         UNCHANGED <<freed, loop, pruned>>
  PROVE  Order' = Order /\ IInv'
<1>1. Order' = Order
  BY DEF Order, Overwrite
<1>2. \A i \in Indices : Bucket(i)' = Bucket(i)
  BY DEF Bucket, Overwrite
<1>3. /\ used = ToSet(Order) /\ used \in SUBSET Nodes /\ n \in Nodes
      /\ refs \in [Boxes \cup Values -> Nat] /\ val[n] \in Values
      /\ val \in [Nodes -> Values \cup {NULL}]
  BY DEF IInv, TypeOK, DataOK, OrderInv, EntryInv
<1>4. /\ refs' \in [Boxes \cup Values -> Nat]
      /\ \A b \in Boxes \cup Values :
           refs'[b] = LET r == IF b = val[n] /\ refs[b] # 0 THEN refs[b] - 1 ELSE refs[b]
                      IN IF b = v THEN r + 1 ELSE r
  BY <1>3 DEF Overwrite, Retain, Release
<1>5. TypeOK'
  BY <1>3, <1>4 DEF IInv, TypeOK, DataOK, LoopOK, Overwrite
<1>6. OrderInv'
  BY <1>1 DEF IInv, OrderInv, Overwrite
<1>7. BucketInv'
  BY <1>1, <1>2 DEF IInv, BucketInv, Overwrite
<1>8. EntryInv'
  BY <1>1, <1>3 DEF IInv, EntryInv, Overwrite
<1>9. LoopInv'
  BY <1>1 DEF IInv, LoopInv, Overwrite
<1>10. RefsCoverEntries'
  <2>. SUFFICES ASSUME NEW b \in Boxes \cup Values
                PROVE  /\ Held(b)' <= refs'[b]
                       /\ ~pruned' => Held(b)' = refs'[b]
    BY DEF RefsCoverEntries
  <2>1. /\ val[n] = b => Count(used, val, b) >= 1
        /\ Count(used, val', b) = (Count(used, val, b) - (IF val[n] = b THEN 1 ELSE 0))
                                    + IF v = b THEN 1 ELSE 0
    <3>1. val'[n] = v /\ \A m \in used : m # n => val'[m] = val[m]
      BY <1>3 DEF Overwrite
    <3>. QED
      BY <1>3, <3>1, CountChange
  <2>2. Count(used, key, b) \in Nat /\ Count(used, val, b) \in Nat
    BY <1>3, CountType
  <2>3. /\ Held(b) = Count(used, key, b) + Count(used, val, b)
        /\ Held(b)' = Count(used, key, b) + Count(used, val', b)
    BY DEF Held, Overwrite
  <2>4. /\ Held(b) <= refs[b]
        /\ ~pruned => Held(b) = refs[b]
        /\ refs[b] \in Nat /\ pruned' = pruned
    BY <1>3 DEF IInv, RefsCoverEntries
  <2>. QED
    BY <1>4, <2>1, <2>2, <2>3, <2>4
<1>. QED
  BY <1>1, <1>5, <1>6, <1>7, <1>8, <1>9, <1>10 DEF IInv

\* A new entry goes to the end of the order.
LEMMA AddOrder ==
  ASSUME IInv, ~freed, NEW k \in Boxes, NEW v \in Values, NEW m \in Nodes \ used, AddEntry(m, k, v),
         UNCHANGED <<freed, pruned>>
  PROVE  /\ DataOK'
         /\ Order' = Append(Order, m)
         /\ Path(head', orderNext', Append(Order, m))
         /\ ToSet(Append(Order, m)) = ToSet(Order) \cup {m}
<1>1. DataOK'
  <2>1. /\ refs \in [Boxes \cup Values -> Nat]
        /\ Index(k) \in Indices
    BY IndexType DEF IInv, TypeOK, DataOK
  <2>2. refs' \in [Boxes \cup Values -> Nat]
    BY <2>1 DEF AddEntry, Retain
  <2>. QED
    BY <2>1, <2>2 DEF IInv, TypeOK, DataOK, AddEntry, Keys, Links
<1>2. /\ Path(head, orderNext, Order)
      /\ tail = IF Order = <<>> THEN NULL ELSE Order[Len(Order)]
      /\ m \notin ToSet(Order)
  BY DEF IInv, OrderInv
<1>3. \A n \in Nodes : orderNext'[n] = IF n = m THEN NULL ELSE IF n = tail THEN m ELSE orderNext[n]
  BY DEF AddEntry
<1>4. /\ Path(IF tail = NULL THEN m ELSE head, orderNext', Append(Order, m))
      /\ ToSet(Append(Order, m)) = ToSet(Order) \cup {m}
  BY <1>2, <1>3, PathAppend
<1>5. head' = IF tail = NULL THEN m ELSE head
  BY DEF AddEntry
<1>6. orderNext' \in [Nodes -> Links]
  BY DEF AddEntry, IInv, TypeOK, DataOK, Links
<1>7. Order' = Append(Order, m)
  BY <1>4, <1>5, <1>6, OrderWillBe
<1>. QED
  BY <1>1, <1>4, <1>5, <1>7

LEMMA AddStep ==
  ASSUME IInv, ~freed, NEW k \in Boxes, NEW v \in Values, NEW m \in Nodes \ used, AddEntry(m, k, v),
         \A x \in ToSet(Order) : ~CmpAny(key[x], k), UNCHANGED <<freed, loop, pruned>>
  PROVE  IInv'
<1>1. /\ DataOK'
      /\ Order' = Append(Order, m)
      /\ Path(head', orderNext', Order')
      /\ ToSet(Order') = ToSet(Order) \cup {m}
  BY AddOrder
<1>2. /\ used = ToSet(Order) /\ used \in SUBSET Nodes /\ Order \in Seq(Nodes)
      /\ ToSet(Order) = {Order[i] : i \in 1 .. Len(Order)} /\ Len(Order) \in Nat
      /\ \A i \in 1 .. Len(Order) : Order[i] \in ToSet(Order)
      /\ refs \in [Boxes \cup Values -> Nat] /\ next \in [Nodes -> Links]
      /\ key \in [Nodes -> Keys] /\ val \in [Nodes -> Values \cup {NULL}]
      /\ buckets \in [Indices -> Links] /\ Index(k) \in Indices
  BY PathElements, IndexType DEF IInv, TypeOK, DataOK, OrderInv
<1>3. /\ Len(Order') = Len(Order) + 1 /\ Order'[Len(Order')] = m /\ Order' # <<>>
      /\ \A i \in 1 .. Len(Order) : Order'[i] = Order[i]
  BY <1>1, <1>2
<1>4. /\ key'[m] = k /\ val'[m] = v
      /\ \A n \in ToSet(Order) : key'[n] = key[n] /\ val'[n] = val[n] /\ n # m
      /\ used' = ToSet(Order) \cup {m}
  BY <1>2 DEF AddEntry
<1>5. OrderInv'
  BY <1>1, <1>2, <1>3, <1>4 DEF IInv, OrderInv, AddEntry
<1>6. EntryInv'
  <2>1. \A n \in ToSet(Order) : key'[n] \in Boxes /\ val'[n] \in Values
    BY <1>4 DEF IInv, EntryInv
  <2>2. \A a, b \in ToSet(Order) : CmpAny(key'[a], key'[b]) => a = b
    BY <1>4 DEF IInv, EntryInv
  <2>3. \A n \in ToSet(Order) : ~CmpAny(key'[n], k) /\ ~CmpAny(k, key'[n])
    BY <1>4, SameSymmetric
  <2>. QED
    BY <1>1, <1>4, <2>1, <2>2, <2>3 DEF EntryInv
<1>7. BucketInv'
  <2>1. \A n \in Nodes : next'[n] = IF n = m THEN buckets[Index(k)] ELSE next[n]
    BY <1>2 DEF AddEntry
  <2>2. next' \in [Nodes -> Links]
    BY <1>1 DEF DataOK
  <2>. SUFFICES ASSUME NEW i \in Indices
                PROVE  /\ Path(buckets'[i], next', Bucket(i)')
                       /\ ToSet(Bucket(i)') = {n \in ToSet(Order') : Index(key'[n]) = i}
    BY DEF BucketInv
  <2>3. /\ Path(buckets[i], next, Bucket(i))
        /\ ToSet(Bucket(i)) = {n \in ToSet(Order) : Index(key[n]) = i}
    BY DEF IInv, BucketInv
  <2>4. m \notin ToSet(Bucket(i))
    BY <1>2, <2>3
  <2>5. CASE i = Index(k)
    <3>1. /\ Path(m, next', <<m>> \o Bucket(i))
          /\ ToSet(<<m>> \o Bucket(i)) = ToSet(Bucket(i)) \cup {m}
      BY <2>1, <2>3, <2>4, <2>5, PathPush
    <3>2. buckets'[i] = m
      BY <1>2, <2>5 DEF AddEntry
    <3>3. Bucket(i)' = <<m>> \o Bucket(i)
      BY <2>2, <3>1, <3>2, BucketWillBe
    <3>. QED
      BY <1>1, <1>4, <2>3, <2>5, <3>1, <3>2, <3>3
  <2>6. CASE i # Index(k)
    <3>1. buckets'[i] = buckets[i]
      BY <1>2, <2>6 DEF AddEntry
    <3>2. \A n \in ToSet(Bucket(i)) : next'[n] = next[n]
      BY <1>2, <2>1, <2>3, <2>4
    <3>3. Path(buckets[i], next', Bucket(i))
      BY <2>3, <3>2, PathKept
    <3>4. Bucket(i)' = Bucket(i)
      BY <2>2, <3>1, <3>3, BucketWillBe
    <3>. QED
      BY <1>1, <1>4, <2>3, <2>6, <3>1, <3>3, <3>4
  <2>. QED
    BY <2>5, <2>6
<1>8. LoopInv'
  <2>. SUFFICES ASSUME loop.on
                PROVE  /\ ~freed'
                       /\ ~loop.torn => /\ loop.i <= size'
                                        /\ loop.seen = [i \in 1 .. loop.i |-> key'[Order'[i]]]
    BY DEF LoopInv
  <2>1. size' = size + 1 /\ size = Len(Order) /\ loop.i \in Nat
    BY DEF AddEntry, IInv, OrderInv, TypeOK, LoopOK
  <2>2. ASSUME ~loop.torn
        PROVE  loop.i <= size' /\ loop.seen = [i \in 1 .. loop.i |-> key'[Order'[i]]]
    <3>1. loop.i <= size /\ loop.seen = [i \in 1 .. loop.i |-> key[Order[i]]]
      BY <2>2 DEF IInv, LoopInv
    <3>2. \A i \in 1 .. loop.i : i \in 1 .. Len(Order)
      BY <1>2, <2>1, <3>1
    <3>3. \A i \in 1 .. loop.i : key'[Order'[i]] = key[Order[i]]
      BY <1>2, <1>3, <1>4, <3>2
    <3>4. loop.i <= size'
      <4>1. size \in Nat
        BY <1>2, <2>1
      <4>. QED
        BY <2>1, <3>1, <4>1
    <3>5. [i \in 1 .. loop.i |-> key[Order[i]]] = [i \in 1 .. loop.i |-> key'[Order'[i]]]
      BY <3>3
    <3>. QED
      BY <3>1, <3>4, <3>5
  <2>. QED
    BY <2>2 DEF IInv, LoopInv
<1>9. RefsCoverEntries'
  <2>. SUFFICES ASSUME NEW b \in Boxes \cup Values
                PROVE  /\ Held(b)' <= refs'[b]
                       /\ ~pruned' => Held(b)' = refs'[b]
    BY DEF RefsCoverEntries
  <2>0. /\ used \in SUBSET Nodes /\ m \in Nodes \ used
        /\ \A n \in used : key'[n] = key[n] /\ val'[n] = val[n]
    BY <1>2, <1>4
  <2>1. Count(used \cup {m}, key', b) = Count(used, key, b) + IF k = b THEN 1 ELSE 0
    <3>1. Count(used \cup {m}, key', b) = Count(used, key, b) + IF key'[m] = b THEN 1 ELSE 0
      BY <2>0, CountAdd
    <3>. QED
      BY <1>4, <3>1
  <2>2. Count(used \cup {m}, val', b) = Count(used, val, b) + IF v = b THEN 1 ELSE 0
    <3>1. Count(used \cup {m}, val', b) = Count(used, val, b) + IF val'[m] = b THEN 1 ELSE 0
      BY <2>0, CountAdd
    <3>. QED
      BY <1>4, <3>1
  <2>3. Count(used, key, b) \in Nat /\ Count(used, val, b) \in Nat
    BY <1>2, CountType
  <2>4. /\ Held(b) = Count(used, key, b) + Count(used, val, b)
        /\ Held(b)' = Count(used \cup {m}, key', b) + Count(used \cup {m}, val', b)
    BY DEF Held, AddEntry
  <2>5. /\ Held(b) <= refs[b]
        /\ ~pruned => Held(b) = refs[b]
        /\ refs[b] \in Nat /\ pruned' = pruned
    BY <1>2 DEF IInv, RefsCoverEntries
  <2>6. refs'[b] = LET r == IF b = k THEN refs[b] + 1 ELSE refs[b]
                   IN IF b = v THEN r + 1 ELSE r
    BY <1>2 DEF AddEntry, Retain
  <2>. QED
    BY <2>1, <2>2, <2>3, <2>4, <2>5, <2>6
<1>. QED
  BY <1>1, <1>5, <1>6, <1>7, <1>8, <1>9 DEF IInv, TypeOK, LoopOK
-----------------------------------------------------------------------------
(* Remove, clear and free *)

\* The entry that remove looks for through the list.
LEMMA FoundInOrder ==
  ASSUME IInv, NEW k, Find(Order, k) # NULL
  PROVE  \E p \in 1 .. Len(Order) : Find(Order, k) = Order[p] /\ CmpAny(key[Order[p]], k)
<1>1. Order \in Seq(Nodes)
  BY DEF IInv, OrderInv, Path
<1>. QED
  BY <1>1, FindSpec

LEMMA RemoveOrder ==
  ASSUME IInv, NEW p \in 1 .. Len(Order), UnlinkOrder(Order[p])
  PROVE  /\ orderNext' \in [Nodes -> Links] /\ head' \in Links /\ tail' \in Links
         /\ Order' = RemoveAt(Order, p)
         /\ Path(head', orderNext', RemoveAt(Order, p))
         /\ ToSet(RemoveAt(Order, p)) = ToSet(Order) \ {Order[p]}
         /\ tail' = IF RemoveAt(Order, p) = <<>> THEN NULL
                    ELSE RemoveAt(Order, p)[Len(RemoveAt(Order, p))]
<1>. DEFINE n == Order[p]
            prev == IF p = 1 THEN NULL ELSE Order[p - 1]
            t == RemoveAt(Order, p)
<1>1. /\ Path(head, orderNext, Order)
      /\ tail = IF Order = <<>> THEN NULL ELSE Order[Len(Order)]
      /\ orderNext \in [Nodes -> Links] /\ head \in Links /\ tail \in Links
      /\ Order \in Seq(Nodes) /\ Len(Order) \in Nat
      /\ \A i \in 1 .. Len(Order) : Order[i] \in Nodes
      /\ \A i, j \in 1 .. Len(Order) : Order[i] = Order[j] => i = j
  <2>1. /\ Path(head, orderNext, Order)
        /\ tail = IF Order = <<>> THEN NULL ELSE Order[Len(Order)]
    BY DEF IInv, OrderInv
  <2>2. orderNext \in [Nodes -> Links] /\ head \in Links /\ tail \in Links
    BY DEF IInv, TypeOK, DataOK
  <2>. QED
    BY <2>1, <2>2, PathElements DEF Path
<1>2. Before(Order, n) = prev
  BY <1>1, BeforeSpec
<1>3. /\ orderNext' = [m \in Nodes |-> IF m = n THEN NULL
                                      ELSE IF m = prev THEN orderNext[n] ELSE orderNext[m]]
      /\ head' = IF prev = NULL THEN orderNext[n] ELSE head
      /\ tail' = IF tail = n THEN prev ELSE tail
  BY <1>2 DEF UnlinkOrder
<1>4. prev = NULL <=> p = 1
  <2>1. CASE p # 1
    <3>1. p - 1 \in 1 .. Len(Order)
      BY <1>1, <2>1
    <3>. QED
      BY <1>1, <2>1, <3>1, TableAssumption
  <2>. QED
    BY <2>1
<1>5. /\ Path(IF p = 1 THEN orderNext[n] ELSE head, orderNext', t)
      /\ ToSet(t) = ToSet(Order) \ {n}
  <2>1. \A m \in Nodes : m # n => orderNext'[m] = IF m = prev THEN orderNext[n] ELSE orderNext[m]
    BY <1>3
  <2>. QED
    BY <1>1, <2>1, PathRemove
<1>6. prev \in Links
  <2>1. CASE p # 1
    <3>1. p - 1 \in 1 .. Len(Order)
      BY <1>1, <2>1
    <3>. QED
      BY <1>1, <2>1, <3>1 DEF Links
  <2>. QED
    BY <2>1 DEF Links
<1>7. /\ orderNext' \in [Nodes -> Links] /\ head' \in Links /\ tail' \in Links
  BY <1>1, <1>3, <1>6 DEF Links
<1>8. Order' = t
  BY <1>3, <1>4, <1>5, <1>7, OrderWillBe
<1>9. tail' = IF t = <<>> THEN NULL ELSE t[Len(t)]
  <2>1. /\ t \in Seq(Nodes) /\ Len(t) = Len(Order) - 1
        /\ \A i \in 1 .. Len(Order) - 1 : t[i] = IF i < p THEN Order[i] ELSE Order[i + 1]
    BY <1>1, RemoveAtSpec
  <2>2. t = <<>> <=> Len(Order) = 1
    <3>. HIDE DEF t
    <3>. QED
      BY <1>1, <2>1
  <2>3. tail = Order[Len(Order)] /\ Len(Order) \in 1 .. Len(Order)
    BY <1>1
  <2>. HIDE DEF t
  <2>4. CASE p = Len(Order)
    <3>1. tail' = prev
      BY <1>3, <2>3, <2>4
    <3>2. CASE Len(Order) = 1
      BY <2>2, <2>4, <3>1, <3>2
    <3>3. CASE Len(Order) # 1
      <4>1. Len(Order) - 1 \in 1 .. Len(Order) - 1 /\ Len(Order) - 1 < p
        BY <1>1, <2>4, <3>3
      <4>. QED
        BY <2>1, <2>2, <2>4, <3>1, <3>3, <4>1
    <3>. QED
      BY <3>2, <3>3
  <2>5. CASE p # Len(Order)
    <3>1. tail' = Order[Len(Order)]
      BY <1>1, <1>3, <2>3, <2>5
    <3>2. Len(Order) - 1 \in 1 .. Len(Order) - 1 /\ ~(Len(Order) - 1 < p) /\ Len(Order) # 1
          /\ (Len(Order) - 1) + 1 = Len(Order)
      BY <1>1, <2>5
    <3>. QED
      BY <2>1, <2>2, <3>1, <3>2
  <2>. QED
    BY <2>4, <2>5
<1>. QED
  BY <1>3, <1>4, <1>5, <1>7, <1>8, <1>9

\* The bucket of the entry loses it; the others stay.
LEMMA RemoveBuckets ==
  ASSUME IInv, NEW n \in ToSet(Order), UnlinkBuckets(n)
  PROVE  /\ next' \in [Nodes -> Links] /\ buckets' \in [Indices -> Links]
         /\ \A i \in Indices : /\ Path(buckets'[i], next', Bucket(i)')
                               /\ ToSet(Bucket(i)') = ToSet(Bucket(i)) \ {n}
<1>0. PICK h \in Indices : h = Index(key[n])
  <2>1. key[n] \in Boxes
    BY DEF IInv, EntryInv
  <2>. QED
    BY <2>1, IndexType
<1>. DEFINE c == Bucket(h)
<1>1. /\ next \in [Nodes -> Links] /\ buckets \in [Indices -> Links]
      /\ \A i \in Indices : /\ Path(buckets[i], next, Bucket(i))
                            /\ ToSet(Bucket(i)) = {x \in ToSet(Order) : Index(key[x]) = i}
  BY DEF IInv, TypeOK, DataOK, BucketInv
<1>2. h \in Indices /\ n \in ToSet(c)
  BY <1>0, <1>1
<1>3. PICK p \in 1 .. Len(c) : n = c[p]
  BY <1>1, <1>2, PathElements
<1>4. Before(c, n) = IF p = 1 THEN NULL ELSE c[p - 1]
  BY <1>1, <1>2, <1>3, BeforeSpec
<1>. DEFINE prev == IF p = 1 THEN NULL ELSE c[p - 1]
<1>5. {i \in Indices : Contains(Bucket(i), n)} = {h}
  <2>1. \A i \in Indices : Contains(Bucket(i), n) <=> n \in ToSet(Bucket(i))
    BY <1>1, PathElements DEF Contains
  <2>. QED
    BY <1>0, <1>1, <2>1
<1>6. /\ buckets' = [i \in Indices |-> IF buckets[i] = n THEN next[n] ELSE buckets[i]]
      /\ next' = [m \in Nodes |-> IF m = n THEN NULL
                                 ELSE IF m = prev THEN next[n] ELSE next[m]]
  <2>1. {Before(Bucket(i), n) : i \in {h}} = {prev}
    BY <1>4
  <2>. QED
    BY <1>5, <2>1 DEF UnlinkBuckets
<1>7. n \in Nodes /\ next' \in [Nodes -> Links] /\ buckets' \in [Indices -> Links]
  <2>1. n \in Nodes
    BY <1>1, <1>2, PathElements
  <2>. QED
    BY <1>1, <1>6, <2>1 DEF Links
<1>8. prev = NULL \/ prev \in ToSet(c)
  <2>1. CASE p # 1
    <3>1. p - 1 \in 1 .. Len(c)
      BY <1>1, <1>2, <2>1, PathElements
    <3>. QED
      BY <1>1, <1>2, <2>1, <3>1, PathElements
  <2>. QED
    BY <2>1
<1>. HIDE DEF prev
<1>9. ASSUME NEW i \in Indices, i # h
      PROVE  Path(buckets'[i], next', Bucket(i)') /\ ToSet(Bucket(i)') = ToSet(Bucket(i)) \ {n}
  <2>1. n \notin ToSet(Bucket(i)) /\ prev \notin ToSet(Bucket(i))
    <3>1. NULL \notin ToSet(Bucket(i))
      BY <1>1, PathElements, TableAssumption
    <3>. QED
      BY <1>0, <1>1, <1>2, <1>8, <1>9, <3>1
  <2>2. buckets'[i] = buckets[i]
    <3>1. buckets[i] # n
      <4>1. Bucket(i) # <<>> => 1 \in 1 .. Len(Bucket(i)) /\ buckets[i] = Bucket(i)[1]
        BY <1>1 DEF Path
      <4>2. Bucket(i) = <<>> => buckets[i] = NULL
        BY <1>1 DEF Path
      <4>3. \A j \in 1 .. Len(Bucket(i)) : Bucket(i)[j] \in ToSet(Bucket(i))
        BY <1>1, PathElements
      <4>. QED
        BY <1>7, <2>1, <4>1, <4>2, <4>3, TableAssumption
    <3>. QED
      BY <1>6, <3>1
  <2>3. \A x \in ToSet(Bucket(i)) : next'[x] = next[x]
    <3>1. ToSet(Bucket(i)) \subseteq Nodes
      BY <1>1, PathElements
    <3>. QED
      BY <1>6, <2>1, <3>1
  <2>4. Path(buckets'[i], next', Bucket(i))
    BY <1>1, <2>2, <2>3, PathKept
  <2>5. Bucket(i)' = Bucket(i)
    BY <1>7, <2>4, BucketWillBe
  <2>. QED
    BY <2>1, <2>4, <2>5
<1>10. Path(buckets'[h], next', Bucket(h)') /\ ToSet(Bucket(h)') = ToSet(Bucket(h)) \ {n}
  <2>1. /\ Path(IF p = 1 THEN next[n] ELSE buckets[h], next', RemoveAt(c, p))
        /\ ToSet(RemoveAt(c, p)) = ToSet(c) \ {n}
    <3>1. \A m \in Nodes : m # n => next'[m] = IF m = prev THEN next[n] ELSE next[m]
      BY <1>6
    <3>2. prev = IF p = 1 THEN NULL ELSE c[p - 1]
      BY DEF prev
    <3>3. Path(buckets[h], next, c)
      BY <1>1, <1>2
    <3>. HIDE DEF c
    <3>. QED
      BY <1>3, <3>1, <3>2, <3>3, PathRemove
  <2>2. buckets'[h] = IF p = 1 THEN next[n] ELSE buckets[h]
    <3>1. buckets[h] = n <=> p = 1
      <4>1. /\ buckets[h] = IF c = <<>> THEN NULL ELSE c[1]
            /\ \A i, j \in 1 .. Len(c) : c[i] = c[j] => i = j
            /\ c \in Seq(Nodes)
        BY <1>1, <1>2 DEF Path
      <4>2. c # <<>> /\ 1 \in 1 .. Len(c)
        BY <1>3, <4>1
      <4>. QED
        BY <1>3, <4>1, <4>2
    <3>. QED
      BY <1>2, <1>6, <3>1
  <2>3. Bucket(h)' = RemoveAt(c, p)
    <3>1. Path(buckets'[h], next', RemoveAt(c, p))
      BY <2>1, <2>2
    <3>2. \A i \in Indices : Path(buckets'[i], next', RemoveAt(c, p)) => Bucket(i)' = RemoveAt(c, p)
      BY <1>7, BucketWillBe
    <3>. QED
      BY <1>2, <3>1, <3>2
  <2>. QED
    BY <2>1, <2>2, <2>3
<1>. QED
  BY <1>7, <1>9, <1>10

LEMMA WithoutSpec ==
  ASSUME NEW f, NEW s, NEW x \in Nodes, x \notin ToSet(s), NEW S, s \in Seq(S)
  PROVE  Without(f, s)[x] = f[x]
<1>1. ~Contains(s, x)
  BY DEF Contains, ToSet
<1>. QED
  BY <1>1 DEF Without

LEMMA WithoutType ==
  ASSUME NEW f, NEW s, NEW S, f \in [Nodes -> S], NULL \in S
  PROVE  Without(f, s) \in [Nodes -> S]
  BY DEF Without

LEMMA RemoveStep ==
  ASSUME IInv, NEW k, MapRemove(k)
  PROVE  IInv'
<1>1. CASE Find(Order, k) = NULL
  <2>1. UNCHANGED <<entries, pruned, loop, refs, freed>>
    BY <1>1 DEF MapRemove
  <2>2. Order' = Order /\ DataOK' /\ OrderInv' /\ BucketInv' /\ EntryInv' /\ RefsCoverEntries'
    BY <2>1, EntriesKept
  <2>3. LoopOK' /\ LoopInv'
    BY <2>1, <2>2 DEF IInv, TypeOK, LoopOK, LoopInv, entries
  <2>. QED
    BY <2>2, <2>3 DEF IInv, TypeOK
<1>2. CASE Find(Order, k) # NULL
  <2>1. PICK p \in 1 .. Len(Order) : Find(Order, k) = Order[p]
    BY <1>2, FoundInOrder
  <2>. DEFINE s == Order
  <2>2. PICK n \in Nodes : n = Order[p] /\ n \in ToSet(Order)
    BY <2>1, PathElements DEF IInv, OrderInv
  <2>3. /\ UnlinkOrder(n) /\ UnlinkBuckets(n)
        /\ size' = size - 1 /\ used' = used \ {n} /\ pruned' = TRUE
        /\ loop' = [loop EXCEPT !.torn = loop.on]
        /\ key' = Without(key, <<n>>) /\ val' = Without(val, <<n>>)
        /\ ~freed /\ refs' = refs /\ freed' = freed
    BY <1>2, <2>1, <2>2 DEF MapRemove
  <2>4. /\ orderNext' \in [Nodes -> Links] /\ head' \in Links /\ tail' \in Links
        /\ Order' = RemoveAt(Order, p)
        /\ Path(head', orderNext', Order')
        /\ ToSet(Order') = ToSet(Order) \ {n}
        /\ tail' = IF Order' = <<>> THEN NULL ELSE Order'[Len(Order')]
    BY <2>2, <2>3, RemoveOrder
  <2>5. /\ next' \in [Nodes -> Links] /\ buckets' \in [Indices -> Links]
        /\ \A i \in Indices : /\ Path(buckets'[i], next', Bucket(i)')
                              /\ ToSet(Bucket(i)') = ToSet(Bucket(i)) \ {n}
    BY <2>2, <2>3, RemoveBuckets
  <2>6. /\ used = ToSet(Order) /\ used \in SUBSET Nodes /\ Order \in Seq(Nodes)
        /\ Len(Order) \in Nat /\ size = Len(Order)
        /\ key \in [Nodes -> Keys] /\ val \in [Nodes -> Values \cup {NULL}]
    BY <2>3, PathElements DEF IInv, TypeOK, DataOK, OrderInv
  <2>7. /\ key' \in [Nodes -> Keys] /\ val' \in [Nodes -> Values \cup {NULL}]
        /\ \A x \in Nodes : x # n => key'[x] = key[x] /\ val'[x] = val[x]
    <3>1. <<n>> \in Seq(Nodes) /\ ToSet(<<n>>) = {n}
      BY DEF ToSet
    <3>. QED
      BY <2>3, <2>6, <3>1, WithoutSpec, WithoutType DEF Keys
  <2>8. TypeOK'
    <3>1. size' \in Nat /\ used' \in SUBSET Nodes
      BY <2>3, <2>6
    <3>2. LoopOK'
      BY <2>3 DEF IInv, TypeOK, LoopOK
    <3>. QED
      BY <2>3, <2>4, <2>5, <2>7, <3>1, <3>2 DEF IInv, TypeOK, DataOK
  <2>9. OrderInv'
    <3>1. Len(RemoveAt(Order, p)) = Len(Order) - 1
      BY <2>6, RemoveAtSpec
    <3>. QED
      BY <2>3, <2>4, <2>6, <3>1 DEF OrderInv
  <2>10. BucketInv'
    <3>1. \A i \in Indices : ToSet(Bucket(i)) = {x \in ToSet(Order) : Index(key[x]) = i}
      BY DEF IInv, BucketInv
    <3>2. \A x \in ToSet(Order') : x \in Nodes /\ x # n /\ key'[x] = key[x]
      BY <2>4, <2>6, <2>7
    <3>3. ASSUME NEW i \in Indices
          PROVE  ToSet(Bucket(i)') = {x \in ToSet(Order') : Index(key'[x]) = i}
      BY <2>4, <2>5, <3>1, <3>2
    <3>. QED
      BY <2>5, <3>3 DEF BucketInv
  <2>11. EntryInv'
    <3>1. \A x \in ToSet(Order') : x \in ToSet(Order) /\ key'[x] = key[x] /\ val'[x] = val[x]
      BY <2>4, <2>6, <2>7
    <3>. QED
      BY <3>1 DEF IInv, EntryInv
  <2>12. LoopInv'
    BY <2>3 DEF IInv, TypeOK, LoopOK, LoopInv
  <2>13. RefsCoverEntries'
    <3>. SUFFICES ASSUME NEW b \in Boxes \cup Values
                  PROVE  Held(b)' <= refs[b]
      BY <2>3 DEF RefsCoverEntries
    <3>1. used' \in SUBSET used /\ \A x \in used' : key'[x] = key[x] /\ val'[x] = val[x]
      BY <2>3, <2>6, <2>7
    <3>2. Count(used', key', b) <= Count(used, key, b) /\ Count(used', val', b) <= Count(used, val, b)
      BY <2>6, <3>1, CountRemove
    <3>3. /\ Count(used, key, b) \in Nat /\ Count(used, val, b) \in Nat
          /\ Count(used', key', b) \in Nat /\ Count(used', val', b) \in Nat
      BY <2>6, <3>1, CountType
    <3>4. /\ Held(b) = Count(used, key, b) + Count(used, val, b)
          /\ Held(b)' = Count(used', key', b) + Count(used', val', b)
      BY DEF Held
    <3>5. Held(b) <= refs[b] /\ refs[b] \in Nat
      BY DEF IInv, RefsCoverEntries, TypeOK, DataOK
    <3>. QED
      BY <3>2, <3>3, <3>4, <3>5
  <2>. QED
    BY <2>8, <2>9, <2>10, <2>11, <2>12, <2>13 DEF IInv
<1>. QED
  BY <1>1, <1>2

\* Nothing is left of the lists.
LEMMA ClearStep ==
  ASSUME IInv, MapClear
  PROVE  Order' = <<>> /\ IInv'
<1>1. TypeOK'
  <2>1. /\ key' \in [Nodes -> Keys] /\ val' \in [Nodes -> Values \cup {NULL}]
        /\ next' \in [Nodes -> Links] /\ orderNext' \in [Nodes -> Links]
    BY WithoutType DEF MapClear, IInv, TypeOK, DataOK, Keys, Links
  <2>2. LoopOK'
    BY DEF MapClear, IInv, TypeOK, LoopOK
  <2>3. buckets' \in [Indices -> Links] /\ head' \in Links /\ tail' \in Links /\ size' \in Nat
    BY DEF MapClear, Links
  <2>4. pruned' \in BOOLEAN /\ used' \in SUBSET Nodes
    BY DEF MapClear, IInv, TypeOK, DataOK
  <2>. QED
    BY <2>1, <2>2, <2>3, <2>4 DEF MapClear, IInv, TypeOK, DataOK
<1>2. Order' = <<>> /\ Path(head', orderNext', <<>>)
  BY <1>1, EmptyPath, OrderWillBe DEF MapClear, TypeOK, DataOK
<1>3. ASSUME NEW i \in Indices
      PROVE  Bucket(i)' = <<>> /\ Path(buckets'[i], next', <<>>)
  BY <1>1, EmptyPath, BucketWillBe DEF MapClear, TypeOK, DataOK
<1>4. used' = {}
  BY DEF MapClear, IInv, OrderInv
<1>5. OrderInv'
  BY <1>2, <1>4, EmptyPath DEF MapClear, OrderInv
<1>6. BucketInv'
  BY <1>2, <1>3, EmptyPath DEF BucketInv
<1>7. EntryInv'
  BY <1>2, EmptyPath DEF EntryInv
<1>8. LoopInv'
  BY DEF MapClear, IInv, TypeOK, LoopOK, LoopInv
<1>9. RefsCoverEntries'
  <2>. SUFFICES ASSUME NEW b \in Boxes \cup Values
                PROVE  Held(b)' <= refs'[b] /\ (~pruned' => Held(b)' = refs'[b])
    BY DEF RefsCoverEntries
  <2>1. Held(b)' = 0
    BY <1>4, CountNone DEF Held
  <2>2. refs[b] \in Nat /\ refs' = refs
    BY DEF MapClear, IInv, TypeOK, DataOK
  <2>3. ASSUME ~pruned'
        PROVE  refs[b] = 0
    <3>1. ~pruned /\ head = NULL
      BY <2>3 DEF MapClear
    <3>2. Order = <<>>
      BY <3>1, TableAssumption, PathElements DEF IInv, OrderInv, Path
    <3>3. used = {}
      BY <3>2, EmptyPath DEF IInv, OrderInv
    <3>4. Held(b) = 0
      BY <3>3, CountNone DEF Held
    <3>. QED
      BY <3>1, <3>4 DEF IInv, RefsCoverEntries
  <2>. QED
    BY <2>1, <2>2, <2>3
<1>. QED
  BY <1>1, <1>2, <1>5, <1>6, <1>7, <1>8, <1>9 DEF IInv

\* The buckets lead to every entry, so every reference is given back.
LEMMA FreeStep ==
  ASSUME IInv, MapFreeInternal
  PROVE  IInv'
<1>. DEFINE gone == UNION {ToSet(Bucket(i)) : i \in Indices}
            Given(b) == Count(gone, key, b) + Count(gone, val, b)
<1>1. /\ ~freed /\ ~loop.on /\ freed' = TRUE
      /\ refs' = [b \in DOMAIN refs |-> IF refs[b] < Given(b) THEN 0 ELSE refs[b] - Given(b)]
      /\ used' = used \ gone
      /\ UNCHANGED <<key, val, next, orderNext, buckets, head, tail, size, loop, pruned>>
  BY DEF MapFreeInternal
<1>2. gone = used /\ used = ToSet(Order) /\ used \in SUBSET Nodes
  <2>1. used = ToSet(Order) /\ used \in SUBSET Nodes
    BY <1>1 DEF IInv, OrderInv, TypeOK, DataOK
  <2>2. \A n \in ToSet(Order) : Index(key[n]) \in Indices
    BY IndexType DEF IInv, EntryInv
  <2>. QED
    BY <2>1, <2>2 DEF IInv, BucketInv
<1>. HIDE DEF gone
<1>3. used' = {}
  BY <1>1, <1>2
<1>4. Order' = Order /\ \A i \in Indices : Bucket(i)' = Bucket(i)
  BY <1>1 DEF Order, Bucket
<1>5. ASSUME NEW b \in Boxes \cup Values
      PROVE  /\ refs'[b] \in Nat
             /\ ~pruned => refs'[b] = 0
  <2>1. Count(used, key, b) \in Nat /\ Count(used, val, b) \in Nat
    BY <1>2, CountType
  <2>2. Given(b) = Held(b)
    BY <1>2 DEF Held
  <2>3. refs[b] \in Nat /\ Held(b) <= refs[b] /\ (~pruned => Held(b) = refs[b]) /\ b \in DOMAIN refs
    BY DEF IInv, TypeOK, DataOK, RefsCoverEntries
  <2>4. Held(b) \in Nat
    BY <2>1 DEF Held
  <2>. HIDE DEF Given
  <2>5. refs'[b] = IF refs[b] < Given(b) THEN 0 ELSE refs[b] - Given(b)
    BY <1>1, <2>3
  <2>. QED
    BY <2>2, <2>3, <2>4, <2>5
<1>6. TypeOK'
  <2>1. refs' \in [Boxes \cup Values -> Nat]
    <3>1. DOMAIN refs' = Boxes \cup Values
      BY <1>1 DEF IInv, TypeOK, DataOK
    <3>2. refs' = [b \in DOMAIN refs' |-> refs'[b]]
      BY <1>1
    <3>. QED
      BY <1>5, <3>1, <3>2
  <2>. QED
    BY <1>1, <1>3, <2>1 DEF IInv, TypeOK, DataOK, LoopOK
<1>7. OrderInv'
  BY <1>1, <1>3, <1>4 DEF IInv, OrderInv
<1>8. BucketInv'
  BY <1>1, <1>4 DEF IInv, BucketInv
<1>9. EntryInv'
  BY <1>1, <1>4 DEF IInv, EntryInv
<1>10. LoopInv'
  BY <1>1 DEF LoopInv
<1>11. RefsCoverEntries'
  <2>. SUFFICES ASSUME NEW b \in Boxes \cup Values
                PROVE  Held(b)' <= refs'[b] /\ (~pruned' => Held(b)' = refs'[b])
    BY DEF RefsCoverEntries
  <2>1. Held(b)' = 0
    BY <1>3, CountNone DEF Held
  <2>. QED
    BY <1>1, <1>5, <2>1
<1>. QED
  BY <1>6, <1>7, <1>8, <1>9, <1>10, <1>11 DEF IInv
-----------------------------------------------------------------------------
(* for-in *)

LEMMA BodyStep ==
  ASSUME IInv, ForInBody
  PROVE  /\ loop.i + 1 \in 1 .. Len(Order)
         /\ out' = key[Order[loop.i + 1]]
         /\ LoopOK' /\ LoopInv'
<1>1. /\ loop.on /\ loop.i < size /\ size = Len(Order) /\ loop.i \in Nat /\ Len(Order) \in Nat
      /\ Path(head, orderNext, Order) /\ loop \in [on : BOOLEAN, i : Nat, seen : Seq(Boxes), torn : BOOLEAN]
  BY DEF ForInBody, IInv, OrderInv, TypeOK, DataOK, LoopOK
<1>2. loop.i + 1 \in 1 .. Len(Order)
  BY <1>1
<1>3. PICK k : k = key[Order[loop.i + 1]]
  OBVIOUS
<1>4. k \in Boxes /\ Order[loop.i + 1] # NULL
  <2>1. Order[loop.i + 1] \in ToSet(Order) /\ Order[loop.i + 1] \in Nodes
    BY <1>1, <1>2, PathElements
  <2>. QED
    BY <1>3, <2>1, TableAssumption DEF IInv, EntryInv
<1>5. GetEntryAt(loop.i) = Order[loop.i + 1]
  BY <1>1 DEF GetEntryAt
<1>6. /\ loop' = [loop EXCEPT !.i = @ + 1, !.seen = Append(@, k)]
      /\ out' = k
      /\ UNCHANGED <<entries, refs, freed, pruned>>
  BY <1>3, <1>4, <1>5 DEF ForInBody
<1>7. LoopOK'
  <2>1. loop.seen \in Seq(Boxes)
    BY <1>1
  <2>2. Append(loop.seen, k) \in Seq(Boxes) /\ loop.i + 1 \in Nat
    BY <1>1, <1>4, <2>1
  <2>. QED
    BY <1>1, <1>6, <2>2 DEF LoopOK
<1>8. LoopInv'
  <2>1. Order' = Order /\ key' = key /\ size' = size /\ freed' = freed
    BY <1>6, EntriesKept DEF entries
  <2>2. loop'.i = loop.i + 1 /\ loop'.seen = Append(loop.seen, k) /\ loop'.torn = loop.torn
    BY <1>1, <1>6
  <2>3. ASSUME ~loop.torn
        PROVE  Append(loop.seen, k) = [i \in 1 .. loop.i + 1 |-> key[Order[i]]]
    <3>1. loop.seen = [i \in 1 .. loop.i |-> key[Order[i]]] /\ loop.seen \in Seq(Boxes)
      BY <1>1, <2>3 DEF IInv, LoopInv
    <3>2. Len(loop.seen) = loop.i
      BY <1>1, <3>1
    <3>3. /\ Append(loop.seen, k) \in Seq(Boxes)
          /\ Append(loop.seen, k) = [i \in 1 .. loop.i + 1 |-> Append(loop.seen, k)[i]]
          /\ \A i \in 1 .. loop.i : Append(loop.seen, k)[i] = loop.seen[i]
          /\ Append(loop.seen, k)[loop.i + 1] = k
      BY <1>1, <1>4, <3>1, <3>2
    <3>4. \A i \in 1 .. loop.i + 1 : i \in 1 .. loop.i \/ i = loop.i + 1
      BY <1>1
    <3>5. \A i \in 1 .. loop.i + 1 : Append(loop.seen, k)[i] = key[Order[i]]
      BY <1>3, <3>1, <3>3, <3>4
    <3>. QED
      BY <3>3, <3>5
  <2>. QED
    BY <1>1, <2>1, <2>2, <2>3 DEF IInv, LoopInv
<1>. QED
  BY <1>2, <1>3, <1>6, <1>7, <1>8

-----------------------------------------------------------------------------
(* Every step *)

LEMMA InsertStep ==
  ASSUME IInv, NEW k \in Keys, NEW v \in Values, MapInsert(k, v)
  PROVE  IInv'
<1>1. ~freed /\ UNCHANGED <<freed, loop, pruned>>
  BY DEF MapInsert
<1>2. CASE k = NULL
  <2>1. UNCHANGED <<entries, refs>>
    BY <1>2 DEF MapInsert
  <2>2. Order' = Order /\ DataOK' /\ OrderInv' /\ BucketInv' /\ EntryInv' /\ RefsCoverEntries'
    BY <1>1, <2>1, EntriesKept
  <2>3. LoopOK' /\ LoopInv'
    BY <1>1, <2>1, <2>2 DEF IInv, TypeOK, LoopOK, LoopInv, entries
  <2>. QED
    BY <2>2, <2>3 DEF IInv, TypeOK
<1>3. CASE k # NULL
  <2>. DEFINE n == Find(Bucket(Index(k)), k)
  <2>1. k \in Boxes
    BY <1>3 DEF Keys
  <2>2. IF n # NULL THEN Overwrite(n, v) ELSE \E m \in Nodes \ used : AddEntry(m, k, v)
    BY <1>3 DEF MapInsert
  <2>3. \/ n = NULL /\ \A x \in ToSet(Order) : ~CmpAny(key[x], k)
        \/ n # NULL /\ n \in ToSet(Order) /\ CmpAny(key[n], k)
    BY <2>1, FoundEntry
  <2>. HIDE DEF n
  <2>4. CASE n = NULL
    <3>1. PICK m \in Nodes \ used : AddEntry(m, k, v)
      BY <2>2, <2>4
    <3>. QED
      BY <1>1, <2>1, <2>3, <2>4, <3>1, AddStep
  <2>5. CASE n # NULL
    BY <1>1, <2>2, <2>3, <2>5, OverwriteStep
  <2>. QED
    BY <2>4, <2>5
<1>. QED
  BY <1>2, <1>3

LEMMA StepKeeps == IInv /\ [Next]_vars => IInv'
<1>. SUFFICES ASSUME IInv, [Next]_vars
              PROVE  IInv'
  OBVIOUS
<1>1. ASSUME NEW k \in Keys, NEW v \in Values, MapInsert(k, v)
      PROVE  IInv'
  BY <1>1, InsertStep
<1>2. ASSUME NEW k \in Keys, MapRemove(k)
      PROVE  IInv'
  BY <1>2, RemoveStep
<1>3. CASE MapClear
  BY <1>3, ClearStep
<1>4. CASE MapFreeInternal
  BY <1>4, FreeStep
<1>5. ASSUME UNCHANGED <<entries, refs, freed, pruned>>, LoopOK', LoopInv'
      PROVE  IInv'
  BY <1>5, EntriesKept DEF IInv, TypeOK
<1>6. ASSUME UNCHANGED <<entries, refs, freed, pruned, loop>>
      PROVE  IInv'
  <2>1. Order' = Order
    BY <1>6, EntriesKept
  <2>2. LoopOK' /\ LoopInv'
    BY <1>6, <2>1 DEF IInv, TypeOK, LoopOK, LoopInv, entries
  <2>. QED
    BY <1>5, <1>6, <2>2
<1>7. ASSUME NEW k \in Keys, MapGet(k)
      PROVE  IInv'
  BY <1>6, <1>7 DEF MapGet
<1>8. CASE MapLength
  BY <1>6, <1>8 DEF MapLength
<1>9. CASE ForInStart
  <2>1. UNCHANGED <<entries, refs, freed, pruned>> /\ loop' = [NoLoop EXCEPT !.on = TRUE] /\ ~freed
    BY <1>9 DEF ForInStart
  <2>2. LoopOK' /\ loop'.i = 0 /\ loop'.seen = <<>>
    <3>1. loop' = [on |-> TRUE, i |-> 0, seen |-> <<>>, torn |-> FALSE]
      BY <2>1 DEF NoLoop
    <3>2. <<>> \in Seq(Boxes)
      OBVIOUS
    <3>. QED
      BY <3>1, <3>2 DEF LoopOK
  <2>3. <<>> = [i \in 1 .. 0 |-> key'[Order'[i]]] /\ size' \in Nat
    BY <2>1 DEF IInv, TypeOK, DataOK, entries
  <2>4. LoopInv'
    BY <2>1, <2>2, <2>3 DEF LoopInv
  <2>. QED
    BY <1>5, <2>1, <2>2, <2>4
<1>10. CASE ForInBody
  <2>1. UNCHANGED <<entries, refs, freed, pruned>>
    BY <1>10 DEF ForInBody
  <2>. QED
    BY <1>5, <1>10, <2>1, BodyStep
<1>11. CASE ForInEnd
  <2>1. UNCHANGED <<entries, refs, freed, pruned>> /\ loop' = NoLoop
    BY <1>11 DEF ForInEnd
  <2>2. LoopOK' /\ LoopInv'
    BY <2>1 DEF LoopOK, LoopInv, NoLoop
  <2>. QED
    BY <1>5, <2>1, <2>2
<1>12. CASE Done \/ UNCHANGED vars
  BY <1>6, <1>12 DEF Done, vars
<1>. QED
  BY <1>1, <1>2, <1>3, <1>4, <1>7, <1>8, <1>9, <1>10, <1>11, <1>12 DEF Next

\* The two linked structures of map.c stay what they are meant to be: both
\* end, hold the same entries, one in the order of insertion and one by the
\* hash of the key, and no key is there twice.
THEOREM ListsAgree == Spec => []IInv
  BY Initial, StepKeeps, PTL DEF Spec

\* Every box that an entry of a table names is covered by a reference that
\* insert took; as long as nothing was removed there is no reference besides,
\* and freeing the table gives them all back.
THEOREM ReferencesCover == Spec => []RefsCoverEntries
<1>1. IInv => RefsCoverEntries
  BY DEF IInv
<1>. QED
  BY <1>1, ListsAgree, PTL

\* A for-in loop is never handed a null entry, and one whose body removes
\* nothing sees the keys in the order of insertion, none twice and none left
\* out, though it keeps only an index.
THEOREM LoopsInOrder == Spec => []LoopSeesOrder
<1>1. IInv => LoopSeesOrder
  <2>1. ASSUME IInv, loop.on
        PROVE  ~Contains(loop.seen, NULL)
    <3>1. loop.seen \in Seq(Boxes)
      BY <2>1 DEF IInv, TypeOK, LoopOK
    <3>. QED
      BY <3>1, TableAssumption DEF Contains
  <2>. QED
    BY <2>1 DEF IInv, LoopInv, LoopSeesOrder
<1>. QED
  BY <1>1, ListsAgree, PTL
-----------------------------------------------------------------------------
(* The table implements a map that keeps the order of its keys *)

LEMMA ListingIs ==
  ASSUME IInv, ~freed
  PROVE  /\ Listing \in Seq([key : Boxes, val : Values])
         /\ Len(Listing) = Len(Order) /\ Len(Order) \in Nat
         /\ \A i \in 1 .. Len(Order) : /\ Order[i] \in ToSet(Order) /\ Order[i] \in Nodes
                                      /\ Listing[i] = [key |-> key[Order[i]], val |-> val[Order[i]]]
                                      /\ Listing[i].key = key[Order[i]]
                                      /\ Listing[i].val = val[Order[i]]
<1>1. /\ Len(Order) \in Nat /\ \A i \in 1 .. Len(Order) : Order[i] \in ToSet(Order) /\ Order[i] \in Nodes
  BY PathElements DEF IInv, OrderInv
<1>2. \A i \in 1 .. Len(Order) : key[Order[i]] \in Boxes /\ val[Order[i]] \in Values
  BY <1>1 DEF IInv, EntryInv
<1>3. Listing = [i \in 1 .. Len(Order) |-> [key |-> key[Order[i]], val |-> val[Order[i]]]]
  BY DEF Listing
<1>4. \A i \in 1 .. Len(Order) : Listing[i] \in [key : Boxes, val : Values]
  BY <1>2, <1>3
<1>5. Listing \in [1 .. Len(Order) -> [key : Boxes, val : Values]]
  BY <1>3, <1>4
<1>6. Listing \in Seq([key : Boxes, val : Values])
  BY <1>1, <1>5, SeqDef
<1>7. Len(Listing) = Len(Order)
  BY <1>1, <1>5, <1>6
<1>8. ASSUME NEW i \in 1 .. Len(Order)
      PROVE  Listing[i].key = key[Order[i]] /\ Listing[i].val = val[Order[i]]
  <2>1. Listing[i] = [key |-> key[Order[i]], val |-> val[Order[i]]]
    BY <1>3
  <2>. QED
    BY <2>1
<1>9. \A i \in 1 .. Len(Order) : Listing[i] = [key |-> key[Order[i]], val |-> val[Order[i]]]
  BY <1>3
<1>. QED
  BY <1>1, <1>6, <1>7, <1>8, <1>9

\* The same in the next state.
LEMMA ListingWillBe ==
  ASSUME IInv', ~freed'
  PROVE  /\ Listing' \in Seq([key : Boxes, val : Values])
         /\ Len(Listing') = Len(Order')
         /\ \A i \in 1 .. Len(Order') : Listing'[i] = [key |-> key'[Order'[i]], val |-> val'[Order'[i]]]
<1>1. /\ Len(Order') \in Nat /\ \A i \in 1 .. Len(Order') : Order'[i] \in ToSet(Order') /\ Order'[i] \in Nodes
  BY PathElements DEF IInv, OrderInv
<1>2. \A i \in 1 .. Len(Order') : key'[Order'[i]] \in Boxes /\ val'[Order'[i]] \in Values
  BY <1>1 DEF IInv, EntryInv
<1>3. Listing' = [i \in 1 .. Len(Order') |-> [key |-> key'[Order'[i]], val |-> val'[Order'[i]]]]
  BY DEF Listing
<1>4. \A i \in 1 .. Len(Order') : Listing'[i] \in [key : Boxes, val : Values]
  BY <1>2, <1>3
<1>5. Listing' \in [1 .. Len(Order') -> [key : Boxes, val : Values]]
  BY <1>3, <1>4
<1>6. Listing' \in Seq([key : Boxes, val : Values])
  BY <1>1, <1>5, SeqDef
<1>7. Len(Listing') = Len(Order')
  BY <1>1, <1>5, <1>6
<1>. QED
  BY <1>3, <1>6, <1>7

\* The abstract map finds a key where the list has it.
LEMMA AtFound ==
  ASSUME IInv, ~freed, NEW k, NEW p \in 1 .. Len(Order), CmpAny(key[Order[p]], k)
  PROVE  Abs!At(k) = p
<1>. DEFINE I == {i \in 1 .. Len(Listing) : CmpAny(Listing[i].key, k)}
<1>1. I = {i \in 1 .. Len(Order) : CmpAny(key[Order[i]], k)}
  <2>1. Len(Listing) = Len(Order) /\ \A i \in 1 .. Len(Order) : Listing[i].key = key[Order[i]]
    BY ListingIs
  <2>. QED
    BY <2>1
<1>2. ASSUME NEW i \in 1 .. Len(Order), CmpAny(key[Order[i]], k)
      PROVE  i = p
  <2>1. CmpAny(key[Order[i]], key[Order[p]])
    BY <1>2, SameSymmetric, SameTransitive
  <2>2. Order[i] = Order[p]
    BY <2>1, ListingIs DEF IInv, EntryInv
  <2>. QED
    BY <2>2 DEF IInv, OrderInv, Path
<1>3. I = {p}
  BY <1>1, <1>2
<1>4. Abs!Min({p}) = p
  BY ListingIs DEF Abs!Min
<1>. QED
  BY <1>3, <1>4 DEF Abs!At, Abs!SelectInSeq

LEMMA AtNone ==
  ASSUME IInv, ~freed, NEW k, \A x \in ToSet(Order) : ~CmpAny(key[x], k)
  PROVE  Abs!At(k) = 0
<1>. DEFINE I == {i \in 1 .. Len(Listing) : CmpAny(Listing[i].key, k)}
<1>1. I = {}
  <2>1. /\ Len(Listing) = Len(Order)
        /\ \A i \in 1 .. Len(Order) : Listing[i].key = key[Order[i]] /\ Order[i] \in ToSet(Order)
    BY ListingIs
  <2>. QED
    BY <2>1
<1>. QED
  BY <1>1 DEF Abs!At, Abs!SelectInSeq

\* Where an entry is in the list.
LEMMA PlaceOf ==
  ASSUME IInv, NEW n \in ToSet(Order)
  PROVE  \E p \in 1 .. Len(Order) : n = Order[p]
  BY PathElements DEF IInv, OrderInv

LEMMA InsertMaps ==
  ASSUME IInv, IInv', NEW k \in Keys, NEW v \in Values, MapInsert(k, v)
  PROVE  Abs!Put(k, v)
<1>1. ~freed /\ ~freed' /\ out' = NULL /\ UNCHANGED <<freed, loop, pruned>>
  BY DEF MapInsert
<1>2. CASE k = NULL
  <2>1. UNCHANGED <<entries, refs>>
    BY <1>2 DEF MapInsert
  <2>2. Listing' = Listing
    BY <1>1, <2>1 DEF Listing, Order, entries
  <2>. QED
    BY <1>1, <1>2, <2>2 DEF Abs!Put
<1>3. CASE k # NULL
  <2>. DEFINE n == Find(Bucket(Index(k)), k)
  <2>1. k \in Boxes
    BY <1>3 DEF Keys
  <2>2. IF n # NULL THEN Overwrite(n, v) ELSE \E m \in Nodes \ used : AddEntry(m, k, v)
    BY <1>3 DEF MapInsert
  <2>3. \/ n = NULL /\ \A x \in ToSet(Order) : ~CmpAny(key[x], k)
        \/ n # NULL /\ n \in ToSet(Order) /\ CmpAny(key[n], k)
    BY <2>1, FoundEntry
  <2>. HIDE DEF n
  <2>4. CASE n = NULL
    <3>1. PICK m \in Nodes \ used : AddEntry(m, k, v)
      BY <2>2, <2>4
    <3>2. Order' = Append(Order, m)
      BY <1>1, <2>1, <3>1, AddOrder
    <3>3. Abs!At(k) = 0
      BY <1>1, <2>3, <2>4, AtNone
    <3>4. /\ key'[m] = k /\ val'[m] = v
          /\ \A x \in ToSet(Order) : key'[x] = key[x] /\ val'[x] = val[x]
      <4>1. /\ used = ToSet(Order) /\ used \in SUBSET Nodes
            /\ key \in [Nodes -> Keys] /\ val \in [Nodes -> Values \cup {NULL}]
        BY <1>1 DEF IInv, OrderInv, TypeOK, DataOK
      <4>. QED
        BY <3>1, <4>1 DEF AddEntry
    <3>5. /\ Len(Order') = Len(Order) + 1 /\ Order'[Len(Order) + 1] = m
          /\ \A i \in 1 .. Len(Order) : Order'[i] = Order[i]
      <4>1. Order \in Seq(Nodes)
        BY DEF IInv, OrderInv, Path
      <4>. QED
        BY <3>2, <4>1
    <3>6. Listing' = Append(Listing, [key |-> k, val |-> v])
      <4>. DEFINE R == [key : Boxes, val : Values]
                  e == [key |-> k, val |-> v]
                  t == Append(Listing, e)
      <4>1. /\ Listing \in Seq(R) /\ Len(Listing) = Len(Order) /\ Len(Order) \in Nat
            /\ \A i \in 1 .. Len(Order) : /\ Order[i] \in ToSet(Order)
                                         /\ Listing[i] = [key |-> key[Order[i]], val |-> val[Order[i]]]
        BY <1>1, ListingIs
      <4>2. /\ Listing' \in Seq(R) /\ Len(Listing') = Len(Order')
            /\ \A i \in 1 .. Len(Order') : Listing'[i] = [key |-> key'[Order'[i]], val |-> val'[Order'[i]]]
        BY <1>1, ListingWillBe
      <4>3. e \in R
        BY <2>1
      <4>. HIDE DEF R, e
      <4>4. /\ t \in Seq(R) /\ Len(t) = Len(Order) + 1 /\ t[Len(Order) + 1] = e
            /\ \A i \in 1 .. Len(Order) : t[i] = Listing[i]
        BY <4>1, <4>3
      <4>. HIDE DEF t
      <4>5. ASSUME NEW i \in 1 .. Len(Order')
            PROVE  Listing'[i] = t[i]
        <5>1. CASE i = Len(Order) + 1
          BY <3>4, <3>5, <4>2, <4>4, <5>1 DEF e
        <5>2. CASE i # Len(Order) + 1
          <6>1. i \in 1 .. Len(Order)
            BY <3>5, <4>1, <5>2
          <6>2. key'[Order[i]] = key[Order[i]] /\ val'[Order[i]] = val[Order[i]]
            BY <3>4, <4>1, <6>1
          <6>3. Listing'[i] = [key |-> key'[Order[i]], val |-> val'[Order[i]]]
            BY <3>5, <4>2, <6>1
          <6>4. t[i] = [key |-> key[Order[i]], val |-> val[Order[i]]]
            BY <4>1, <4>4, <6>1
          <6>. QED
            BY <6>2, <6>3, <6>4
        <5>. QED
          BY <5>1, <5>2
      <4>6. Listing' = t
        BY <3>5, <4>2, <4>4, <4>5, SeqEqual
      <4>. QED
        BY <4>6 DEF t, e
    <3>. QED
      BY <1>1, <1>3, <3>3, <3>6 DEF Abs!Put
  <2>5. CASE n # NULL
    <3>1. Overwrite(n, v) /\ n \in ToSet(Order) /\ CmpAny(key[n], k)
      BY <2>2, <2>3, <2>5
    <3>2. PICK p \in 1 .. Len(Order) : n = Order[p]
      BY <3>1, PlaceOf
    <3>3. Abs!At(k) = p /\ p # 0
      BY <1>1, <3>1, <3>2, AtFound
    <3>4. Order' = Order /\ key' = key
      BY <3>1 DEF Order, Overwrite
    <3>5. /\ val \in [Nodes -> Values \cup {NULL}]
          /\ \A i, j \in 1 .. Len(Order) : Order[i] = Order[j] => i = j
      BY DEF IInv, OrderInv, TypeOK, DataOK, Path
    <3>6. Listing' = [Listing EXCEPT ![p].val = v]
      <4>1. /\ Listing = [i \in 1 .. Len(Order) |-> [key |-> key[Order[i]], val |-> val[Order[i]]]]
            /\ Listing' = [i \in 1 .. Len(Order) |-> [key |-> key[Order[i]], val |-> val'[Order[i]]]]
        BY <1>1, <3>4 DEF Listing
      <4>2. \A i \in 1 .. Len(Order) : val'[Order[i]] = IF i = p THEN v ELSE val[Order[i]]
        <5>1. \A i \in 1 .. Len(Order) : Order[i] \in Nodes
          BY <1>1, ListingIs
        <5>2. val' = [val EXCEPT ![n] = v]
          BY <3>1 DEF Overwrite
        <5>. QED
          BY <3>2, <3>5, <5>1, <5>2
      <4>. QED
        BY <4>1, <4>2
    <3>. QED
      BY <1>1, <1>3, <3>3, <3>6 DEF Abs!Put
  <2>. QED
    BY <2>4, <2>5
<1>. QED
  BY <1>2, <1>3

LEMMA LookupMaps ==
  ASSUME IInv, NEW k \in Keys, MapGet(k)
  PROVE  Abs!Lookup(k)
<1>1. ~freed /\ out' = ValueOf(k) /\ UNCHANGED <<entries, freed>>
  BY DEF MapGet
<1>2. Listing' = Listing
  BY <1>1 DEF Listing, Order, entries
<1>3. CASE k = NULL
  BY <1>1, <1>2, <1>3 DEF Abs!Lookup, ValueOf
<1>4. CASE k # NULL
  <2>. DEFINE n == Find(Bucket(Index(k)), k)
  <2>1. k \in Boxes
    BY <1>4 DEF Keys
  <2>2. ValueOf(k) = IF n = NULL THEN NULL ELSE val[n]
    BY <1>4 DEF ValueOf
  <2>3. \/ n = NULL /\ \A x \in ToSet(Order) : ~CmpAny(key[x], k)
        \/ n # NULL /\ n \in ToSet(Order) /\ CmpAny(key[n], k)
    BY <2>1, FoundEntry
  <2>. HIDE DEF n
  <2>4. CASE n = NULL
    <3>1. Abs!At(k) = 0
      BY <1>1, <2>3, <2>4, AtNone
    <3>. QED
      BY <1>1, <1>2, <1>4, <2>2, <2>4, <3>1 DEF Abs!Lookup
  <2>5. CASE n # NULL
    <3>1. PICK p \in 1 .. Len(Order) : n = Order[p]
      BY <2>3, <2>5, PlaceOf
    <3>2. Abs!At(k) = p /\ p # 0
      BY <1>1, <2>3, <2>5, <3>1, AtFound
    <3>3. Listing[p].val = val[n]
      BY <1>1, <3>1, ListingIs
    <3>. QED
      BY <1>1, <1>2, <1>4, <2>2, <2>5, <3>2, <3>3 DEF Abs!Lookup
  <2>. QED
    BY <2>4, <2>5
<1>. QED
  BY <1>3, <1>4

LEMMA RemoveMaps ==
  ASSUME IInv, IInv', NEW k \in Keys, MapRemove(k)
  PROVE  Abs!Delete(k)
<1>1. ~freed /\ ~freed' /\ out' = NULL
  BY DEF MapRemove
<1>2. CASE Find(Order, k) = NULL
  <2>1. UNCHANGED <<entries, freed>>
    BY <1>2 DEF MapRemove
  <2>2. Listing' = Listing
    BY <2>1 DEF Listing, Order, entries
  <2>3. Order \in Seq(Nodes) /\ ToSet(Order) = {Order[i] : i \in 1 .. Len(Order)}
    BY PathElements DEF IInv, OrderInv
  <2>4. \A x \in ToSet(Order) : ~CmpAny(key[x], k)
    <3>1. \A i \in 1 .. Len(Order) : Order[i] # NULL
      BY <2>3, TableAssumption
    <3>2. \A i \in 1 .. Len(Order) : ~CmpAny(key[Order[i]], k)
      BY <1>2, <2>3, <3>1, FindSpec
    <3>. QED
      BY <2>3, <3>2
  <2>5. Abs!At(k) = 0
    BY <1>1, <2>4, AtNone
  <2>. QED
    BY <1>1, <2>2, <2>5 DEF Abs!Delete
<1>3. CASE Find(Order, k) # NULL
  <2>1. PICK p \in 1 .. Len(Order) : Find(Order, k) = Order[p] /\ CmpAny(key[Order[p]], k)
    BY <1>3, FoundInOrder
  <2>2. PICK n \in Nodes : n = Order[p]
    BY <1>1, <2>1, ListingIs
  <2>3. UnlinkOrder(n) /\ key' = Without(key, <<n>>) /\ val' = Without(val, <<n>>)
    BY <1>3, <2>1, <2>2 DEF MapRemove
  <2>4. Order' = RemoveAt(Order, p)
    BY <2>2, <2>3, RemoveOrder
  <2>5. Abs!At(k) = p /\ p # 0
    BY <1>1, <2>1, AtFound
  <2>6. \A x \in Nodes : x # n => key'[x] = key[x] /\ val'[x] = val[x]
    <3>1. <<n>> \in Seq(Nodes) /\ ToSet(<<n>>) = {n}
      BY DEF ToSet
    <3>. QED
      BY <2>3, <3>1, WithoutSpec
  <2>7. Listing' = RemoveAt(Listing, p)
    <3>. DEFINE R == [key : Boxes, val : Values]
                t == RemoveAt(Listing, p)
    <3>1. /\ Listing \in Seq(R) /\ Len(Listing) = Len(Order) /\ Len(Order) \in Nat
          /\ \A i \in 1 .. Len(Order) : /\ Order[i] \in Nodes
                                       /\ Listing[i] = [key |-> key[Order[i]], val |-> val[Order[i]]]
      BY <1>1, ListingIs
    <3>2. /\ Listing' \in Seq(R) /\ Len(Listing') = Len(Order')
          /\ \A i \in 1 .. Len(Order') : Listing'[i] = [key |-> key'[Order'[i]], val |-> val'[Order'[i]]]
      BY <1>1, ListingWillBe
    <3>. HIDE DEF R
    <3>3. /\ t \in Seq(R) /\ Len(t) = Len(Order) - 1
          /\ \A i \in 1 .. Len(Order) - 1 : t[i] = IF i < p THEN Listing[i] ELSE Listing[i + 1]
      BY <3>1, RemoveAtSpec
    <3>4. /\ Len(Order') = Len(Order) - 1
          /\ \A i \in 1 .. Len(Order) - 1 : Order'[i] = IF i < p THEN Order[i] ELSE Order[i + 1]
      <4>1. Order \in Seq(Nodes)
        BY DEF IInv, OrderInv, Path
      <4>. QED
        BY <2>4, <4>1, RemoveAtSpec
    <3>. HIDE DEF t
    <3>5. ASSUME NEW i \in 1 .. Len(Order')
          PROVE  Listing'[i] = t[i]
      <4>1. PICK j \in 1 .. Len(Order) : j = (IF i < p THEN i ELSE i + 1) /\ j # p
        BY <3>1, <3>4
      <4>2. Order'[i] = Order[j] /\ t[i] = Listing[j]
        BY <3>3, <3>4, <4>1
      <4>3. Order[j] # n /\ Order[j] \in Nodes
        BY <2>2, <3>1, <4>1 DEF IInv, OrderInv, Path
      <4>4. key'[Order[j]] = key[Order[j]] /\ val'[Order[j]] = val[Order[j]]
        BY <2>6, <4>3
      <4>5. Listing'[i] = [key |-> key'[Order[j]], val |-> val'[Order[j]]]
        BY <3>2, <4>2
      <4>6. t[i] = [key |-> key[Order[j]], val |-> val[Order[j]]]
        BY <3>1, <4>1, <4>2
      <4>. QED
        BY <4>4, <4>5, <4>6
    <3>6. Listing' = t
      BY <3>2, <3>3, <3>4, <3>5, SeqEqual
    <3>. QED
      BY <3>6 DEF t
  <2>8. RemoveAt(Listing, p) = Abs!RemoveAt(Listing, p)
    BY DEF RemoveAt, Abs!RemoveAt
  <2>. QED
    BY <1>1, <2>5, <2>7, <2>8 DEF Abs!Delete
<1>. QED
  BY <1>2, <1>3

LEMMA MapInitial == Init => Abs!Init
<1>. SUFFICES ASSUME Init
              PROVE  Abs!Init
  OBVIOUS
<1>1. orderNext \in [Nodes -> Links] /\ Path(head, orderNext, <<>>)
  BY EmptyPath DEF Init, Links
<1>2. Order = <<>>
  BY <1>1, OrderIs
<1>3. Listing = <<>>
  BY <1>2 DEF Init, Listing
<1>. QED
  BY <1>3 DEF Init, Abs!Init

LEMMA MapStep == IInv /\ IInv' /\ [Next]_vars => [Abs!Next]_<<Listing, out>>
<1>. SUFFICES ASSUME IInv, IInv', [Next]_vars
              PROVE  [Abs!Next]_<<Listing, out>>
  OBVIOUS
<1>1. ASSUME NEW k \in Keys, NEW v \in Values, MapInsert(k, v)
      PROVE  Abs!Next
  BY <1>1, InsertMaps DEF Abs!Next
<1>2. ASSUME NEW k \in Keys, MapGet(k)
      PROVE  Abs!Next
  BY <1>2, LookupMaps DEF Abs!Next
<1>3. ASSUME NEW k \in Keys, MapRemove(k)
      PROVE  Abs!Next
  BY <1>3, RemoveMaps DEF Abs!Next
<1>4. UNCHANGED <<entries, freed>> => Listing' = Listing
  BY DEF Listing, Order, entries
<1>5. CASE MapLength
  <2>1. ~freed /\ out' = size /\ UNCHANGED <<entries, freed>>
    BY <1>5 DEF MapLength
  <2>2. size = Len(Listing)
    BY <2>1, ListingIs DEF IInv, OrderInv
  <2>. QED
    BY <1>4, <2>1, <2>2 DEF Abs!Next, Abs!Count
<1>6. CASE MapClear
  <2>1. Listing' = <<>> /\ out' = NULL
    BY <1>6, ClearStep DEF MapClear, Listing
  <2>. QED
    BY <2>1 DEF Abs!Next, Abs!Empty
<1>7. CASE MapFreeInternal
  <2>1. Listing' = <<>> /\ out' = NULL
    BY <1>7 DEF MapFreeInternal, Listing
  <2>. QED
    BY <2>1 DEF Abs!Next, Abs!Empty
<1>8. CASE ForInBody
  <2>1. loop.i + 1 \in 1 .. Len(Order) /\ out' = key[Order[loop.i + 1]] /\ ~freed
    BY <1>8, BodyStep DEF ForInBody, IInv, LoopInv
  <2>2. loop.i + 1 \in DOMAIN Listing /\ out' = Listing[loop.i + 1].key
    <3>1. DOMAIN Listing = 1 .. Len(Order)
      BY <2>1 DEF Listing
    <3>. QED
      BY <2>1, <3>1, ListingIs
  <2>3. Listing' = Listing
    BY <1>4, <1>8 DEF ForInBody
  <2>. QED
    BY <2>2, <2>3 DEF Abs!Next, Abs!KeyAt
<1>9. CASE ForInStart \/ ForInEnd \/ Done \/ UNCHANGED vars
  <2>1. UNCHANGED <<entries, freed>> /\ out' = out
    BY <1>9 DEF ForInStart, ForInEnd, Done, vars
  <2>. QED
    BY <1>4, <2>1
<1>. QED
  BY <1>1, <1>2, <1>3, <1>5, <1>6, <1>7, <1>8, <1>9 DEF Next

\* The hash table of map.c, with its buckets, its second list and entries
\* whose addresses are used again, answers as a map that keeps the order of
\* its keys, for every hash function, capacity and equality of contents.
THEOREM TableIsMap == Spec => ImplementsOrderedMap
<1>1. Spec => Abs!Init
  BY MapInitial DEF Spec
<1>2. Spec => [][Next]_vars
  BY DEF Spec
<1>. QED
  BY <1>1, <1>2, ListsAgree, MapStep, PTL DEF ImplementsOrderedMap, Abs!Spec
=============================================================================
